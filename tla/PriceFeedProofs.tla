------------------------------ MODULE PriceFeedProofs ------------------------------
(***************************************************************************)
(* Proofs about PriceFeed for any number of jobs, readers and files, any     *)
(* length of a day and of a buffer, as long as no job is still running at    *)
(* midnight.                                                                 *)
(***************************************************************************)
EXTENDS PriceFeed, SequenceTheorems, TLAPS

-----------------------------------------------------------------------------
(* The clock. *)

\* What the two calls of date return, and what the script makes of them.
LEMMA HourAndMinute ==
    ASSUME NEW m \in Minutes
    PROVE  /\ m \div MinutesPerHour \in 0 .. Hours - 1
           /\ m % MinutesPerHour \in 0 .. MinutesPerHour - 1
           /\ m = MinutesPerHour * (m \div MinutesPerHour) + (m % MinutesPerHour)
<1> DEFINE q == m \div MinutesPerHour
           r == m % MinutesPerHour
<1>1. /\ m \in Nat /\ Hours \in Nat /\ MinutesPerHour \in Nat /\ MinutesPerHour > 0
      /\ m < Hours * MinutesPerHour
  BY ClockAssumption DEF Minutes
<1>2. q \in Int /\ r \in 0 .. MinutesPerHour - 1 /\ m = MinutesPerHour * q + r
  BY <1>1
<1> HIDE DEF q, r
<1>3. q >= 0
  <2> SUFFICES ASSUME q <= -1 PROVE FALSE
    BY <1>2
  <2>1. MinutesPerHour * q <= MinutesPerHour * (-1)
    BY <1>1, <1>2
  <2> QED
    BY <1>1, <1>2, <2>1
<1>4. q < Hours
  <2> SUFFICES ASSUME q >= Hours PROVE FALSE
    BY <1>1, <1>2
  <2>1. MinutesPerHour * q >= MinutesPerHour * Hours
    BY <1>1, <1>2
  <2> QED
    BY <1>1, <1>2, <2>1
<1> QED
  BY <1>1, <1>2, <1>3, <1>4 DEF q, r

LEMMA HourMonotone ==
    ASSUME NEW m \in Minutes, NEW h \in Nat, h <= m \div MinutesPerHour, m + 1 \in Minutes
    PROVE  h <= (m + 1) \div MinutesPerHour
BY ClockAssumption DEF Minutes

\* An hour that was read earlier and a minute of the hour that is read now make
\* a minute of the day that is not ahead of now.
LEMMA ComputedMinute ==
    ASSUME NEW m \in Minutes, NEW h \in Nat, h <= m \div MinutesPerHour
    PROVE  /\ MinutesPerHour * h + (m % MinutesPerHour) \in Minutes
           /\ MinutesPerHour * h + (m % MinutesPerHour) <= m
<1> DEFINE q == m \div MinutesPerHour
           r == m % MinutesPerHour
<1>1. /\ MinutesPerHour \in Nat /\ Hours \in Nat /\ m \in Nat
      /\ m < Hours * MinutesPerHour
  BY ClockAssumption DEF Minutes
<1>2. /\ q \in Nat /\ h <= q /\ r \in 0 .. MinutesPerHour - 1
      /\ m = MinutesPerHour * q + r
  BY HourAndMinute, ClockAssumption
<1> HIDE DEF q, r
<1>3. MinutesPerHour * h <= MinutesPerHour * q /\ MinutesPerHour * h \in Nat
  BY <1>1, <1>2
<1>4. MinutesPerHour * h + r \in 0 .. m
  BY <1>1, <1>2, <1>3
<1> QED
  BY <1>1, <1>4 DEF q, r, Minutes

LEMMA DayHasMinutes == DayRows \in Nat \ {0} /\ Minutes = 0 .. DayRows - 1
BY ClockAssumption DEF DayRows, Minutes

-----------------------------------------------------------------------------
(* The invariant of the types. *)

Daily(j) == pc[j] \in {"generate", "removeCooked", "openCooked", "writeCooked"}

\* cooked.csv has one writer.
OneDaily ==
    /\ \A j, k \in Jobs : Daily(j) /\ Daily(k) => j = k
    /\ \A j \in Jobs : pc[j] = "writeCooked" => cooked \in Curves

\* A job that is between the two calls of date holds an hour that has begun.
HourRead ==
    \A j \in Jobs : pc[j] = "min" => job[j].hour <= minute \div MinutesPerHour

\* A job that writes has a file, and has not written past its last row.
Writing ==
    \A j \in Jobs :
        /\ pc[j] = "write" => /\ job[j].fd \in Inodes
                              /\ job[j].next <= Last(j) + 1
                              /\ job[j].next <= job[j].curve.len
        /\ pc[j] # "write" => job[j].fd = Missing

TypeInv == TypeOK /\ OneDaily /\ HourRead /\ Writing

LEMMA StretchRows ==
    ASSUME NEW d \in Nat, NEW from \in Nat, NEW to \in Int, from <= to + 1
    PROVE  /\ Stretch(d, from, to) \in Seq(Rows)
           /\ Len(Stretch(d, from, to)) = to - from + 1
           /\ DOMAIN Stretch(d, from, to) = 1 .. to - from + 1
           /\ \A k \in 1 .. to - from + 1 : Stretch(d, from, to)[k] = Row(d, from + k - 1)
<1>1. to - from + 1 \in Nat
  OBVIOUS
<1>2. \A k \in 1 .. to - from + 1 : Row(d, from + k - 1) \in Rows
  BY DEF Row, Rows
<1>3. Stretch(d, from, to) \in [1 .. to - from + 1 -> Rows]
  BY <1>2 DEF Stretch
<1> QED
  BY <1>1, <1>3 DEF Stretch

LEMMA KeptType ==
    ASSUME NEW f \in [Inodes -> Seq(Rows)]
    PROVE  /\ Kept(f) \in [Inodes -> Seq(Rows)]
           /\ \A i \in Inodes : Kept(f)[i] = f[i] \/ Kept(f)[i] = <<>>
           /\ \A i \in Used' \intersect Inodes : Kept(f)[i] = f[i]
           /\ \A i \in Inodes \ Used' : Kept(f)[i] = <<>>
BY DEF Kept

\* What appending rows does to the files.
LEMMA AppendedRows ==
    ASSUME TypeInv, NEW j \in Jobs, pc[j] = "write", NEW to \in Int,
           job[j].next <= to + 1
    PROVE  /\ Appended(j, to) \in [Inodes -> Seq(Rows)]
           /\ \A i \in Inodes \ {job[j].fd} : Appended(j, to)[i] = file[i]
           /\ Appended(j, to)[job[j].fd]
                = file[job[j].fd] \o Stretch(job[j].curve.day, job[j].next, to)
<1>1. job[j] \in Locals /\ job[j].fd \in Inodes /\ file \in [Inodes -> Seq(Rows)]
  BY DEF TypeInv, TypeOK, Writing
<1>2. job[j].curve.day \in Nat /\ job[j].next \in Nat
  BY <1>1, DayHasMinutes DEF Locals, Curves
<1>3. Stretch(job[j].curve.day, job[j].next, to) \in Seq(Rows)
  BY <1>2, StretchRows
<1>4. file[job[j].fd] \in Seq(Rows)
  BY <1>1
<1>5. file[job[j].fd] \o Stretch(job[j].curve.day, job[j].next, to) \in Seq(Rows)
  BY <1>3, <1>4, ConcatProperties
<1> QED
  BY <1>1, <1>5 DEF Appended

LEMMA InitTypeInv == Init => TypeInv
<1> SUFFICES ASSUME Init PROVE TypeInv
  OBVIOUS
<1>1. PICK built \in Minutes :
        file = [i \in Inodes |-> IF i = now THEN Stretch(raw, 0, built) ELSE <<>>]
  BY DEF Init
<1>2. Stretch(raw, 0, built) \in Seq(Rows)
  <2>1. raw \in Nat /\ built \in Int /\ 0 <= built + 1 /\ 0 \in Nat
    BY DayHasMinutes DEF Init
  <2> QED
    BY <2>1, StretchRows
<1>3. file \in [Inodes -> Seq(Rows)]
  BY <1>1, <1>2
<1>4. NoJob \in Locals
  BY DayHasMinutes, ClockAssumption DEF NoJob, Locals, Curves
<1>5. TypeOK
  <2>1. cooked \in Curves
    BY DayHasMinutes DEF Init, Curves
  <2>2. pc \in [Jobs -> Calls \union {"idle"}] /\ job \in [Jobs -> Locals]
    BY <1>4 DEF Init
  <2>3. day = 1 /\ minute \in Minutes /\ raw \in {0, 1} /\ now \in Inodes /\ alone = {}
    BY DEF Init
  <2>5. harm \in BOOLEAN
    BY DEF Init
  <2>4. reading \in [Readers -> Inodes \union {Missing}]
    BY DEF Init
  <2> QED
    BY <1>3, <2>1, <2>2, <2>3, <2>4, <2>5 DEF TypeOK
<1>6. OneDaily /\ HourRead /\ Writing
  BY DEF Init, OneDaily, Daily, HourRead, Writing, NoJob
<1> QED
  BY <1>5, <1>6 DEF TypeInv

\* A step of the clock: the job it starts is at its first call.
LEMMA MinutelyTypeInv == TypeInv /\ Minutely => TypeInv'
<1> SUFFICES ASSUME TypeInv, NEW j \in Idle, Minutely,
                    minute + 1 \in Minutes, minute' = minute + 1,
                    pc' = [pc EXCEPT ![j] = "hour"],
                    alone' \subseteq Jobs,
                    UNCHANGED <<day, daily, now, file, job, reading, harm>>
             PROVE  TypeInv'
  BY DEF Minutely, Idle
<1>1. j \in Jobs /\ pc[j] = "idle"
  BY DEF Idle
<1>2. TypeOK'
  BY <1>1 DEF TypeInv, TypeOK, daily, Calls, Curves, Minutes, DayRows
<1>3. OneDaily'
  BY <1>1 DEF TypeInv, TypeOK, OneDaily, Daily, daily, Curves, DayRows
<1>4. HourRead'
  <2> SUFFICES ASSUME NEW k \in Jobs, pc'[k] = "min"
               PROVE  job'[k].hour <= minute' \div MinutesPerHour
    BY DEF HourRead
  <2>1. pc[k] = "min" /\ job'[k] = job[k]
    BY <1>1 DEF TypeInv, TypeOK
  <2>2. /\ job[k].hour \in Nat /\ job[k].hour <= minute \div MinutesPerHour
        /\ minute \in Minutes
    BY <2>1, ClockAssumption DEF TypeInv, TypeOK, HourRead, Locals
  <2> QED
    BY <2>1, <2>2, HourMonotone
<1>5. Writing'
  BY <1>1 DEF TypeInv, TypeOK, Writing, Last
<1> QED
  BY <1>2, <1>3, <1>4, <1>5 DEF TypeInv

\* The jobs of midnight start when no other runs.
LEMMA MidnightTypeInv ==
    ASSUME Straddle = FALSE, TypeInv, Midnight
    PROVE  TypeInv'
<1> SUFFICES ASSUME NEW j \in Jobs, NEW k \in Jobs, j # k, Idle = Jobs,
                    day' = day + 1, minute' = 0,
                    pc' = [pc EXCEPT ![j] = "hour", ![k] = "generate"],
                    alone' = {},
                    UNCHANGED <<daily, now, file, job, reading, harm>>
             PROVE  TypeInv'
  BY DEF Midnight, Idle
<1>1. \A l \in Jobs : pc[l] = "idle"
  BY DEF Idle
<1>2. \A l \in Jobs : pc'[l] \in {"idle", "hour", "generate"} /\ (pc'[l] = "generate" => l = k)
  BY <1>1 DEF TypeInv, TypeOK
<1>3. 0 \in Minutes
  BY DayHasMinutes
<1>4. TypeOK'
  BY <1>3 DEF TypeInv, TypeOK, daily, Calls
<1>5. OneDaily' /\ HourRead'
  BY <1>2 DEF OneDaily, Daily, HourRead
<1>6. Writing'
  BY <1>1, <1>2 DEF TypeInv, Writing
<1> QED
  BY <1>4, <1>5, <1>6 DEF TypeInv

LEMMA GenerateTypeInv == ASSUME TypeInv, NEW j \in Jobs, Generate(j) PROVE TypeInv'
<1> USE DEF Generate, Goto, clock
<1>1. TypeOK'
  BY DEF TypeInv, TypeOK, Calls
<1>2. OneDaily'
  BY DEF TypeInv, TypeOK, OneDaily, Daily
<1>3. HourRead' /\ Writing'
  BY DEF TypeInv, TypeOK, HourRead, Writing, Last
<1> QED
  BY <1>1, <1>2, <1>3 DEF TypeInv

LEMMA RemoveCookedTypeInv == ASSUME TypeInv, NEW j \in Jobs, RemoveCooked(j) PROVE TypeInv'
<1> USE DEF RemoveCooked, Goto, clock
<1>1. TypeOK'
  BY DEF TypeInv, TypeOK, Calls
<1>2. OneDaily'
  BY DEF TypeInv, TypeOK, OneDaily, Daily
<1>3. HourRead' /\ Writing'
  BY DEF TypeInv, TypeOK, HourRead, Writing, Last
<1> QED
  BY <1>1, <1>2, <1>3 DEF TypeInv

LEMMA OpenCookedTypeInv == ASSUME TypeInv, NEW j \in Jobs, OpenCooked(j) PROVE TypeInv'
<1> USE DEF OpenCooked, Goto, clock
<1>1. [day |-> raw, len |-> 0] \in Curves
  BY DayHasMinutes DEF TypeInv, TypeOK, Curves
<1>2. TypeOK'
  BY <1>1 DEF TypeInv, TypeOK, Calls
<1>3. OneDaily'
  BY <1>1 DEF TypeInv, TypeOK, OneDaily, Daily
<1>4. HourRead' /\ Writing'
  BY DEF TypeInv, TypeOK, HourRead, Writing, Last
<1> QED
  BY <1>2, <1>3, <1>4 DEF TypeInv

LEMMA WriteCookedTypeInv == ASSUME TypeInv, NEW j \in Jobs, WriteCooked(j) PROVE TypeInv'
<1> USE DEF WriteCooked, Goto, clock
<1>1. cooked \in Curves
  BY DEF TypeInv, OneDaily
<1>2. cooked' \in Curves
  BY <1>1, DayHasMinutes, BufferAssumption DEF Curves
<1>3. TypeOK'
  BY <1>2 DEF TypeInv, TypeOK, Calls
<1>4. OneDaily'
  BY <1>2 DEF TypeInv, TypeOK, OneDaily, Daily
<1>5. HourRead' /\ Writing'
  BY DEF TypeInv, TypeOK, HourRead, Writing, Last
<1> QED
  BY <1>3, <1>4, <1>5 DEF TypeInv

LEMMA ReadHourTypeInv == ASSUME TypeInv, NEW j \in Jobs, ReadHour(j) PROVE TypeInv'
<1> USE DEF ReadHour, Goto, clock, daily
<1>1. minute \div MinutesPerHour \in 0 .. Hours - 1
  BY HourAndMinute DEF TypeInv, TypeOK
<1>2. job' \in [Jobs -> Locals] /\ \A k \in Jobs \ {j} : job'[k] = job[k]
  BY <1>1 DEF TypeInv, TypeOK, Locals
<1>3. job'[j].hour = minute \div MinutesPerHour /\ job'[j].fd = job[j].fd
  BY DEF TypeInv, TypeOK, Locals
<1>4. TypeOK'
  BY <1>2 DEF TypeInv, TypeOK, Calls
<1>5. OneDaily'
  BY DEF TypeInv, TypeOK, OneDaily, Daily
<1>6. HourRead'
  BY <1>1, <1>2, <1>3 DEF TypeInv, TypeOK, HourRead
<1>7. Writing'
  BY <1>2, <1>3 DEF TypeInv, TypeOK, Writing, Last
<1> QED
  BY <1>4, <1>5, <1>6, <1>7 DEF TypeInv

LEMMA NoJobIsTyped == NoJob \in Locals /\ NoJob.fd = Missing
BY DayHasMinutes, ClockAssumption DEF NoJob, Locals, Curves

\* What a job that ends leaves of the invariant, whatever it does to the files.
LEMMA ExitTypeInv ==
    ASSUME TypeInv, NEW j \in Jobs, ~Daily(j), Exit(j),
           UNCHANGED <<day, minute, raw, cooked, alone>>,
           file' \in [Inodes -> Seq(Rows)], now' \in Inodes \union {Missing},
           reading' \in [Readers -> Inodes \union {Missing}], harm' \in BOOLEAN
    PROVE  TypeInv'
<1> USE DEF Exit, Goto
<1>1. /\ job' \in [Jobs -> Locals] /\ job'[j] = NoJob
      /\ \A k \in Jobs \ {j} : job'[k] = job[k]
  BY NoJobIsTyped DEF TypeInv, TypeOK
<1>2. TypeOK'
  BY <1>1 DEF TypeInv, TypeOK
<1>3. OneDaily'
  BY DEF TypeInv, TypeOK, OneDaily, Daily
<1>4. HourRead' /\ Writing'
  BY <1>1, NoJobIsTyped DEF TypeInv, TypeOK, HourRead, Writing, Last
<1> QED
  BY <1>2, <1>3, <1>4 DEF TypeInv

LEMMA ReadMinTypeInv == ASSUME TypeInv, NEW j \in Jobs, ReadMin(j) PROVE TypeInv'
<1> DEFINE min == minute % MinutesPerHour
           minutes == MinutesPerHour * job[j].hour + min
<1>1. CASE Exit(j)
  BY <1>1, ExitTypeInv DEF ReadMin, Daily, TypeInv, TypeOK, clock, daily
<1>2. CASE job' = [job EXCEPT ![j].minutes = minutes] /\ Goto(j, "parse")
  <2>1. minutes \in Minutes
    <3>1. job[j].hour \in Nat /\ job[j].hour <= minute \div MinutesPerHour /\ minute \in Minutes
      BY ClockAssumption DEF ReadMin, TypeInv, TypeOK, HourRead, Locals
    <3> QED
      BY <3>1, ComputedMinute
  <2> HIDE DEF min, minutes
  <2>2. /\ job' \in [Jobs -> Locals] /\ job'[j].fd = job[j].fd
        /\ \A k \in Jobs \ {j} : job'[k] = job[k]
    BY <1>2, <2>1 DEF TypeInv, TypeOK, Locals
  <2>3. TypeOK'
    BY <1>2, <2>2 DEF ReadMin, Goto, clock, daily, TypeInv, TypeOK, Calls
  <2>4. OneDaily'
    BY <1>2 DEF ReadMin, Goto, daily, TypeInv, TypeOK, OneDaily, Daily
  <2>5. HourRead' /\ Writing'
    BY <1>2, <2>2 DEF ReadMin, Goto, clock, TypeInv, TypeOK, HourRead, Writing, Last
  <2> QED
    BY <2>3, <2>4, <2>5 DEF TypeInv
<1> QED
  BY <1>1, <1>2 DEF ReadMin

LEMMA ParseTypeInv == ASSUME TypeInv, NEW j \in Jobs, Parse(j) PROVE TypeInv'
<1>1. CASE Exit(j)
  BY <1>1, ExitTypeInv DEF Parse, Daily, TypeInv, TypeOK, clock, daily
<1>2. CASE cooked # Missing /\ job' = [job EXCEPT ![j].curve = cooked] /\ Goto(j, "remove")
  <2>1. cooked \in Curves
    BY <1>2 DEF TypeInv, TypeOK
  <2>2. /\ job' \in [Jobs -> Locals] /\ job'[j].fd = job[j].fd
        /\ \A k \in Jobs \ {j} : job'[k] = job[k]
    BY <1>2, <2>1 DEF TypeInv, TypeOK, Locals
  <2>3. TypeOK'
    BY <1>2, <2>2 DEF Parse, Goto, clock, daily, TypeInv, TypeOK, Calls
  <2>4. OneDaily'
    BY <1>2 DEF Parse, Goto, daily, TypeInv, TypeOK, OneDaily, Daily
  <2>5. HourRead' /\ Writing'
    BY <1>2, <2>2 DEF Parse, Goto, clock, TypeInv, TypeOK, HourRead, Writing, Last
  <2> QED
    BY <2>3, <2>4, <2>5 DEF TypeInv
<1> QED
  BY <1>1, <1>2 DEF Parse

LEMMA RemoveTypeInv == ASSUME TypeInv, NEW j \in Jobs, Remove(j) PROVE TypeInv'
<1> USE DEF Remove, Goto, clock, daily
<1>1. file' \in [Inodes -> Seq(Rows)]
  BY KeptType DEF TypeInv, TypeOK
<1>2. TypeOK'
  BY <1>1 DEF TypeInv, TypeOK, Calls
<1>3. OneDaily'
  BY DEF TypeInv, TypeOK, OneDaily, Daily
<1>4. HourRead' /\ Writing'
  BY DEF TypeInv, TypeOK, HourRead, Writing, Last
<1> QED
  BY <1>2, <1>3, <1>4 DEF TypeInv

LEMMA OpenTypeInv == ASSUME TypeInv, NEW j \in Jobs, Open(j) PROVE TypeInv'
<1>1. CASE Exit(j) /\ harm' = TRUE /\ UNCHANGED <<now, file>>
  BY <1>1, ExitTypeInv DEF Open, Daily, TypeInv, TypeOK, clock, daily
<1>2. ASSUME NEW i \in Inodes, job' = [job EXCEPT ![j].fd = i, ![j].next = 0],
             now' = i, Goto(j, "write"), UNCHANGED <<file, harm>>
      PROVE  TypeInv'
  <2> USE DEF Open, Goto, clock, daily
  <2>1. /\ job' \in [Jobs -> Locals] /\ job'[j].fd = i /\ job'[j].next = 0
        /\ \A k \in Jobs \ {j} : job'[k] = job[k]
    <3>1. job \in [Jobs -> Locals] /\ 0 \in 0 .. DayRows
      BY DayHasMinutes DEF TypeInv, TypeOK
    <3>2. job' = [job EXCEPT ![j] = [job[j] EXCEPT !.fd = i, !.next = 0]]
      BY <1>2, <3>1
    <3>3. [job[j] EXCEPT !.fd = i, !.next = 0] \in Locals
      BY <3>1 DEF Locals
    <3>4. job'[j] = [job[j] EXCEPT !.fd = i, !.next = 0]
      BY <3>1, <3>2
    <3>5. job'[j].fd = i /\ job'[j].next = 0
      BY <3>1, <3>4 DEF Locals
    <3> QED
      BY <3>1, <3>2, <3>3, <3>5
  <2>2. TypeOK'
    BY <1>2, <2>1 DEF TypeInv, TypeOK, Calls
  <2>3. OneDaily'
    BY <1>2 DEF TypeInv, TypeOK, OneDaily, Daily
  <2>4. HourRead'
    BY <1>2, <2>1 DEF TypeInv, TypeOK, HourRead
  <2>5. Writing'
    <3>1. job'[j].minutes \in Nat /\ job'[j].curve.len \in Nat
      BY <2>1, DayHasMinutes DEF Locals, Curves
    <3>2. pc'[j] = "write" /\ \A k \in Jobs \ {j} : pc'[k] = pc[k]
      BY <1>2 DEF TypeInv, TypeOK
    <3>3. 0 <= job'[j].minutes + 1 /\ 0 <= job'[j].curve.len
      BY <3>1
    <3> QED
      BY <2>1, <3>2, <3>3 DEF TypeInv, Writing, Last
  <2> QED
    BY <2>2, <2>3, <2>4, <2>5 DEF TypeInv
<1>3. CASE /\ now # Missing /\ job' = [job EXCEPT ![j].fd = now, ![j].next = 0]
           /\ Goto(j, "write") /\ UNCHANGED <<now, file, harm>>
  BY <1>2, <1>3 DEF TypeInv, TypeOK
<1> QED
  BY <1>1, <1>2, <1>3 DEF Open

\* The numbers of a job that writes.
LEMMA WritingNumbers ==
    ASSUME TypeInv, NEW j \in Jobs, pc[j] = "write"
    PROVE  /\ job[j] \in Locals /\ job[j].fd \in Inodes
           /\ job[j].minutes \in Nat /\ job[j].next \in Nat
           /\ job[j].curve \in Curves
           /\ job[j].curve.len \in Nat /\ job[j].curve.len <= DayRows
           /\ job[j].curve.day \in Nat
           /\ job[j].next <= job[j].minutes + 1 /\ job[j].next <= job[j].curve.len
<1>1. job[j] \in Locals
  BY DEF TypeInv, TypeOK
<1> QED
  BY <1>1, DayHasMinutes DEF TypeInv, Writing, Last, Locals, Curves

LEMMA FlushTypeInv == ASSUME TypeInv, NEW j \in Jobs, Flush(j) PROVE TypeInv'
<1> DEFINE to == job[j].next + BufferRows - 1
<1>1. pc[j] = "write" /\ job' = [job EXCEPT ![j].next = to + 1]
  BY DEF Flush
<1>2. /\ to \in Int /\ job[j].next <= to + 1 /\ to + 1 \in 0 .. DayRows
      /\ to <= job[j].minutes /\ to + 1 <= job[j].curve.len
  BY <1>1, WritingNumbers, BufferAssumption, DayHasMinutes DEF Flush, Last
<1>3. file' \in [Inodes -> Seq(Rows)]
  BY <1>1, <1>2, AppendedRows DEF Flush
<1> HIDE DEF to
<1>4. job' \in [Jobs -> Locals] /\ \A k \in Jobs \ {j} : job'[k] = job[k]
  BY <1>1, <1>2 DEF TypeInv, TypeOK, Locals
<1>5. /\ job'[j].next = to + 1 /\ job'[j].fd = job[j].fd
      /\ job'[j].minutes = job[j].minutes /\ job'[j].curve = job[j].curve
  BY <1>1, WritingNumbers DEF TypeInv, TypeOK, Locals
<1>6. TypeOK'
  BY <1>3, <1>4 DEF Flush, clock, daily, TypeInv, TypeOK
<1>7. OneDaily'
  BY DEF Flush, daily, TypeInv, TypeOK, OneDaily, Daily
<1>8. HourRead'
  BY <1>1, <1>4 DEF Flush, clock, TypeInv, TypeOK, HourRead
<1>9. Writing'
  <2>1. pc' = pc /\ to + 1 <= job[j].minutes + 1
    BY <1>2, <1>1, WritingNumbers DEF Flush
  <2> QED
    BY <1>1, <1>2, <1>4, <1>5, <2>1 DEF TypeInv, Writing, Last
<1> QED
  BY <1>6, <1>7, <1>8, <1>9 DEF TypeInv

LEMMA CloseTypeInv == ASSUME TypeInv, NEW j \in Jobs, Close(j) PROVE TypeInv'
<1>1. pc[j] = "write" /\ Last(j) \in Int /\ job[j].next <= Last(j) + 1
  BY WritingNumbers DEF Close, Last
<1>2. Appended(j, Last(j)) \in [Inodes -> Seq(Rows)]
  BY <1>1, AppendedRows
<1>3. file' \in [Inodes -> Seq(Rows)]
  BY <1>2, KeptType DEF Close
<1> QED
  BY <1>1, <1>3, ExitTypeInv DEF Close, Daily, TypeInv, TypeOK, clock, daily

\* What RunOff may leave of the file.
LEMMA RunOffRows ==
    ASSUME TypeInv, NEW j \in Jobs, pc[j] = "write"
    PROVE  [Appended(j, job[j].curve.len - 1) EXCEPT ![job[j].fd] = Append(@, Junk)]
             \in [Inodes -> Seq(Rows)]
<1> DEFINE A == Appended(j, job[j].curve.len - 1)
<1>1. job[j].curve.len - 1 \in Int /\ job[j].next <= (job[j].curve.len - 1) + 1
      /\ job[j].fd \in Inodes
  BY WritingNumbers
<1>2. A \in [Inodes -> Seq(Rows)]
  BY <1>1, AppendedRows
<1>3. Junk \in Rows
  BY DEF Rows
<1> HIDE DEF A
<1>4. Append(A[job[j].fd], Junk) \in Seq(Rows)
  BY <1>1, <1>2, <1>3, AppendProperties
<1> QED
  BY <1>1, <1>2, <1>4 DEF A

LEMMA RunOffTypeInv == ASSUME TypeInv, NEW j \in Jobs, RunOff(j) PROVE TypeInv'
<1>1. pc[j] = "write" /\ file \in [Inodes -> Seq(Rows)]
  BY DEF RunOff, TypeInv, TypeOK
<1> DEFINE A == [Appended(j, job[j].curve.len - 1) EXCEPT ![job[j].fd] = Append(@, Junk)]
<1>2. file' = Kept(file) \/ file' = Kept(A)
  BY DEF RunOff
<1>3. A \in [Inodes -> Seq(Rows)]
  BY <1>1, RunOffRows
<1> HIDE DEF A
<1>4. file' \in [Inodes -> Seq(Rows)]
  BY <1>1, <1>2, <1>3, KeptType
<1> QED
  BY <1>1, <1>4, ExitTypeInv DEF RunOff, Daily, TypeInv, TypeOK, clock, daily

LEMMA ReaderTypeInv ==
    ASSUME TypeInv, NEW r \in Readers, OpenToRead(r) \/ PriceNow(r)
    PROVE  TypeInv'
<1> USE DEF OpenToRead, PriceNow, clock, daily
<1>1. file' \in [Inodes -> Seq(Rows)]
  BY KeptType DEF TypeInv, TypeOK
<1>2. reading' \in [Readers -> Inodes \union {Missing}]
  BY DEF TypeInv, TypeOK
<1>3. TypeOK'
  BY <1>1, <1>2 DEF TypeInv, TypeOK
<1>4. OneDaily' /\ HourRead' /\ Writing'
  BY DEF TypeInv, OneDaily, Daily, HourRead, Writing, Last
<1> QED
  BY <1>3, <1>4 DEF TypeInv

LEMMA NextTypeInv == ASSUME Straddle = FALSE, TypeInv, [Next]_vars PROVE TypeInv'
<1>1. CASE Minutely
  BY <1>1, MinutelyTypeInv
<1>2. CASE Midnight
  BY <1>2, MidnightTypeInv
<1>3. ASSUME NEW j \in Jobs, Step(j) PROVE TypeInv'
  BY <1>3, GenerateTypeInv, RemoveCookedTypeInv, OpenCookedTypeInv, WriteCookedTypeInv,
     ReadHourTypeInv, ReadMinTypeInv, ParseTypeInv, RemoveTypeInv, OpenTypeInv,
     FlushTypeInv, CloseTypeInv, RunOffTypeInv DEF Step
<1>4. ASSUME NEW r \in Readers, OpenToRead(r) \/ PriceNow(r) PROVE TypeInv'
  BY <1>4, ReaderTypeInv
<1>5. CASE UNCHANGED vars
  BY <1>5 DEF vars, TypeInv, TypeOK, OneDaily, Daily, HourRead, Writing, Last
<1> QED
  BY <1>1, <1>2, <1>3, <1>4, <1>5 DEF Next, Waiting

\* PriceFeed!TypeOK for any number of jobs and any length of the day: above all,
\* the minute a job computes is one of the day even when the hour has turned
\* between the two calls of date in price_gen_minutely.sh.
THEOREM PriceFeedTypeSafe == Straddle = FALSE => (Spec => []TypeOK)
<1> SUFFICES ASSUME Straddle = FALSE PROVE Spec => []TypeOK
  OBVIOUS
<1>1. Init => TypeInv
  BY InitTypeInv
<1>2. TypeInv /\ [Next]_vars => TypeInv'
  BY NextTypeInv
<1>3. TypeInv => TypeOK
  BY DEF TypeInv
<1> QED
  BY <1>1, <1>2, <1>3, PTL DEF Spec

-----------------------------------------------------------------------------
(* What is in the files. *)

\* Every row but that of minute 0 has the row of the minute before it above.
Linked(rows) ==
    \A k \in 1 .. Len(rows) :
        rows[k] # Junk /\ rows[k].minute > 0 =>
          \E l \in 1 .. k - 1 : rows[l] = Row(rows[k].day, rows[k].minute - 1)

HasRow(rows, d, m) == \E l \in 1 .. Len(rows) : rows[l] = Row(d, m)

RowsPast == \A i \in Inodes : \A k \in 1 .. Len(file[i]) : Past(file[i][k])

\* Nothing a job holds, and nothing in any file, is of the future.
NothingAhead ==
    /\ raw <= day
    /\ cooked # Missing => cooked.day <= day
    /\ \A j \in Jobs : pc[j] \in {"parse", "remove", "open", "write"} =>
                         job[j].minutes <= minute
    /\ \A j \in Jobs : pc[j] \in {"remove", "open", "write"} =>
                         job[j].curve.day <= day
    /\ RowsPast

\* The files are linked, and a job that has written continues from a row that
\* is there: nobody takes a file from under it.
AllLinked ==
    /\ \A i \in Inodes : Linked(file[i])
    /\ \A j \in Jobs : pc[j] = "write" /\ job[j].next > 0 =>
                         HasRow(file[job[j].fd], job[j].curve.day, job[j].next - 1)

FilesInv == TypeInv /\ NothingAhead /\ AllLinked /\ Served

\* The rows of a file after some were appended to it.
LEMMA ConcatRows ==
    ASSUME NEW rows \in Seq(Rows), NEW d \in Nat, NEW from \in Nat, NEW to \in Int,
           from <= to + 1
    PROVE  /\ Len(rows) \in Nat /\ rows \o Stretch(d, from, to) \in Seq(Rows)
           /\ Len(rows \o Stretch(d, from, to)) = Len(rows) + (to - from + 1)
           /\ \A k \in 1 .. Len(rows) : (rows \o Stretch(d, from, to))[k] = rows[k]
           /\ \A k \in Len(rows) + 1 .. Len(rows) + (to - from + 1) :
                (rows \o Stretch(d, from, to))[k] = Row(d, from + (k - Len(rows)) - 1)
<1> DEFINE s == Stretch(d, from, to)
<1>1. /\ s \in Seq(Rows) /\ Len(s) = to - from + 1
      /\ \A k \in 1 .. to - from + 1 : s[k] = Row(d, from + k - 1)
  BY StretchRows
<1> HIDE DEF s
<1>2. /\ rows \o s \in Seq(Rows) /\ Len(rows \o s) = Len(rows) + Len(s)
      /\ Len(rows) \in Nat
      /\ \A k \in 1 .. Len(rows) + Len(s) :
           (rows \o s)[k] = IF k <= Len(rows) THEN rows[k] ELSE s[k - Len(rows)]
  BY <1>1, ConcatProperties, LenProperties
<1>3. ASSUME NEW k \in Len(rows) + 1 .. Len(rows) + (to - from + 1)
      PROVE  (rows \o s)[k] = Row(d, from + (k - Len(rows)) - 1)
  <2>1. /\ k - Len(rows) \in 1 .. to - from + 1 /\ ~(k <= Len(rows))
        /\ k \in 1 .. Len(rows) + Len(s)
    BY <1>1, <1>2
  <2> QED
    BY <1>1, <1>2, <2>1
<1>4. \A k \in 1 .. Len(rows) : (rows \o s)[k] = rows[k]
  BY <1>1, <1>2
<1> QED
  BY <1>1, <1>2, <1>3, <1>4 DEF s

\* Rows that continue linked rows leave them linked, and end at the last.
LEMMA ConcatLinked ==
    ASSUME NEW rows \in Seq(Rows), NEW d \in Nat, NEW from \in Nat, NEW to \in Int,
           from <= to + 1, Linked(rows),
           from > 0 => HasRow(rows, d, from - 1)
    PROVE  LET more == rows \o Stretch(d, from, to)
           IN  /\ Linked(more)
               /\ to >= 0 => HasRow(more, d, to)
               /\ \A e, m : HasRow(rows, e, m) => HasRow(more, e, m)
<1> DEFINE more == rows \o Stretch(d, from, to)
           n == Len(rows)
           p == to - from + 1
<1>1. /\ n \in Nat /\ p \in Nat /\ Len(more) = n + p
      /\ \A k \in 1 .. n : more[k] = rows[k]
      /\ \A k \in n + 1 .. n + p : more[k] = Row(d, from + (k - n) - 1)
  <2>1. p \in Nat
    OBVIOUS
  <2>2. /\ Len(rows) \in Nat
        /\ Len(rows \o Stretch(d, from, to)) = Len(rows) + (to - from + 1)
        /\ \A k \in 1 .. Len(rows) : (rows \o Stretch(d, from, to))[k] = rows[k]
        /\ \A k \in Len(rows) + 1 .. Len(rows) + (to - from + 1) :
             (rows \o Stretch(d, from, to))[k] = Row(d, from + (k - Len(rows)) - 1)
    BY ConcatRows, Zenon
  <2> QED
    BY <2>1, <2>2, Zenon
<1> HIDE DEF more, n
<1>2. ASSUME NEW e, NEW m, HasRow(rows, e, m) PROVE HasRow(more, e, m)
  BY <1>1, <1>2 DEF HasRow, n
<1>3. ASSUME to >= 0 PROVE HasRow(more, d, to)
  <2>1. CASE p = 0
    <3>1. from > 0 /\ from - 1 = to
      BY <1>3, <2>1
    <3> QED
      BY <3>1, <1>2
  <2>2. CASE p > 0
    <3>1. n + p \in n + 1 .. n + p /\ n + p \in 1 .. Len(more)
      BY <2>2, <1>1
    <3>2. more[n + p] = Row(d, from + ((n + p) - n) - 1) /\ from + ((n + p) - n) - 1 = to
      BY <3>1, <1>1
    <3> QED
      BY <3>1, <3>2 DEF HasRow
  <2> QED
    BY <1>1, <2>1, <2>2
<1>4. ASSUME NEW k \in 1 .. Len(more), more[k] # Junk, more[k].minute > 0
      PROVE  \E l \in 1 .. k - 1 : more[l] = Row(more[k].day, more[k].minute - 1)
  <2>1. CASE k <= n
    <3>1. k \in 1 .. n /\ more[k] = rows[k]
      BY <2>1, <1>1
    <3>2. PICK l \in 1 .. k - 1 : rows[l] = Row(rows[k].day, rows[k].minute - 1)
      BY <1>4, <3>1 DEF Linked, n
    <3>3. l \in 1 .. n
      BY <3>1, <1>1
    <3> QED
      BY <3>1, <3>2, <3>3, <1>1
  <2>2. CASE k > n
    <3> DEFINE m == from + (k - n) - 1
    <3>1. k \in n + 1 .. n + p /\ more[k] = Row(d, m) /\ m \in Nat
      BY <2>2, <1>1
    <3>2. more[k].day = d /\ more[k].minute = m
      BY <3>1 DEF Row
    <3> HIDE DEF m
    <3>3. CASE k = n + 1
      <4>1. m = from
        <5>1. n \in Nat
          BY <1>1
        <5> QED
          BY <3>3, <5>1 DEF m
      <4>2. PICK l \in 1 .. n : rows[l] = Row(d, from - 1)
        BY <1>4, <3>2, <4>1 DEF HasRow, n
      <4> QED
        BY <3>2, <3>3, <4>1, <4>2, <1>1
    <3>4. CASE k > n + 1
      <4>1. /\ k - 1 \in n + 1 .. n + p /\ k - 1 \in 1 .. k - 1
            /\ from + ((k - 1) - n) - 1 = m - 1
        BY <3>1, <3>4, <1>1 DEF m
      <4>2. more[k - 1] = Row(d, m - 1)
        BY <4>1, <1>1
      <4> QED
        BY <3>2, <4>1, <4>2
    <3> QED
      BY <3>1, <3>3, <3>4, <1>1
  <2> QED
    BY <1>1, <2>1, <2>2
<1> QED
  BY <1>2, <1>3, <1>4 DEF Linked, more

LEMMA Offset ==
    ASSUME NEW n \in Nat, NEW from \in Nat, NEW to \in Int,
           NEW k \in n + 1 .. n + (to - from + 1)
    PROVE  from + (k - n) - 1 \in Nat /\ from + (k - n) - 1 <= to
OBVIOUS

\* Rows up to the minute of now, and none of a day to come, leave a file without
\* a row of the future.
LEMMA ConcatPast ==
    ASSUME NEW rows \in Seq(Rows), NEW d \in Nat, NEW from \in Nat, NEW to \in Int,
           from <= to + 1, d <= day, to <= minute, day \in Nat, minute \in Nat,
           \A k \in 1 .. Len(rows) : Past(rows[k])
    PROVE  LET more == rows \o Stretch(d, from, to)
           IN  /\ \A k \in 1 .. Len(more) : Past(more[k])
               /\ rows # <<>> => more # <<>>
<1> DEFINE more == rows \o Stretch(d, from, to)
           n == Len(rows)
           p == to - from + 1
<1>1. /\ Len(rows) \in Nat
      /\ Len(rows \o Stretch(d, from, to)) = Len(rows) + (to - from + 1)
      /\ \A k \in 1 .. Len(rows) : (rows \o Stretch(d, from, to))[k] = rows[k]
      /\ \A k \in Len(rows) + 1 .. Len(rows) + (to - from + 1) :
           (rows \o Stretch(d, from, to))[k] = Row(d, from + (k - Len(rows)) - 1)
  BY ConcatRows, ZenonT(60)
<1>2. /\ n \in Nat /\ Len(more) = n + p
      /\ \A k \in 1 .. n : more[k] = rows[k]
      /\ \A k \in n + 1 .. n + p : more[k] = Row(d, from + (k - n) - 1)
  BY <1>1, Zenon
<1>3. p \in Nat
  OBVIOUS
<1> HIDE DEF more
<1>4. ASSUME NEW k \in 1 .. Len(more) PROVE Past(more[k])
  <2>1. CASE k \in 1 .. n
    BY <2>1, <1>2
  <2>2. CASE k \in n + 1 .. n + p
    <3> DEFINE m == from + (k - n) - 1
    <3>1. more[k] = Row(d, m)
      BY <2>2, <1>2
    <3>2. m \in Nat /\ m <= to
      BY <2>2, <1>2, Offset
    <3> HIDE DEF m
    <3> QED
      BY <3>1, <3>2 DEF Past, Row
  <2> HIDE DEF n, p
  <2> QED
    BY <2>1, <2>2, <1>2, <1>3
<1>5. ASSUME rows # <<>> PROVE more # <<>>
  <2>1. n > 0
    BY <1>5, EmptySeq, LenProperties
  <2> HIDE DEF n, p
  <2>2. Len(more) > 0
    BY <2>1, <1>2, <1>3
  <2> QED
    BY <2>2
<1> QED
  BY <1>4, <1>5 DEF more

\* Files that are as good as the ones there are, and have all of their rows.
Extends(files) ==
    \A i \in Inodes :
        /\ \A k \in 1 .. Len(files[i]) : Past(files[i][k])
        /\ Linked(files[i])
        /\ \A e, m : HasRow(file[i], e, m) => HasRow(files[i], e, m)
        /\ file[i] # <<>> => files[i] # <<>>

LEMMA SameExtends == NothingAhead /\ AllLinked => Extends(file)
BY DEF NothingAhead, RowsPast, AllLinked, Extends

LEMMA AppendedExtends ==
    ASSUME TypeInv, NothingAhead, AllLinked, NEW j \in Jobs, pc[j] = "write",
           NEW to \in Int, job[j].next <= to + 1, to <= job[j].minutes
    PROVE  /\ Appended(j, to) \in [Inodes -> Seq(Rows)]
           /\ Extends(Appended(j, to))
           /\ to >= 0 => HasRow(Appended(j, to)[job[j].fd], job[j].curve.day, to)
<1> DEFINE d == job[j].curve.day
           from == job[j].next
           fd == job[j].fd
           A == Appended(j, to)
<1>1. d \in Nat /\ from \in Nat /\ fd \in Inodes /\ job[j].minutes \in Nat
  BY WritingNumbers
<1>2. /\ A \in [Inodes -> Seq(Rows)] /\ A[fd] = file[fd] \o Stretch(d, from, to)
      /\ \A i \in Inodes \ {fd} : A[i] = file[i]
  BY AppendedRows
<1>3. file \in [Inodes -> Seq(Rows)] /\ file[fd] \in Seq(Rows)
  BY <1>1 DEF TypeInv, TypeOK
<1>4. d <= day /\ job[j].minutes <= minute /\ day \in Nat /\ minute \in Nat
  BY DayHasMinutes DEF NothingAhead, TypeInv, TypeOK
<1>5. Linked(file[fd]) /\ (from > 0 => HasRow(file[fd], d, from - 1))
  BY <1>1 DEF AllLinked
<1> HIDE DEF d, from, fd, A
<1>6. /\ Linked(A[fd]) /\ (to >= 0 => HasRow(A[fd], d, to))
      /\ \A e, m : HasRow(file[fd], e, m) => HasRow(A[fd], e, m)
  <2>1. from <= to + 1
    BY DEF from
  <2> QED
    BY <1>1, <1>2, <1>3, <1>5, <2>1, ConcatLinked
<1>7. /\ \A k \in 1 .. Len(A[fd]) : Past(A[fd][k])
      /\ file[fd] # <<>> => A[fd] # <<>>
  <2>1. from <= to + 1 /\ to <= minute
    BY <1>1, <1>4 DEF from
  <2>2. \A k \in 1 .. Len(file[fd]) : Past(file[fd][k])
    BY <1>1 DEF NothingAhead, RowsPast
  <2> QED
    BY <1>1, <1>2, <1>3, <1>4, <2>1, <2>2, ConcatPast
<1>8. Extends(A)
  <2>1. ASSUME NEW i \in Inodes \ {fd}
        PROVE  /\ \A k \in 1 .. Len(A[i]) : Past(A[i][k])
               /\ Linked(A[i])
               /\ \A e, m : HasRow(file[i], e, m) => HasRow(A[i], e, m)
               /\ file[i] # <<>> => A[i] # <<>>
    BY <1>2 DEF NothingAhead, RowsPast, AllLinked
  <2> QED
    BY <2>1, <1>6, <1>7 DEF Extends
<1> QED
  BY <1>2, <1>6, <1>8 DEF A, fd, d

\* What a step leaves of such files when inodes are reclaimed.
LEMMA FilesAfter ==
    ASSUME NEW files \in [Inodes -> Seq(Rows)], Extends(files), UNCHANGED clock,
           file' = files \/ file' = Kept(files)
    PROVE  /\ RowsPast'
           /\ \A i \in Inodes : Linked(file'[i])
           /\ \A i \in Used' : /\ file'[i] = files[i]
                               /\ \A e, m : HasRow(file[i], e, m) => HasRow(file'[i], e, m)
                               /\ file[i] # <<>> => file'[i] # <<>>
<1>1. Used' \subseteq Inodes
  BY DEF Used
<1>2. \A i \in Used' : file'[i] = files[i]
  BY <1>1, KeptType
<1>3. \A i \in Inodes : file'[i] = files[i] \/ file'[i] = <<>>
  BY KeptType
<1>4. RowsPast'
  <2> SUFFICES ASSUME NEW i \in Inodes, NEW k \in 1 .. Len(file'[i])
               PROVE  Past(file[i][k])'
    BY DEF RowsPast
  <2>1. file'[i] = files[i]
    <3>1. CASE file'[i] = <<>>
      BY <3>1
    <3> QED
      BY <3>1, <1>3
  <2>2. Past(files[i][k])
    BY <2>1 DEF Extends
  <2> QED
    BY <2>1, <2>2 DEF Past, clock
<1>5. ASSUME NEW i \in Inodes PROVE Linked(file'[i])
  <2>1. CASE file'[i] = files[i]
    BY <2>1 DEF Extends
  <2>2. CASE file'[i] = <<>>
    BY <2>2 DEF Linked
  <2> QED
    BY <2>1, <2>2, <1>3
<1> QED
  BY <1>1, <1>2, <1>4, <1>5 DEF Extends

LEMMA RunOffExtends ==
    ASSUME TypeInv, NothingAhead, AllLinked, NEW j \in Jobs, RunOff(j)
    PROVE  Extends([Appended(j, job[j].curve.len - 1) EXCEPT ![job[j].fd] = Append(@, Junk)])
<1> DEFINE A == Appended(j, job[j].curve.len - 1)
           B == [A EXCEPT ![job[j].fd] = Append(@, Junk)]
           fd == job[j].fd
<1>1. /\ pc[j] = "write" /\ fd \in Inodes
      /\ job[j].curve.len - 1 \in Int /\ job[j].next <= (job[j].curve.len - 1) + 1
      /\ job[j].curve.len - 1 <= job[j].minutes
  BY WritingNumbers DEF RunOff, Short, Last
<1>2. A \in [Inodes -> Seq(Rows)] /\ Extends(A)
  BY <1>1, AppendedExtends
<1> HIDE DEF A, fd
<1>3. /\ B[fd] = Append(A[fd], Junk) /\ A[fd] \in Seq(Rows)
      /\ \A i \in Inodes \ {fd} : B[i] = A[i]
  BY <1>1, <1>2 DEF fd
<1> HIDE DEF B
<1>4. /\ Len(A[fd]) \in Nat /\ Len(B[fd]) = Len(A[fd]) + 1 /\ B[fd] # <<>>
      /\ \A k \in 1 .. Len(A[fd]) : B[fd][k] = A[fd][k]
      /\ B[fd][Len(A[fd]) + 1] = Junk
  <2>1. Junk \in Rows
    BY DEF Rows
  <2> QED
    BY <1>3, <2>1, AppendProperties, LenProperties
<1>5. /\ \A k \in 1 .. Len(A[fd]) : Past(A[fd][k])
      /\ Linked(A[fd])
      /\ \A e, m : HasRow(file[fd], e, m) => HasRow(A[fd], e, m)
  BY <1>1, <1>2 DEF Extends
<1>6. \A k \in 1 .. Len(B[fd]) : B[fd][k] = Junk \/ (k \in 1 .. Len(A[fd]) /\ B[fd][k] = A[fd][k])
  BY <1>4
<1>7. \A k \in 1 .. Len(B[fd]) : Past(B[fd][k])
  BY <1>5, <1>6 DEF Past
<1>8. Linked(B[fd])
  <2> SUFFICES ASSUME NEW k \in 1 .. Len(B[fd]), B[fd][k] # Junk, B[fd][k].minute > 0
               PROVE  \E l \in 1 .. k - 1 :
                        B[fd][l] = Row(B[fd][k].day, B[fd][k].minute - 1)
    BY DEF Linked
  <2>1. k \in 1 .. Len(A[fd]) /\ B[fd][k] = A[fd][k]
    BY <1>6
  <2>2. PICK l \in 1 .. k - 1 : A[fd][l] = Row(A[fd][k].day, A[fd][k].minute - 1)
    BY <1>5, <2>1 DEF Linked
  <2>3. l \in 1 .. Len(A[fd])
    BY <1>4, <2>1
  <2> QED
    BY <1>4, <2>1, <2>2, <2>3
<1>9. ASSUME NEW e, NEW m, HasRow(file[fd], e, m) PROVE HasRow(B[fd], e, m)
  <2>1. PICK l \in 1 .. Len(A[fd]) : A[fd][l] = Row(e, m)
    BY <1>5, <1>9 DEF HasRow
  <2>2. l \in 1 .. Len(B[fd]) /\ B[fd][l] = Row(e, m)
    BY <1>4, <2>1
  <2> QED
    BY <2>2 DEF HasRow
<1>10. \A i \in Inodes \ {fd} :
         /\ \A k \in 1 .. Len(B[i]) : Past(B[i][k])
         /\ Linked(B[i])
         /\ \A e, m : HasRow(file[i], e, m) => HasRow(B[i], e, m)
         /\ file[i] # <<>> => B[i] # <<>>
  BY <1>2, <1>3 DEF Extends
<1> QED
  BY <1>4, <1>7, <1>8, <1>9, <1>10 DEF Extends, B, A, fd

\* What the steps of a job make of the files.
LEMMA StepFiles ==
    ASSUME TypeInv, NothingAhead, AllLinked, NEW j \in Jobs, Step(j)
    PROVE  \E files \in [Inodes -> Seq(Rows)] :
             /\ Extends(files)
             /\ file' = files \/ file' = Kept(files)
<1>1. file \in [Inodes -> Seq(Rows)] /\ Extends(file)
  BY SameExtends DEF TypeInv, TypeOK
<1>2. CASE file' = file \/ file' = Kept(file)
  BY <1>1, <1>2
<1>3. CASE Flush(j)
  <2> DEFINE to == job[j].next + BufferRows - 1
  <2>1. /\ pc[j] = "write" /\ to \in Int /\ job[j].next <= to + 1 /\ to <= job[j].minutes
    BY <1>3, WritingNumbers, BufferAssumption DEF Flush, Last
  <2>2. file' = Appended(j, to)
    BY <1>3 DEF Flush
  <2> HIDE DEF to
  <2> QED
    BY <2>1, <2>2, AppendedExtends
<1>4. CASE Close(j)
  <2>1. /\ pc[j] = "write" /\ Last(j) \in Int /\ job[j].next <= Last(j) + 1
        /\ Last(j) <= job[j].minutes
    BY <1>4, WritingNumbers DEF Close, Last
  <2>2. file' = Kept(Appended(j, Last(j)))
    BY <1>4 DEF Close
  <2> QED
    BY <2>1, <2>2, AppendedExtends
<1>5. CASE RunOff(j)
  <2> DEFINE A == [Appended(j, job[j].curve.len - 1) EXCEPT ![job[j].fd] = Append(@, Junk)]
  <2>1. file' = Kept(file) \/ file' = Kept(A)
    BY <1>5 DEF RunOff
  <2>2. A \in [Inodes -> Seq(Rows)] /\ Extends(A)
    BY <1>5, RunOffRows, RunOffExtends DEF RunOff
  <2> HIDE DEF A
  <2> QED
    BY <1>1, <2>1, <2>2
<1> QED
  BY <1>2, <1>3, <1>4, <1>5
     DEF Step, Generate, RemoveCooked, OpenCooked, WriteCooked, ReadHour, ReadMin, Parse,
         Remove, Open

LEMMA StepClock == \A j \in Jobs : Step(j) => UNCHANGED <<day, minute>>
BY DEF Step, Generate, RemoveCooked, OpenCooked, WriteCooked, ReadHour, ReadMin, Parse,
       Remove, Open, Flush, Close, RunOff, clock

\* A step of a job leaves the other jobs alone.
LEMMA StepOthers ==
    ASSUME TypeInv, NEW j \in Jobs, Step(j), NEW k \in Jobs, k # j
    PROVE  pc'[k] = pc[k] /\ job'[k] = job[k]
BY DEF Step, Generate, RemoveCooked, OpenCooked, WriteCooked, ReadHour, ReadMin, Parse,
       Remove, Open, Flush, Close, RunOff, Goto, Exit, TypeInv, TypeOK

LEMMA OpenedLocals ==
    ASSUME NEW jobs \in [Jobs -> Locals], NEW j \in Jobs, NEW i \in Inodes
    PROVE  LET opened == [jobs EXCEPT ![j].fd = i, ![j].next = 0]
           IN  /\ opened[j].fd = i /\ opened[j].next = 0
               /\ opened[j].minutes = jobs[j].minutes /\ opened[j].curve = jobs[j].curve
<1>1. [jobs EXCEPT ![j].fd = i, ![j].next = 0]
        = [jobs EXCEPT ![j] = [jobs[j] EXCEPT !.fd = i, !.next = 0]]
  OBVIOUS
<1>2. jobs[j] \in Locals
  OBVIOUS
<1>3. [jobs EXCEPT ![j].fd = i, ![j].next = 0][j] = [jobs[j] EXCEPT !.fd = i, !.next = 0]
  BY <1>1
<1> QED
  BY <1>2, <1>3 DEF Locals

\* A job that opens now.csv has the file at the path, or dies.
LEMMA OpenOutcomes ==
    ASSUME TypeInv, NEW j \in Jobs, Open(j)
    PROVE  \/ pc'[j] = "idle" /\ harm' = TRUE /\ UNCHANGED <<now, file>>
           \/ /\ pc'[j] = "write" /\ now' \in Inodes /\ job'[j].fd = now'
              /\ job'[j].next = 0 /\ job'[j].minutes = job[j].minutes
              /\ job'[j].curve = job[j].curve /\ UNCHANGED <<file, harm>>
<1>1. job \in [Jobs -> Locals] /\ pc \in [Jobs -> Calls \union {"idle"}]
      /\ now \in Inodes \union {Missing}
  BY DEF TypeInv, TypeOK
<1>2. CASE Exit(j) /\ harm' = TRUE /\ UNCHANGED <<now, file>>
  BY <1>1, <1>2 DEF Exit, Goto
<1>3. ASSUME NEW i \in Inodes, job' = [job EXCEPT ![j].fd = i, ![j].next = 0],
             now' = i, Goto(j, "write"), UNCHANGED <<file, harm>>
      PROVE  /\ pc'[j] = "write" /\ now' \in Inodes /\ job'[j].fd = now'
             /\ job'[j].next = 0 /\ job'[j].minutes = job[j].minutes
             /\ job'[j].curve = job[j].curve /\ UNCHANGED <<file, harm>>
  BY <1>1, <1>3, OpenedLocals DEF Goto
<1>4. CASE /\ now # Missing /\ job' = [job EXCEPT ![j].fd = now, ![j].next = 0]
           /\ Goto(j, "write") /\ UNCHANGED <<now, file, harm>>
  <2>1. now \in Inodes /\ now' = now
    BY <1>1, <1>4
  <2> QED
    BY <1>3, <1>4, <2>1
<1> QED
  BY <1>2, <1>3, <1>4 DEF Open

\* The minute a job computes has come, and stays one that has.
LEMMA StepMinutes ==
    ASSUME TypeInv, NothingAhead, NEW j \in Jobs, Step(j),
           pc'[j] \in {"parse", "remove", "open", "write"}
    PROVE  job'[j].minutes <= minute
<1> DEFINE Holds == pc[j] \in {"parse", "remove", "open", "write"}
                    /\ job'[j].minutes = job[j].minutes
<1>1. job[j] \in Locals /\ job \in [Jobs -> Locals] /\ pc \in [Jobs -> Calls \union {"idle"}]
  BY DEF TypeInv, TypeOK
<1>2. CASE ReadMin(j)
  <2>1. /\ pc[j] = "min"
        /\ job'[j].minutes = MinutesPerHour * job[j].hour + (minute % MinutesPerHour)
    BY <1>1, <1>2 DEF ReadMin, Exit, Goto, Locals
  <2>2. job[j].hour \in Nat /\ job[j].hour <= minute \div MinutesPerHour /\ minute \in Minutes
    BY <1>1, <2>1, ClockAssumption DEF TypeInv, TypeOK, HourRead, Locals
  <2> QED
    BY <2>1, <2>2, ComputedMinute
<1>3. CASE Parse(j)
  BY <1>1, <1>3 DEF Parse, Exit, Goto, NothingAhead, Locals
<1>4. CASE Remove(j)
  BY <1>1, <1>4 DEF Remove, Goto, NothingAhead
<1>5. CASE Open(j)
  BY <1>5, OpenOutcomes DEF Open, NothingAhead
<1>6. CASE Flush(j)
  BY <1>1, <1>6 DEF Flush, NothingAhead, Locals
<1>7. CASE Close(j) \/ RunOff(j)
  BY <1>1, <1>7 DEF Close, RunOff, Exit, Goto
<1>8. CASE Generate(j) \/ RemoveCooked(j) \/ OpenCooked(j) \/ WriteCooked(j) \/ ReadHour(j)
  BY <1>1, <1>8 DEF Generate, RemoveCooked, OpenCooked, WriteCooked, ReadHour, Goto
<1> QED
  BY <1>2, <1>3, <1>4, <1>5, <1>6, <1>7, <1>8 DEF Step

\* The curve a job reads is of a day that has come.
LEMMA StepCurve ==
    ASSUME TypeInv, NothingAhead, NEW j \in Jobs, Step(j),
           pc'[j] \in {"remove", "open", "write"}
    PROVE  job'[j].curve.day <= day
<1>1. job[j] \in Locals /\ job \in [Jobs -> Locals] /\ pc \in [Jobs -> Calls \union {"idle"}]
  BY DEF TypeInv, TypeOK
<1>2. CASE Parse(j)
  BY <1>1, <1>2 DEF Parse, Exit, Goto, NothingAhead, Locals
<1>3. CASE Remove(j)
  BY <1>1, <1>3 DEF Remove, Goto, NothingAhead
<1>4. CASE Open(j)
  BY <1>4, OpenOutcomes DEF Open, NothingAhead
<1>5. CASE Flush(j)
  BY <1>1, <1>5 DEF Flush, NothingAhead, Locals
<1>6. CASE Close(j) \/ RunOff(j) \/ ReadMin(j)
  BY <1>1, <1>6 DEF Close, RunOff, ReadMin, Exit, Goto
<1>7. CASE Generate(j) \/ RemoveCooked(j) \/ OpenCooked(j) \/ WriteCooked(j) \/ ReadHour(j)
  BY <1>1, <1>7 DEF Generate, RemoveCooked, OpenCooked, WriteCooked, ReadHour, Goto
<1> QED
  BY <1>2, <1>3, <1>4, <1>5, <1>6, <1>7 DEF Step

\* raw.csv and cooked.csv are never of a day to come.
LEMMA StepDaily ==
    ASSUME TypeInv, NothingAhead, NEW j \in Jobs, Step(j)
    PROVE  raw' <= day /\ (cooked' # Missing => cooked'.day <= day)
<1>1. /\ raw <= day /\ (cooked # Missing => cooked.day <= day) /\ day \in Nat
      /\ pc[j] = "writeCooked" => cooked \in Curves
  BY DEF NothingAhead, TypeInv, TypeOK, OneDaily
<1>2. CASE Generate(j)
  BY <1>1, <1>2 DEF Generate
<1>3. CASE RemoveCooked(j) \/ OpenCooked(j)
  BY <1>1, <1>3 DEF RemoveCooked, OpenCooked
<1>4. CASE WriteCooked(j)
  <2>1. cooked \in Curves /\ cooked # Missing /\ raw' = raw
    BY <1>1, <1>4, FilesAssumption, DayHasMinutes DEF WriteCooked, Curves
  <2>2. cooked'.day = cooked.day
    BY <1>4, <2>1 DEF WriteCooked, Curves
  <2> QED
    BY <1>1, <2>1, <2>2
<1>5. CASE UNCHANGED daily
  BY <1>1, <1>5 DEF daily
<1> QED
  BY <1>2, <1>3, <1>4, <1>5
     DEF Step, ReadHour, ReadMin, Parse, Remove, Open, Flush, Close, RunOff

LEMMA StepAhead ==
    ASSUME TypeInv, NothingAhead, AllLinked, NEW j \in Jobs, Step(j)
    PROVE  NothingAhead'
<1>1. UNCHANGED <<day, minute>>
  BY StepClock
<1>2. RowsPast'
  BY <1>1, StepFiles, FilesAfter DEF clock
<1>3. ASSUME NEW k \in Jobs, pc'[k] \in {"parse", "remove", "open", "write"}
      PROVE  job'[k].minutes <= minute
  BY <1>3, StepOthers, StepMinutes DEF NothingAhead
<1>4. ASSUME NEW k \in Jobs, pc'[k] \in {"remove", "open", "write"}
      PROVE  job'[k].curve.day <= day
  BY <1>4, StepOthers, StepCurve DEF NothingAhead
<1> QED
  BY <1>1, <1>2, <1>3, <1>4, StepDaily DEF NothingAhead

\* A job that goes on writing has the rows it has written so far behind it.
LEMMA StepLinked ==
    ASSUME TypeInv, TypeInv', NothingAhead, AllLinked, NEW j \in Jobs, Step(j)
    PROVE  AllLinked'
<1>1. PICK files \in [Inodes -> Seq(Rows)] :
        Extends(files) /\ (file' = files \/ file' = Kept(files))
  BY StepFiles
<1>2. /\ \A i \in Inodes : Linked(file'[i])
      /\ \A i \in Used' : \A e, m : HasRow(file[i], e, m) => HasRow(file'[i], e, m)
  BY <1>1, StepClock, FilesAfter DEF clock
<1>3. ASSUME NEW k \in Jobs, k # j, pc'[k] = "write", job'[k].next > 0
      PROVE  HasRow(file'[job'[k].fd], job'[k].curve.day, job'[k].next - 1)
  <2>1. pc[k] = "write" /\ job'[k] = job[k]
    BY <1>3, StepOthers
  <2>2. job'[k].fd \in Used'
    BY <1>3 DEF Used, TypeInv, Writing
  <2>3. HasRow(file[job[k].fd], job[k].curve.day, job[k].next - 1)
    BY <1>3, <2>1 DEF AllLinked
  <2>4. HasRow(file'[job[k].fd], job[k].curve.day, job[k].next - 1)
    BY <1>2, <2>1, <2>2, <2>3
  <2> QED
    BY <2>1, <2>4
<1>4. ASSUME pc'[j] = "write", job'[j].next > 0
      PROVE  HasRow(file'[job'[j].fd], job'[j].curve.day, job'[j].next - 1)
  <2>1. CASE Flush(j)
    <3> DEFINE to == job[j].next + BufferRows - 1
    <3>1. /\ pc[j] = "write" /\ to \in Int /\ job[j].next <= to + 1 /\ to <= job[j].minutes
          /\ to >= 0
      BY <2>1, WritingNumbers, BufferAssumption DEF Flush, Last
    <3>2. file' = Appended(j, to) /\ job' = [job EXCEPT ![j].next = to + 1]
      BY <2>1 DEF Flush
    <3> HIDE DEF to
    <3>3. /\ job'[j].next = to + 1 /\ job'[j].fd = job[j].fd
          /\ job'[j].curve = job[j].curve
      BY <3>1, <3>2, WritingNumbers DEF TypeInv, TypeOK, Locals
    <3>4. HasRow(file'[job[j].fd], job[j].curve.day, to)
      BY <3>1, <3>2, AppendedExtends
    <3>5. (to + 1) - 1 = to
      BY <3>1
    <3> QED
      BY <3>3, <3>4, <3>5
  <2>2. CASE Open(j)
    <3>1. job'[j].next = 0
      BY <1>4, <2>2, OpenOutcomes
    <3> QED
      BY <1>4, <3>1
  <2>3. CASE ~Flush(j) /\ ~Open(j)
    BY <1>4, <2>3 DEF Step, Generate, RemoveCooked, OpenCooked, WriteCooked, ReadHour, ReadMin,
       Parse, Remove, Close, RunOff, Goto, Exit, TypeInv, TypeOK
  <2> QED
    BY <2>1, <2>2, <2>3
<1> QED
  BY <1>2, <1>3, <1>4 DEF AllLinked

\* The file at the path is one of those in use.
LEMMA NowIsUsed == now' \in Inodes => now' \in Used'
BY DEF Used

\* While now and harm stay, a step that neither opens nor ends leaves price_now
\* what it has.
LEMMA QuietServed ==
    ASSUME TypeInv, TypeInv', Served, NEW j \in Jobs, UNCHANGED <<now, harm>>,
           \A k \in Jobs \ {j} : pc'[k] = pc[k] /\ job'[k] = job[k],
           pc[j] \notin {"open", "write"} \/ (pc'[j] = pc[j] /\ job'[j].fd = job[j].fd),
           now # Missing /\ file[now] # <<>> => file'[now] # <<>>
    PROVE  Served'
<1>1. CASE harm \/ (now # Missing /\ file[now] # <<>>)
  BY <1>1 DEF Served, Undefined
<1>2. ASSUME NEW k \in Jobs, \/ now = Missing /\ pc[k] = "open"
                             \/ now # Missing /\ pc[k] = "write" /\ job[k].fd = now
      PROVE  Served'
  BY <1>2 DEF Served
<1> QED
  BY <1>1, <1>2 DEF Served, Undefined

LEMMA StepServed ==
    ASSUME TypeInv, TypeInv', NothingAhead, AllLinked, Served, NEW j \in Jobs, Step(j)
    PROVE  Served'
<1>1. PICK files \in [Inodes -> Seq(Rows)] :
        Extends(files) /\ (file' = files \/ file' = Kept(files))
  BY StepFiles
<1>2. \A i \in Used' : file'[i] = files[i] /\ (file[i] # <<>> => file'[i] # <<>>)
  BY <1>1, StepClock, FilesAfter DEF clock
<1>3. now \in Inodes \union {Missing} /\ now' \in Inodes \union {Missing}
  BY DEF TypeInv, TypeOK
<1>4. now' = now => (now # Missing /\ file[now] # <<>> => file'[now] # <<>>)
  BY <1>2, <1>3, NowIsUsed
<1>5. \A k \in Jobs \ {j} : pc'[k] = pc[k] /\ job'[k] = job[k]
  BY StepOthers
<1>6. CASE \/ Generate(j) \/ RemoveCooked(j) \/ OpenCooked(j) \/ WriteCooked(j)
           \/ ReadHour(j) \/ ReadMin(j) \/ Parse(j)
  <2>1. UNCHANGED <<now, harm>> /\ pc[j] \notin {"open", "write"}
    BY <1>6 DEF Generate, RemoveCooked, OpenCooked, WriteCooked, ReadHour, ReadMin, Parse
  <2> QED
    BY <1>4, <1>5, <2>1, QuietServed
<1>7. CASE Remove(j)
  BY <1>7 DEF Remove, Goto, Served, TypeInv, TypeOK
<1>8. CASE Open(j)
  BY <1>8, OpenOutcomes, FilesAssumption DEF Served
<1>9. CASE Flush(j)
  <2>1. pc'[j] = pc[j] /\ UNCHANGED <<now, harm>>
    BY <1>9 DEF Flush
  <2>2. job'[j].fd = job[j].fd
    BY <1>9, WritingNumbers DEF Flush, TypeInv, TypeOK, Locals
  <2> QED
    BY <1>4, <1>5, <2>1, <2>2, QuietServed
<1>10. CASE RunOff(j)
  BY <1>10 DEF RunOff, Served
<1>11. CASE Close(j)
  <2> DEFINE to == Last(j)
  <2>1. /\ pc[j] = "write" /\ to \in Int /\ job[j].next <= to + 1 /\ to <= job[j].minutes
        /\ to >= 0 /\ job[j].fd \in Inodes
    BY <1>11, WritingNumbers DEF Close, Last
  <2>2. now' = now /\ file' = Kept(Appended(j, to))
    BY <1>11 DEF Close
  <2> HIDE DEF to
  <2>3. /\ Appended(j, to) \in [Inodes -> Seq(Rows)]
        /\ HasRow(Appended(j, to)[job[j].fd], job[j].curve.day, to)
    BY <2>1, AppendedExtends
  <2>4. CASE now = job[j].fd
    <3>1. now' \in Used' /\ now # Missing
      BY <2>1, <2>2, <2>4, NowIsUsed, FilesAssumption
    <3>2. file'[now] = Appended(j, to)[now]
      <4>1. now \in Used' \intersect Inodes
        BY <2>1, <2>2, <2>4, <3>1
      <4> QED
        BY <2>2, <2>3, <4>1, KeptType
    <3>3. HasRow(file'[now], job[j].curve.day, to)
      BY <2>3, <2>4, <3>2
    <3>4. file'[now] # <<>>
      BY <3>3 DEF HasRow
    <3> QED
      BY <2>2, <3>1, <3>4 DEF Served, Undefined
  <2>5. CASE now # job[j].fd
    <3>1. UNCHANGED <<now, harm>>
      BY <1>11, <2>5 DEF Close
    <3>2. CASE harm \/ (now # Missing /\ file[now] # <<>>)
      BY <1>4, <3>1, <3>2 DEF Served, Undefined
    <3>3. ASSUME NEW k \in Jobs, \/ now = Missing /\ pc[k] = "open"
                                 \/ now # Missing /\ pc[k] = "write" /\ job[k].fd = now
          PROVE  Served'
      <4>1. k # j
        BY <2>1, <2>5, <3>3
      <4> QED
        BY <1>5, <3>1, <3>3, <4>1 DEF Served
    <3> QED
      BY <3>2, <3>3 DEF Served, Undefined
  <2> QED
    BY <2>4, <2>5
<1> QED
  BY <1>6, <1>7, <1>8, <1>9, <1>10, <1>11 DEF Step

LEMMA InitFilesInv == Init => FilesInv
<1> SUFFICES ASSUME Init PROVE FilesInv
  OBVIOUS
<1>1. PICK built \in Minutes :
        /\ raw = day => built <= minute
        /\ file = [i \in Inodes |-> IF i = now THEN Stretch(raw, 0, built) ELSE <<>>]
  BY DEF Init
<1>2. day = 1 /\ minute \in Nat /\ raw \in {0, 1} /\ now \in Inodes /\ built \in Nat
  BY DayHasMinutes DEF Init
<1>3. /\ Len(Stretch(raw, 0, built)) = built + 1
      /\ Stretch(raw, 0, built) \in Seq(Rows)
      /\ \A k \in 1 .. built + 1 : Stretch(raw, 0, built)[k] = Row(raw, k - 1)
  <2>1. raw \in Nat /\ 0 \in Nat /\ built \in Int /\ 0 <= built + 1
    BY <1>2
  <2>2. /\ Stretch(raw, 0, built) \in Seq(Rows)
        /\ Len(Stretch(raw, 0, built)) = built - 0 + 1
        /\ \A k \in 1 .. built - 0 + 1 : Stretch(raw, 0, built)[k] = Row(raw, 0 + k - 1)
    BY <2>1, StretchRows
  <2>3. built - 0 + 1 = built + 1 /\ \A k \in 1 .. built + 1 : 0 + k - 1 = k - 1
    BY <2>1
  <2> QED
    BY <2>2, <2>3
<1>4. /\ file[now] = Stretch(raw, 0, built)
      /\ \A i \in Inodes \ {now} : file[i] = <<>>
  BY <1>1, <1>2
<1>5. RowsPast
  <2> SUFFICES ASSUME NEW i \in Inodes, NEW k \in 1 .. Len(file[i]) PROVE Past(file[i][k])
    BY DEF RowsPast
  <2>1. i = now
    BY <1>4
  <2>2. file[i][k] = Row(raw, k - 1) /\ k - 1 \in Nat /\ k - 1 <= built
    BY <1>2, <1>3, <1>4, <2>1
  <2> QED
    BY <1>1, <1>2, <2>2 DEF Past, Row
<1>6. \A i \in Inodes : Linked(file[i])
  <2> SUFFICES ASSUME NEW i \in Inodes, NEW k \in 1 .. Len(file[i]),
                      file[i][k] # Junk, file[i][k].minute > 0
               PROVE  \E l \in 1 .. k - 1 :
                        file[i][l] = Row(file[i][k].day, file[i][k].minute - 1)
    BY DEF Linked
  <2>1. i = now
    BY <1>4
  <2>2. file[i][k] = Row(raw, k - 1) /\ k \in 1 .. built + 1
    BY <1>2, <1>3, <1>4, <2>1
  <2>3. file[i][k].day = raw /\ file[i][k].minute = k - 1 /\ k > 1
    BY <1>2, <2>2 DEF Row
  <2>4. k - 1 \in 1 .. built + 1 /\ k - 1 \in 1 .. k - 1
    BY <1>2, <2>2, <2>3
  <2>5. file[i][k - 1] = Row(raw, (k - 1) - 1)
    BY <1>3, <1>4, <2>1, <2>4
  <2> QED
    BY <2>3, <2>4, <2>5
<1>7. NothingAhead
  BY <1>2, <1>5 DEF Init, NothingAhead
<1>8. AllLinked
  BY <1>6 DEF Init, AllLinked
<1>9. Served
  <2>1. file[now] # <<>>
    BY <1>2, <1>3, <1>4
  <2> QED
    BY <1>2, <2>1, FilesAssumption DEF Served, Undefined
<1> QED
  BY <1>7, <1>8, <1>9, InitTypeInv DEF FilesInv

LEMMA MinutelyFilesInv == ASSUME FilesInv, TypeInv', Minutely PROVE FilesInv'
<1>1. PICK j \in Idle : pc' = [pc EXCEPT ![j] = "hour"] /\ minute' = minute + 1
  BY DEF Minutely
<1>2. UNCHANGED <<day, daily, now, file, job, reading, harm>>
  BY DEF Minutely
<1>3. j \in Jobs /\ pc[j] = "idle"
  BY <1>1 DEF Idle
<1>4. minute \in Nat /\ minute <= minute'
  BY <1>1, DayHasMinutes DEF FilesInv, TypeInv, TypeOK
<1>5. \A k \in Jobs : pc'[k] # "hour" => pc'[k] = pc[k]
  BY <1>1, <1>3 DEF FilesInv, TypeInv, TypeOK
<1>6. RowsPast'
  BY <1>2, <1>4 DEF FilesInv, NothingAhead, RowsPast, Past, TypeInv, TypeOK, Rows
<1>7. NothingAhead'
  <2>1. \A k \in Jobs : job[k].minutes \in Nat
    BY DayHasMinutes DEF FilesInv, TypeInv, TypeOK, Locals
  <2>2. minute' \in Nat
    BY <1>1, <1>4
  <2> QED
    BY <1>2, <1>4, <1>5, <1>6, <2>1, <2>2 DEF FilesInv, NothingAhead, daily
<1>8. AllLinked'
  BY <1>2, <1>5 DEF FilesInv, AllLinked
<1>9. Served'
  <2>1. \A k \in Jobs : pc[k] \in {"open", "write"} => pc'[k] = pc[k]
    BY <1>1, <1>3 DEF FilesInv, TypeInv, TypeOK
  <2> QED
    BY <1>2, <2>1 DEF FilesInv, Served, Undefined
<1> QED
  BY <1>7, <1>8, <1>9 DEF FilesInv

LEMMA MidnightFilesInv ==
    ASSUME Straddle = FALSE, FilesInv, TypeInv', Midnight
    PROVE  FilesInv'
<1>1. /\ \A k \in Jobs : pc[k] = "idle"
      /\ \A k \in Jobs : pc'[k] \in {"idle", "hour", "generate"}
  BY DEF Midnight, Idle, FilesInv, TypeInv, TypeOK
<1>2. UNCHANGED <<daily, now, file, job, reading, harm>> /\ day' = day + 1 /\ day \in Nat
  BY DEF Midnight, FilesInv, TypeInv, TypeOK
<1>3. RowsPast'
  <2> SUFFICES ASSUME NEW i \in Inodes, NEW k \in 1 .. Len(file[i]), file[i][k] # Junk
               PROVE  file[i][k].day < day'
    BY <1>2 DEF RowsPast, Past
  <2>1. file[i] \in Seq(Rows)
    BY DEF FilesInv, TypeInv, TypeOK
  <2>2. file[i][k] \in Rows
    BY <2>1, LenProperties
  <2>3. file[i][k].day <= day /\ file[i][k].day \in Nat
    BY <1>2, <2>2 DEF FilesInv, NothingAhead, RowsPast, Past, Rows
  <2> QED
    BY <1>2, <2>3
<1>4. NothingAhead'
  <2>1. raw' <= day' /\ raw \in Nat
    BY <1>2 DEF FilesInv, NothingAhead, TypeInv, TypeOK, daily
  <2>2. cooked' # Missing => cooked'.day <= day'
    BY <1>2 DEF FilesInv, NothingAhead, TypeInv, TypeOK, Curves, daily
  <2> QED
    BY <1>1, <1>3, <2>1, <2>2 DEF NothingAhead
<1>5. AllLinked'
  BY <1>1, <1>2 DEF FilesInv, AllLinked
<1>6. Served'
  BY <1>1, <1>2 DEF FilesInv, Served, Undefined
<1> QED
  BY <1>4, <1>5, <1>6 DEF FilesInv

LEMMA ReaderFilesInv ==
    ASSUME FilesInv, TypeInv', NEW r \in Readers, OpenToRead(r) \/ PriceNow(r)
    PROVE  FilesInv'
<1>1. file \in [Inodes -> Seq(Rows)] /\ Extends(file)
  BY SameExtends DEF FilesInv, TypeInv, TypeOK
<1>2. /\ UNCHANGED <<clock, daily, now, pc, job, harm>>
      /\ file' = file \/ file' = Kept(file)
  BY DEF OpenToRead, PriceNow
<1>3. /\ RowsPast'
      /\ \A i \in Inodes : Linked(file'[i])
      /\ \A i \in Used' : /\ file'[i] = file[i]
                          /\ file[i] # <<>> => file'[i] # <<>>
  BY <1>1, <1>2, FilesAfter
<1>4. NothingAhead'
  BY <1>2, <1>3 DEF FilesInv, NothingAhead, clock, daily
<1>5. AllLinked'
  <2> SUFFICES ASSUME NEW k \in Jobs, pc'[k] = "write", job'[k].next > 0
               PROVE  HasRow(file'[job'[k].fd], job'[k].curve.day, job'[k].next - 1)
    BY <1>3 DEF AllLinked
  <2>1. job'[k].fd \in Used'
    BY DEF Used, TypeInv, Writing
  <2>2. file'[job[k].fd] = file[job[k].fd]
    BY <1>2, <1>3, <2>1
  <2> QED
    BY <1>2, <2>2 DEF FilesInv, AllLinked
<1>6. Served'
  <2>1. now # Missing /\ file[now] # <<>> => file'[now] # <<>>
    BY <1>2, <1>3, NowIsUsed DEF TypeInv, TypeOK
  <2> QED
    BY <1>2, <2>1 DEF FilesInv, Served, Undefined
<1> QED
  BY <1>4, <1>5, <1>6 DEF FilesInv

LEMMA NextFilesInv == ASSUME Straddle = FALSE, FilesInv, [Next]_vars PROVE FilesInv'
<1>1. TypeInv'
  BY NextTypeInv DEF FilesInv
<1>2. CASE Minutely
  BY <1>1, <1>2, MinutelyFilesInv
<1>3. CASE Midnight
  BY <1>1, <1>3, MidnightFilesInv
<1>4. ASSUME NEW j \in Jobs, Step(j) PROVE FilesInv'
  BY <1>1, <1>4, StepAhead, StepLinked, StepServed DEF FilesInv
<1>5. ASSUME NEW r \in Readers, OpenToRead(r) \/ PriceNow(r) PROVE FilesInv'
  BY <1>1, <1>5, ReaderFilesInv
<1>6. CASE UNCHANGED vars
  BY <1>1, <1>6
     DEF vars, FilesInv, NothingAhead, RowsPast, Past, AllLinked, Served, Undefined
<1> QED
  BY <1>2, <1>3, <1>4, <1>5, <1>6 DEF Next, Waiting

LEMMA FilesAlways == Straddle = FALSE => (Spec => []FilesInv)
<1> SUFFICES ASSUME Straddle = FALSE PROVE Spec => []FilesInv
  OBVIOUS
<1>1. Init => FilesInv
  BY InitFilesInv
<1>2. FilesInv /\ [Next]_vars => FilesInv'
  BY NextFilesInv
<1> QED
  BY <1>1, <1>2, PTL DEF Spec

\* PriceFeed!NoFuturePrice: whatever price_history_now.cpp writes, by as many
\* jobs as there are and into files that others remove, is past.
THEOREM NothingOfTheFuture == Straddle = FALSE => (Spec => []NoFuturePrice)
<1> SUFFICES ASSUME Straddle = FALSE PROVE Spec => []NoFuturePrice
  OBVIOUS
<1>1. FilesInv => NoFuturePrice
  BY LenProperties
     DEF FilesInv, TypeInv, TypeOK, NothingAhead, RowsPast, NoFuturePrice, Used
<1> QED
  BY <1>1, FilesAlways, PTL

\* PriceFeed!Served: price_now is without a price only while price_history_now
\* has removed now.csv and not written a buffer, or after it died there.
THEOREM PricesAreServed == Straddle = FALSE => (Spec => []Served)
<1> SUFFICES ASSUME Straddle = FALSE PROVE Spec => []Served
  OBVIOUS
<1>1. FilesInv => Served
  BY DEF FilesInv
<1> QED
  BY <1>1, FilesAlways, PTL

\* PriceFeed!NoHoles: the jobs that append to one now.csv never leave out a row.
THEOREM ChartsHaveNoHoles == Straddle = FALSE => (Spec => []NoHoles)
<1> SUFFICES ASSUME Straddle = FALSE PROVE Spec => []NoHoles
  OBVIOUS
<1>1. FilesInv => NoHoles
  <2> SUFFICES ASSUME FilesInv, NEW i \in Used, NEW k \in DOMAIN file[i],
                      file[i][k] # Junk, file[i][k].minute > 0
               PROVE  \E l \in 1 .. k - 1 :
                        file[i][l] = Row(file[i][k].day, file[i][k].minute - 1)
    BY DEF NoHoles
  <2>1. i \in Inodes /\ file[i] \in Seq(Rows)
    BY DEF FilesInv, TypeInv, TypeOK, Used
  <2>2. k \in 1 .. Len(file[i])
    BY <2>1, LenProperties
  <2> QED
    BY <2>1, <2>2 DEF FilesInv, AllLinked, Linked
<1> QED
  BY <1>1, FilesAlways, PTL

-----------------------------------------------------------------------------
(* A job that nobody overlaps. *)

\* A file that nobody has is gone, so that a job that creates now.csv finds it
\* empty.
UnusedEmpty == \A i \in Inodes \ Used : file[i] = <<>>

\* An alone job has the path to itself, and in its file what it has written.
AloneWrites ==
    \A j \in alone :
        /\ \A k \in Jobs \ {j} : pc[k] = "idle"
        /\ ~Daily(j)
        /\ pc[j] = "open" => now = Missing
        /\ pc[j] = "write" =>
             /\ now = job[j].fd
             /\ file[now] = Stretch(job[j].curve.day, 0, job[j].next - 1)

AloneInv == FilesInv /\ UnusedEmpty /\ AloneWrites

LEMMA StretchConcat ==
    ASSUME NEW d \in Nat, NEW from \in Nat, NEW to \in Int, from <= to + 1
    PROVE  Stretch(d, 0, from - 1) \o Stretch(d, from, to) = Stretch(d, 0, to)
<1> DEFINE s == Stretch(d, 0, from - 1)
           t == s \o Stretch(d, from, to)
           u == Stretch(d, 0, to)
<1>1. /\ s \in Seq(Rows) /\ Len(s) = (from - 1) - 0 + 1
      /\ \A k \in 1 .. (from - 1) - 0 + 1 : s[k] = Row(d, 0 + k - 1)
  <2>1. 0 \in Nat /\ from - 1 \in Int /\ 0 <= (from - 1) + 1
    OBVIOUS
  <2> QED
    BY <2>1, StretchRows
<1>2. /\ u \in Seq(Rows) /\ Len(u) = to - 0 + 1
      /\ \A k \in 1 .. to - 0 + 1 : u[k] = Row(d, 0 + k - 1)
  <2>1. 0 \in Nat /\ 0 <= to + 1
    OBVIOUS
  <2> QED
    BY <2>1, StretchRows
<1> HIDE DEF s, u
<1>3. /\ t \in Seq(Rows) /\ Len(t) = Len(s) + (to - from + 1)
      /\ \A k \in 1 .. Len(s) : t[k] = s[k]
      /\ \A k \in Len(s) + 1 .. Len(s) + (to - from + 1) : t[k] = Row(d, from + (k - Len(s)) - 1)
  BY <1>1, ConcatRows
<1> HIDE DEF t
<1>4. Len(s) = from /\ Len(t) = to + 1 /\ Len(u) = to + 1
  BY <1>1, <1>2, <1>3
<1>5. ASSUME NEW k \in 1 .. to + 1 PROVE t[k] = u[k]
  <2>1. u[k] = Row(d, k - 1)
    <3>1. k \in 1 .. to - 0 + 1 /\ 0 + k - 1 = k - 1
      OBVIOUS
    <3> QED
      BY <1>2, <3>1
  <2>2. CASE k <= from
    <3>1. k \in 1 .. Len(s) /\ k \in 1 .. (from - 1) - 0 + 1 /\ 0 + k - 1 = k - 1
      BY <1>4, <2>2
    <3> QED
      BY <1>1, <1>3, <2>1, <3>1
  <2>3. CASE k > from
    <3>1. k \in Len(s) + 1 .. Len(s) + (to - from + 1) /\ from + (k - Len(s)) - 1 = k - 1
      BY <1>4, <2>3
    <3> QED
      BY <1>3, <2>1, <3>1
  <2> QED
    BY <2>2, <2>3
<1> QED
  BY <1>2, <1>3, <1>4, <1>5, SeqEqual DEF t, u, s

\* A step that lets go of no inode keeps those in use.
LEMMA UsedGrows ==
    ASSUME now' = now \/ now \notin Inodes,
           \A k \in Jobs : job'[k].fd = job[k].fd \/ job[k].fd \notin Inodes,
           \A r \in Readers : reading'[r] = reading[r] \/ reading[r] \notin Inodes
    PROVE  Used \subseteq Used'
BY DEF Used

LEMMA KeptUnusedEmpty ==
    ASSUME NEW files \in [Inodes -> Seq(Rows)], file' = Kept(files)
    PROVE  UnusedEmpty'
BY KeptType DEF UnusedEmpty

LEMMA StepUnusedEmpty ==
    ASSUME TypeInv, TypeInv', UnusedEmpty, NEW j \in Jobs, Step(j)
    PROVE  UnusedEmpty'
<1> USE FilesAssumption
<1>1. \A k \in Jobs \ {j} : job'[k] = job[k]
  BY StepOthers
<1>2. pc[j] # "write" => job[j].fd = Missing
  BY DEF TypeInv, Writing
<1>3. ASSUME UNCHANGED <<now, file, reading>>,
             pc[j] # "write" \/ job'[j].fd = job[j].fd
      PROVE  UnusedEmpty'
  BY <1>1, <1>2, <1>3, UsedGrows DEF UnusedEmpty
<1>4. CASE \/ Generate(j) \/ RemoveCooked(j) \/ OpenCooked(j) \/ WriteCooked(j)
           \/ ReadHour(j) \/ ReadMin(j) \/ Parse(j)
  BY <1>3, <1>4 DEF Generate, RemoveCooked, OpenCooked, WriteCooked, ReadHour, ReadMin, Parse
<1>5. CASE Remove(j)
  BY <1>5, KeptUnusedEmpty DEF Remove, TypeInv, TypeOK
<1>6. CASE Open(j)
  <2>1. reading' = reading /\ file' = file /\ pc[j] = "open"
    BY <1>6, OpenOutcomes DEF Open
  <2>2. now' = now \/ now = Missing
    BY <1>6 DEF Open
  <2> QED
    BY <1>1, <1>2, <2>1, <2>2, UsedGrows DEF UnusedEmpty
<1>7. CASE Flush(j)
  <2> DEFINE to == job[j].next + BufferRows - 1
  <2>1. /\ pc[j] = "write" /\ to \in Int /\ job[j].next <= to + 1
        /\ job[j].fd \in Inodes /\ pc'[j] = "write"
    BY <1>7, WritingNumbers, BufferAssumption DEF Flush
  <2>2. file' = Appended(j, to) /\ UNCHANGED <<now, reading>>
    BY <1>7 DEF Flush
  <2>3. job'[j].fd = job[j].fd
    BY <1>7, WritingNumbers DEF Flush, TypeInv, TypeOK, Locals
  <2> HIDE DEF to
  <2>4. \A i \in Inodes \ {job[j].fd} : file'[i] = file[i]
    BY <2>1, <2>2, AppendedRows
  <2>5. Used \subseteq Used'
    BY <1>1, <2>2, <2>3, UsedGrows
  <2>6. job[j].fd \in Used'
    BY <2>1, <2>3 DEF Used
  <2> QED
    BY <2>4, <2>5, <2>6 DEF UnusedEmpty
<1>8. CASE Close(j)
  <2>1. pc[j] = "write" /\ Last(j) \in Int /\ job[j].next <= Last(j) + 1
    BY <1>8, WritingNumbers DEF Close, Last
  <2> QED
    BY <1>8, <2>1, AppendedRows, KeptUnusedEmpty DEF Close
<1>9. CASE RunOff(j)
  <2> DEFINE A == [Appended(j, job[j].curve.len - 1) EXCEPT ![job[j].fd] = Append(@, Junk)]
  <2>1. file' = Kept(file) \/ file' = Kept(A)
    BY <1>9 DEF RunOff
  <2>2. A \in [Inodes -> Seq(Rows)] /\ file \in [Inodes -> Seq(Rows)]
    BY <1>9, RunOffRows DEF RunOff, TypeInv, TypeOK
  <2> HIDE DEF A
  <2> QED
    BY <2>1, <2>2, KeptUnusedEmpty
<1> QED
  BY <1>4, <1>5, <1>6, <1>7, <1>8, <1>9 DEF Step

LEMMA EmptyStretch == ASSUME NEW d \in Nat PROVE Stretch(d, 0, 0 - 1) = <<>>
<1>1. /\ Stretch(d, 0, 0 - 1) \in Seq(Rows) /\ Len(Stretch(d, 0, 0 - 1)) = (0 - 1) - 0 + 1
  <2>1. 0 \in Nat /\ 0 - 1 \in Int /\ 0 <= (0 - 1) + 1
    OBVIOUS
  <2> QED
    BY <2>1, StretchRows
<1> QED
  BY <1>1, EmptySeq

\* What an alone job appends makes its file the longer stretch.
LEMMA AloneAppends ==
    ASSUME TypeInv, AloneWrites, NEW j \in alone, j \in Jobs, pc[j] = "write",
           NEW to \in Nat, job[j].next <= to + 1
    PROVE  Appended(j, to)[now] = Stretch(job[j].curve.day, 0, to)
<1>1. job[j].curve.day \in Nat /\ job[j].next \in Nat
  BY WritingNumbers
<1>2. now = job[j].fd /\ file[now] = Stretch(job[j].curve.day, 0, job[j].next - 1)
  BY DEF AloneWrites
<1>3. Appended(j, to)[job[j].fd]
        = file[job[j].fd] \o Stretch(job[j].curve.day, job[j].next, to)
  <2>1. to \in Int
    OBVIOUS
  <2> QED
    BY <2>1, AppendedRows
<1>4. Stretch(job[j].curve.day, 0, job[j].next - 1)
        \o Stretch(job[j].curve.day, job[j].next, to) = Stretch(job[j].curve.day, 0, to)
  <2>1. to \in Int
    OBVIOUS
  <2> QED
    BY <1>1, <2>1, StretchConcat
<1> QED
  BY <1>2, <1>3, <1>4

LEMMA StepAlone ==
    ASSUME TypeInv, TypeInv', UnusedEmpty, AloneWrites, NEW j \in Jobs, Step(j)
    PROVE  AloneWrites'
<1>1. alone' = alone /\ alone \subseteq Jobs
  BY DEF Step, Generate, RemoveCooked, OpenCooked, WriteCooked, ReadHour, ReadMin, Parse,
         Remove, Open, Flush, Close, RunOff, TypeInv, TypeOK
<1>2. pc[j] # "idle"
  BY DEF Step, Generate, RemoveCooked, OpenCooked, WriteCooked, ReadHour, ReadMin, Parse,
         Remove, Open, Flush, Close, RunOff
<1> SUFFICES ASSUME NEW a \in alone
             PROVE  /\ \A k \in Jobs \ {a} : pc'[k] = "idle"
                    /\ ~Daily(a)'
                    /\ pc'[a] = "open" => now' = Missing
                    /\ pc'[a] = "write" =>
                         /\ now' = job'[a].fd
                         /\ file'[now'] = Stretch(job'[a].curve.day, 0, job'[a].next - 1)
  BY <1>1 DEF AloneWrites
<1>3. a = j /\ j \in alone
  BY <1>1, <1>2 DEF AloneWrites
<1>4. \A k \in Jobs \ {a} : pc'[k] = "idle"
  BY <1>3, StepOthers DEF AloneWrites
<1>5. pc \in [Jobs -> Calls \union {"idle"}] /\ ~Daily(j)
  BY <1>3 DEF AloneWrites, TypeInv, TypeOK
<1>6. CASE ReadHour(j) \/ ReadMin(j) \/ Parse(j)
  <2>1. pc'[j] \in {"min", "parse", "remove", "idle"}
    BY <1>5, <1>6 DEF ReadHour, ReadMin, Parse, Goto, Exit
  <2> QED
    BY <1>3, <1>4, <2>1 DEF Daily
<1>7. CASE Remove(j)
  <2>1. pc'[j] = "open" /\ now' = Missing
    BY <1>5, <1>7 DEF Remove, Goto
  <2> QED
    BY <1>3, <1>4, <2>1 DEF Daily
<1>8. CASE Open(j)
  <2>1. CASE pc'[j] = "idle"
    BY <1>3, <1>4, <2>1 DEF Daily
  <2>2. CASE pc'[j] = "write"
    <3>1. /\ now' \in Inodes /\ job'[j].fd = now' /\ job'[j].next = 0 /\ file' = file
      BY <2>2, <1>8, OpenOutcomes
    <3>2. pc[j] = "open" /\ now = Missing
      BY <1>3, <1>8 DEF Open, AloneWrites
    <3>3. now' \in Inodes \ Used
      BY <3>1, <3>2, <1>8, FilesAssumption DEF Open
    <3>4. file'[now'] = <<>>
      BY <3>1, <3>3 DEF UnusedEmpty
    <3>5. job'[j].curve.day \in Nat
      BY <2>2, WritingNumbers DEF TypeInv, TypeOK, Locals, Curves
    <3>6. file'[now'] = Stretch(job'[j].curve.day, 0, job'[j].next - 1)
      BY <3>1, <3>4, <3>5, EmptyStretch
    <3> QED
      BY <1>3, <1>4, <2>2, <3>1, <3>6 DEF Daily
  <2> QED
    BY <1>8, <2>1, <2>2, OpenOutcomes
<1>9. CASE Flush(j)
  <2> DEFINE to == job[j].next + BufferRows - 1
  <2>1. /\ pc[j] = "write" /\ pc' = pc /\ to \in Nat /\ job[j].next <= to + 1
    BY <1>9, WritingNumbers, BufferAssumption DEF Flush
  <2>2. file' = Appended(j, to) /\ now' = now /\ job' = [job EXCEPT ![j].next = to + 1]
    BY <1>9 DEF Flush
  <2> HIDE DEF to
  <2>3. /\ job'[j].fd = job[j].fd /\ job'[j].curve = job[j].curve
        /\ job'[j].next = to + 1
    BY <2>1, <2>2, WritingNumbers DEF TypeInv, TypeOK, Locals
  <2>4. file'[now'] = Stretch(job[j].curve.day, 0, to) /\ (to + 1) - 1 = to
    BY <1>3, <2>1, <2>2, AloneAppends
  <2>5. now' = job[j].fd
    BY <1>3, <2>1, <2>2 DEF AloneWrites
  <2> QED
    BY <1>3, <1>4, <2>1, <2>3, <2>4, <2>5 DEF Daily
<1>10. CASE Close(j) \/ RunOff(j)
  <2>1. pc'[j] = "idle"
    BY <1>5, <1>10 DEF Close, RunOff, Exit, Goto
  <2> QED
    BY <1>3, <1>4, <2>1 DEF Daily
<1>11. CASE Generate(j) \/ RemoveCooked(j) \/ OpenCooked(j) \/ WriteCooked(j)
  BY <1>5, <1>11 DEF Generate, RemoveCooked, OpenCooked, WriteCooked, Daily
<1> QED
  BY <1>6, <1>7, <1>8, <1>9, <1>10, <1>11 DEF Step

LEMMA ClockAlone ==
    ASSUME Straddle = FALSE, TypeInv, UnusedEmpty, Minutely \/ Midnight
    PROVE  UnusedEmpty' /\ AloneWrites'
<1>1. UNCHANGED <<now, file, job, reading>>
  BY DEF Minutely, Midnight
<1>2. UnusedEmpty'
  BY <1>1 DEF UnusedEmpty, Used
<1>3. CASE Midnight
  BY <1>2, <1>3 DEF Midnight, AloneWrites
<1>4. ASSUME NEW j \in Idle, pc' = [pc EXCEPT ![j] = "hour"],
             alone' = IF Idle = Jobs THEN {j} ELSE {}
      PROVE  AloneWrites'
  <2> SUFFICES ASSUME Idle = Jobs, alone' = {j} PROVE AloneWrites'
    BY <1>4 DEF AloneWrites
  <2>1. pc'[j] = "hour" /\ \A k \in Jobs \ {j} : pc'[k] = "idle"
    BY <1>4 DEF Idle, TypeInv, TypeOK
  <2> QED
    BY <2>1 DEF AloneWrites, Daily
<1> QED
  BY <1>2, <1>3, <1>4 DEF Minutely

LEMMA ReaderAlone ==
    ASSUME TypeInv, UnusedEmpty, AloneWrites, NEW r \in Readers,
           OpenToRead(r) \/ PriceNow(r)
    PROVE  UnusedEmpty' /\ AloneWrites'
<1>1. UNCHANGED <<now, pc, job, alone>> /\ file \in [Inodes -> Seq(Rows)] /\ alone \subseteq Jobs
  BY DEF OpenToRead, PriceNow, TypeInv, TypeOK
<1>2. UnusedEmpty'
  <2>1. CASE OpenToRead(r)
    <3>1. Used \subseteq Used' /\ file' = file
      BY <2>1, <1>1, UsedGrows, FilesAssumption DEF OpenToRead, TypeInv, TypeOK
    <3> QED
      BY <3>1 DEF UnusedEmpty
  <2>2. CASE PriceNow(r)
    BY <1>1, <2>2, KeptUnusedEmpty DEF PriceNow
  <2> QED
    BY <2>1, <2>2
<1>3. now \in Inodes => file'[now] = file[now]
  BY <1>1, NowIsUsed, KeptType DEF OpenToRead, PriceNow
<1>4. \A a \in alone : pc[a] = "write" => now \in Inodes
  BY <1>1 DEF AloneWrites, TypeInv, Writing
<1> QED
  BY <1>1, <1>2, <1>3, <1>4 DEF AloneWrites, Daily

LEMMA InitAloneInv == Init => AloneInv
<1> SUFFICES ASSUME Init PROVE AloneInv
  OBVIOUS
<1>1. UnusedEmpty
  BY DEF Init, UnusedEmpty, Used
<1>2. AloneWrites
  BY DEF Init, AloneWrites
<1> QED
  BY <1>1, <1>2, InitFilesInv DEF AloneInv

LEMMA NextAloneInv == ASSUME Straddle = FALSE, AloneInv, [Next]_vars PROVE AloneInv'
<1>1. FilesInv' /\ TypeInv' /\ TypeInv
  BY NextFilesInv DEF AloneInv, FilesInv
<1>2. CASE Minutely \/ Midnight
  BY <1>1, <1>2, ClockAlone DEF AloneInv
<1>3. ASSUME NEW j \in Jobs, Step(j) PROVE AloneInv'
  BY <1>1, <1>3, StepAlone, StepUnusedEmpty DEF AloneInv
<1>4. ASSUME NEW r \in Readers, OpenToRead(r) \/ PriceNow(r) PROVE AloneInv'
  BY <1>1, <1>4, ReaderAlone DEF AloneInv
<1>5. CASE UNCHANGED vars
  BY <1>1, <1>5 DEF vars, AloneInv, UnusedEmpty, Used, AloneWrites, Daily
<1> QED
  BY <1>2, <1>3, <1>4, <1>5 DEF Next, Waiting

\* The step that ends an alone job leaves its rows at the path.
LEMMA AloneEnds ==
    ASSUME AloneInv, NEW j \in alone, NEW k \in Jobs, Step(k),
           pc[j] = "write", pc'[j] = "idle", ~harm'
    PROVE  now' = job[j].fd /\ file'[now'] = Stretch(job[j].curve.day, 0, job[j].minutes)
<1>1. TypeInv /\ AloneWrites /\ j \in Jobs
  BY DEF AloneInv, FilesInv, TypeInv, TypeOK
<1>2. k = j
  BY <1>1, StepOthers
<1>3. Close(j)
  BY <1>1, <1>2 DEF Step, Generate, RemoveCooked, OpenCooked, WriteCooked, ReadHour, ReadMin,
     Parse, Remove, Open, Flush, RunOff, Goto, TypeInv, TypeOK
<1> DEFINE to == Last(j)
<1>4. to \in Nat /\ job[j].next <= to + 1 /\ to = job[j].minutes /\ job[j].fd \in Inodes
  BY <1>1, WritingNumbers DEF Last
<1>5. now' = now /\ now = job[j].fd /\ file' = Kept(Appended(j, to))
  BY <1>1, <1>3 DEF Close, AloneWrites
<1> HIDE DEF to
<1>6. Appended(j, to)[now] = Stretch(job[j].curve.day, 0, to)
  BY <1>1, <1>4, AloneAppends
<1>7. Appended(j, to) \in [Inodes -> Seq(Rows)] /\ now \in Used' \intersect Inodes
  <2>1. to \in Int
    BY <1>4
  <2> QED
    BY <1>1, <1>4, <1>5, <2>1, AppendedRows, NowIsUsed
<1> QED
  BY <1>4, <1>5, <1>6, <1>7, KeptType

\* PriceFeed!AloneIsExact: a run of price_history_now that no other overlaps
\* leaves exactly the rows up to the minute it was given.
THEOREM AloneJobsAreExact == Straddle = FALSE => (Spec => AloneIsExact)
<1> SUFFICES ASSUME Straddle = FALSE PROVE Spec => AloneIsExact
  OBVIOUS
<1> DEFINE Exact == \A j \in alone :
                      pc[j] = "write" /\ pc'[j] = "idle" /\ ~harm' =>
                        /\ now' = job[j].fd
                        /\ file'[now'] = Stretch(job[j].curve.day, 0, job[j].minutes)
<1>1. Init => AloneInv
  BY InitAloneInv
<1>2. AloneInv /\ [Next]_vars => AloneInv'
  BY NextAloneInv
<1>3. AloneInv /\ [Next]_vars => [Exact]_vars
  <2> SUFFICES ASSUME AloneInv, Next, NEW j \in alone,
                      pc[j] = "write", pc'[j] = "idle", ~harm'
               PROVE  /\ now' = job[j].fd
                      /\ file'[now'] = Stretch(job[j].curve.day, 0, job[j].minutes)
    OBVIOUS
  <2>1. CASE \E k \in Jobs : Step(k)
    BY <2>1, AloneEnds
  <2>2. CASE Minutely \/ Midnight
    BY <2>2 DEF Minutely, Midnight, Idle, AloneInv, FilesInv, TypeInv, TypeOK
  <2>3. CASE \/ \E r \in Readers : OpenToRead(r) \/ PriceNow(r)
             \/ Waiting
    BY <2>3 DEF OpenToRead, PriceNow, Waiting, vars
  <2> QED
    BY <2>1, <2>2, <2>3 DEF Next
<1> QED
  BY <1>1, <1>2, <1>3, PTL DEF Spec, AloneIsExact
===================================================================================
