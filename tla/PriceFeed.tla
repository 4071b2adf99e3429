-------------------------------- MODULE PriceFeed --------------------------------
(***************************************************************************)
(* The price files of one company. At midnight a cron job has a day's curve *)
(* generated (raw.csv) and rewrites it as cooked.csv; every minute another  *)
(* one copies the rows up to the minute of the day from cooked.csv to       *)
(* now.csv, whose last row price_now of main.cpp gives to the pages and to  *)
(* the handlers. Nothing locks a file: each job removes its target, opens   *)
(* it for appending and writes it a buffer at a time, while readers and     *)
(* other jobs come and go.                                                  *)
(*                                                                         *)
(* A row stands for the price of a minute of a day. cooked.csv has a single *)
(* writer, so its rows are always the first ones of a day; now.csv has      *)
(* several, and a file that was removed lives on for those that hold it     *)
(* open, so it is modelled as a path to an inode.                           *)
(***************************************************************************)
EXTENDS Integers, Sequences

CONSTANTS
    Jobs,            \* runs of the cron scripts that can be under way at once
    Readers,         \* threads of the server that call price_now
    Inodes,          \* files now.csv can be, at its path or still open
    Missing,         \* path without a file; also no file open
    Junk,            \* a row made of memory past the end of a vector
    Hours,           \* hours of a day
    MinutesPerHour,  \* minutes of an hour
    Illegal,         \* numbers date prints and the shell's arithmetic refuses
    BufferRows,      \* rows after which an ofstream writes its buffer
    Straddle,        \* whether a job may still be running at midnight
    LastDay          \* bound on the days of a behaviour

Minutes == 0 .. Hours * MinutesPerHour - 1
DayRows == Hours * MinutesPerHour

ASSUME FilesAssumption == Missing \notin Inodes /\ Missing \notin [day : Nat, len : Nat]
ASSUME ClockAssumption ==
    /\ Hours \in Nat \ {0} /\ MinutesPerHour \in Nat \ {0}
    /\ Illegal \subseteq Nat
    /\ LastDay \in Nat
ASSUME BufferAssumption == BufferRows \in Nat \ {0}
ASSUME StraddleAssumption == Straddle \in BOOLEAN

VARIABLES
    day, minute,  \* the clock
    raw,          \* day whose curve raw.csv has
    cooked,       \* what cooked.csv has: the first len rows of a day, or Missing
    now,          \* the inode at the path of now.csv, or Missing
    file,         \* the rows of each inode
    pc,           \* what a job does next, or "idle"
    job,          \* the locals of a job
    reading,      \* the file a price_now has open, or Missing
    \* history variables
    alone,        \* jobs that no other job has overlapped so far
    harm          \* a job died with now.csv removed or half written

clock == <<day, minute>>
daily == <<raw, cooked>>
vars == <<day, minute, raw, cooked, now, file, pc, job, reading, alone, harm>>

Row(d, m) == [day |-> d, minute |-> m]

\* The rows from, ..., to of the curve of a day, in order.
Stretch(d, from, to) == [k \in 1 .. to - from + 1 |-> Row(d, from + k - 1)]

NoJob == [hour |-> 0, minutes |-> 0, curve |-> [day |-> 0, len |-> 0],
          fd |-> Missing, next |-> 0]

\* The image was built, and its files with it, at some moment before the
\* container starts.
Init ==
    /\ day = 1 /\ minute \in Minutes
    /\ raw \in {0, 1}
    /\ cooked = [day |-> raw, len |-> DayRows]
    /\ now \in Inodes
    /\ \E built \in Minutes :
         /\ raw = day => built <= minute
         /\ file = [i \in Inodes |-> IF i = now THEN Stretch(raw, 0, built) ELSE <<>>]
    /\ pc = [j \in Jobs |-> "idle"]
    /\ job = [j \in Jobs |-> NoJob]
    /\ reading = [r \in Readers |-> Missing]
    /\ alone = {}
    /\ harm = FALSE

-----------------------------------------------------------------------------
(* Inodes. *)

\* The file at the path, and those a job or a reader has open.
Used == Inodes \intersect
    ({now} \union {job[j].fd : j \in Jobs} \union {reading[r] : r \in Readers})

\* What is left of some files after a step: the system reclaims an inode when
\* nothing refers to it any more.
Kept(files) == [i \in Inodes |-> IF i \in Used' THEN files[i] ELSE <<>>]

-----------------------------------------------------------------------------
(* cron. *)

Idle == {j \in Jobs : pc[j] = "idle"}

\* Every minute: price_gen_minutely.sh.
Minutely ==
    \E j \in Idle :
        /\ minute + 1 \in Minutes
        /\ minute' = minute + 1
        /\ pc' = [pc EXCEPT ![j] = "hour"]
        /\ alone' = IF Idle = Jobs THEN {j} ELSE {}
        /\ UNCHANGED <<day, daily, now, file, job, reading, harm>>

\* At midnight it is run twice: by itself and behind price_gen_daily.sh.
Midnight ==
    \E j, k \in Idle :
        /\ j # k
        /\ minute + 1 \notin Minutes /\ day < LastDay
        /\ Straddle \/ Idle = Jobs
        /\ day' = day + 1 /\ minute' = 0
        /\ pc' = [pc EXCEPT ![j] = "hour", ![k] = "generate"]
        /\ alone' = {}
        /\ UNCHANGED <<daily, now, file, job, reading, harm>>

-----------------------------------------------------------------------------
(* price_gen_daily.sh and price_history_all.cpp. *)

Goto(j, next) == pc' = [pc EXCEPT ![j] = next]
Exit(j) == Goto(j, "idle") /\ job' = [job EXCEPT ![j] = NoJob]

\* PriceGenerator.py, which may fail: nobody looks at its exit status.
Generate(j) ==
    /\ pc[j] = "generate"
    /\ raw' \in {raw, day}
    /\ Goto(j, "removeCooked")
    /\ UNCHANGED <<clock, cooked, now, file, job, reading, alone, harm>>

RemoveCooked(j) ==
    /\ pc[j] = "removeCooked"
    /\ cooked' = Missing
    /\ Goto(j, "openCooked")
    /\ UNCHANGED <<clock, raw, now, file, job, reading, alone, harm>>

\* The script goes on when the file cannot be created.
OpenCooked(j) ==
    /\ pc[j] = "openCooked"
    /\ \/ cooked' = [day |-> raw, len |-> 0] /\ Goto(j, "writeCooked")
       \/ UNCHANGED cooked /\ Goto(j, "hour")
    /\ UNCHANGED <<clock, raw, now, file, job, reading, alone, harm>>

WriteCooked(j) ==
    /\ pc[j] = "writeCooked"
    /\ IF cooked.len + BufferRows <= DayRows
       THEN cooked' = [cooked EXCEPT !.len = @ + BufferRows] /\ UNCHANGED pc
       ELSE cooked' = [cooked EXCEPT !.len = DayRows] /\ Goto(j, "hour")
    /\ UNCHANGED <<clock, raw, now, file, job, reading, alone, harm>>

-----------------------------------------------------------------------------
(* price_gen_minutely.sh. *)

\* The hour is asked for first, the minute of the hour by a second call.
ReadHour(j) ==
    /\ pc[j] = "hour"
    /\ job' = [job EXCEPT ![j].hour = minute \div MinutesPerHour]
    /\ Goto(j, "min")
    /\ UNCHANGED <<clock, daily, now, file, reading, alone, harm>>

\* Mutant: hours counted from one.
ReadMinFromOne(j) ==
    LET min == minute % MinutesPerHour
    IN  /\ pc[j] = "min"
        /\ job' = [job EXCEPT ![j].minutes = MinutesPerHour * (job[j].hour + 1) + min]
        /\ Goto(j, "parse")
        /\ UNCHANGED <<clock, daily, now, file, reading, alone, harm>>

\* A number with a leading zero is octal to the shell: 08 and 09 end the script.
ReadMin(j) ==
    LET min == minute % MinutesPerHour
    IN  /\ pc[j] = "min"
        /\ IF job[j].hour \in Illegal \/ min \in Illegal
           THEN Exit(j)
           ELSE /\ job' = [job EXCEPT ![j].minutes = MinutesPerHour * job[j].hour + min]
                /\ Goto(j, "parse")
        /\ UNCHANGED <<clock, daily, now, file, reading, alone, harm>>

-----------------------------------------------------------------------------
(* price_history_now.cpp. *)

\* Mutant: now.csv is removed before cooked.csv is read.
ParseLate(j) ==
    /\ pc[j] = "parse"
    /\ now' = Missing
    /\ IF cooked = Missing
       THEN Exit(j)
       ELSE job' = [job EXCEPT ![j].curve = cooked] /\ Goto(j, "remove")
    /\ UNCHANGED <<clock, daily, reading, alone, harm>>
    /\ file' = Kept(file)

\* Without a cooked.csv the exception ends the program before it removes
\* anything. The file only grows while somebody writes it, so reading it is as
\* good as reading it at one moment.
Parse(j) ==
    /\ pc[j] = "parse"
    /\ IF cooked = Missing
       THEN Exit(j)
       ELSE job' = [job EXCEPT ![j].curve = cooked] /\ Goto(j, "remove")
    /\ UNCHANGED <<clock, daily, now, file, reading, alone, harm>>

\* Mutant: an old now.csv is not removed.
RemoveNot(j) ==
    /\ pc[j] = "remove"
    /\ Goto(j, "open")
    /\ UNCHANGED <<clock, daily, now, file, job, reading, alone, harm>>

Remove(j) ==
    /\ pc[j] = "remove"
    /\ now' = Missing
    /\ Goto(j, "open")
    /\ UNCHANGED <<clock, daily, job, reading, alone, harm>>
    /\ file' = Kept(file)

\* Creates now.csv, or opens the one another job has created since.
Open(j) ==
    /\ pc[j] = "open"
    /\ \/ \E i \in Inodes \ Used :
            /\ now = Missing
            /\ now' = i
            /\ job' = [job EXCEPT ![j].fd = i, ![j].next = 0]
            /\ Goto(j, "write")
            /\ UNCHANGED <<file, harm>>
       \/ /\ now # Missing
          /\ job' = [job EXCEPT ![j].fd = now, ![j].next = 0]
          /\ Goto(j, "write")
          /\ UNCHANGED <<now, file, harm>>
       \/ /\ Exit(j)
          /\ harm' = TRUE
          /\ UNCHANGED <<now, file>>
    /\ UNCHANGED <<clock, daily, reading, alone>>

\* The files with rows next, ..., to of the curve a job has read at the end of
\* its own.
Appended(j, to) ==
    [file EXCEPT ![job[j].fd] = @ \o Stretch(job[j].curve.day, job[j].next, to)]

\* Mutant: one row more.
LastAndOne(j) == job[j].minutes + 1

\* The row the loop ends at; with a cooked.csv that is not whole yet it runs off
\* the rows there are before.
Last(j) == job[j].minutes
Short(j) == job[j].curve.len <= Last(j)

\* Mutant: the row that does not fit into the buffer is dropped.
FlushDrops(j) ==
    LET to == job[j].next + BufferRows - 1
    IN  /\ pc[j] = "write"
        /\ to < Last(j) /\ Last(j) < job[j].curve.len
        /\ file' = Appended(j, to)
        /\ job' = [job EXCEPT ![j].next = to + 2]
        /\ UNCHANGED <<clock, daily, now, pc, reading, alone, harm>>

\* The buffer is full.
Flush(j) ==
    LET to == job[j].next + BufferRows - 1
    IN  /\ pc[j] = "write"
        /\ to <= Last(j) /\ to < job[j].curve.len
        /\ file' = Appended(j, to)
        /\ job' = [job EXCEPT ![j].next = to + 1]
        /\ UNCHANGED <<clock, daily, now, pc, reading, alone, harm>>

\* The rows that are left are written when the file is closed.
Close(j) ==
    /\ pc[j] = "write"
    /\ ~Short(j) /\ Last(j) < job[j].next + BufferRows - 1
    /\ Exit(j)
    /\ harm' = IF now = job[j].fd THEN FALSE ELSE harm
    /\ UNCHANGED <<clock, daily, now, reading, alone>>
    /\ file' = Kept(Appended(j, Last(j)))

\* time[i] past the end of the vector: the program dies, and its buffer with it,
\* or goes on with whatever is there.
RunOff(j) ==
    LET n == job[j].curve.len
        more == [Appended(j, n - 1) EXCEPT ![job[j].fd] = Append(@, Junk)]
    IN  /\ pc[j] = "write"
        /\ Short(j) /\ n < job[j].next + BufferRows
        /\ Exit(j)
        /\ harm' = TRUE
        /\ UNCHANGED <<clock, daily, now, reading, alone>>
        /\ file' = Kept(file) \/ (n > 0 /\ file' = Kept(more))

-----------------------------------------------------------------------------
(* price_now. *)

\* Without a file rapidcsv throws, and nothing is open.
OpenToRead(r) ==
    /\ reading[r] = Missing /\ now # Missing
    /\ reading' = [reading EXCEPT ![r] = now]
    /\ UNCHANGED <<clock, daily, now, file, pc, job, alone, harm>>

\* What the rows of a file come to: the last one's price. back() of no rows at
\* all is undefined.
Undefined(rows) == rows = <<>>
LastRow(rows) == rows[Len(rows)]

\* The length of the file is taken once and read to; the answer is the last row.
PriceNow(r) ==
    /\ reading[r] # Missing
    /\ reading' = [reading EXCEPT ![r] = Missing]
    /\ UNCHANGED <<clock, daily, now, pc, job, alone, harm>>
    /\ file' = Kept(file)

-----------------------------------------------------------------------------
Step(j) ==
    \/ Generate(j) \/ RemoveCooked(j) \/ OpenCooked(j) \/ WriteCooked(j)
    \/ ReadHour(j) \/ ReadMin(j) \/ Parse(j) \/ Remove(j) \/ Open(j)
    \/ Flush(j) \/ Close(j) \/ RunOff(j)

\* The clock is at its bound.
Waiting ==
    /\ day = LastDay /\ minute + 1 \notin Minutes /\ Idle = Jobs
    /\ UNCHANGED vars

Next ==
    \/ Minutely
    \/ Midnight
    \/ \E j \in Jobs : Step(j)
    \/ \E r \in Readers : OpenToRead(r) \/ PriceNow(r)
    \/ Waiting

Spec == Init /\ [][Next]_vars

-----------------------------------------------------------------------------
Rows == [day : Nat, minute : Nat] \union {Junk}
Curves == [day : Nat, len : 0 .. DayRows]
Locals == [hour : 0 .. Hours - 1, minutes : Minutes, curve : Curves, fd : Inodes \union {Missing},
           next : 0 .. DayRows]
Calls == {"generate", "removeCooked", "openCooked", "writeCooked", "hour", "min",
          "parse", "remove", "open", "write"}

\* Every variable keeps its type: a job never computes a minute outside the day,
\* also when the hour turns between the two calls of date.
TypeOK ==
    /\ day \in Nat /\ minute \in Minutes
    /\ raw \in Nat
    /\ cooked \in Curves \union {Missing}
    /\ now \in Inodes \union {Missing}
    /\ file \in [Inodes -> Seq(Rows)]
    /\ pc \in [Jobs -> Calls \union {"idle"}]
    /\ job \in [Jobs -> Locals]
    /\ reading \in [Readers -> Inodes \union {Missing}]
    /\ alone \subseteq Jobs
    /\ harm \in BOOLEAN

\* A row that is not of a minute to come.
Past(row) == row # Junk => row.day < day \/ (row.day = day /\ row.minute <= minute)

\* No file that price_now can have open has the price of a minute to come: not
\* when the hour turns between the two calls of date, and not when several jobs
\* write one file.
NoFuturePrice == \A i \in Used : \A k \in DOMAIN file[i] : Past(file[i][k])

\* price_now finds a price unless some job is between the removal of now.csv and
\* its first buffer, or one has died there.
Served ==
    \/ harm
    \/ now # Missing /\ ~Undefined(file[now])
    \/ \E j \in Jobs : \/ now = Missing /\ pc[j] = "open"
                       \/ now # Missing /\ pc[j] = "write" /\ job[j].fd = now

\* However many jobs append to one file, each of its rows has the row of the
\* minute before it somewhere above: a chart of it has no holes.
NoHoles ==
    \A i \in Used : \A k \in DOMAIN file[i] :
        LET row == file[i][k]
        IN  row # Junk /\ row.minute > 0 =>
              \E l \in 1 .. k - 1 : file[i][l] = Row(row.day, row.minute - 1)

\* A job that no other job has overlapped leaves exactly the rows up to the
\* minute it has computed, of the one day it has read.
AloneIsExact ==
    [][\A j \in alone :
         pc[j] = "write" /\ pc'[j] = "idle" /\ ~harm' =>
           /\ now' = job[j].fd
           /\ file'[now'] = Stretch(job[j].curve.day, 0, job[j].minutes)]_vars

\* The "every minutes (for minutely price generation)" of the comment in
\* price_gen_minutely.sh: a run that is not overlapped and ends within its
\* minute leaves the price of that minute as the last one.
EveryMinutePublished ==
    [][\A j \in alone :
         pc[j] # "idle" /\ pc'[j] = "idle" /\ ~harm' =>
           now' # Missing /\ LastRow(file'[now']).minute = minute]_vars
===================================================================================
