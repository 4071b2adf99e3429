# CashCrow in TLA+

CashCrow is a mock stock exchange: a Crow web server (`src/main.cpp`), one `db::DBConnection`
(`src/db/db.hpp`) shared by all its threads, a PostgreSQL schema with two triggers
(`src/db/init.sql`) and price files that cron jobs rewrite (`src/price`). This directory holds TLA+
models of it, TLC configurations that check them on small instances and TLAPS proofs of the
properties that can be proved for every instance.

## The system

| Part | State | Operations | Hard behaviour |
| --- | --- | --- | --- |
| Money transfers, `/profile_action` (main.cpp 364-452) | `account_info`, `bank_account` | deposit, withdraw: check, then two transactions | check-then-act across transactions, half-done transfers, an UPDATE that matches no row, amounts whose sign nobody checks |
| Trading, `/trade` (main.cpp 533-610) | `owned_stock`, `avg_price`, `trade_history`, `account_info` | buy: eight transactions after the session; sell: six | the same, plus averages computed from stale reads and read back as integers |
| Owned-stock poll, `/owned_stocks` (main.cpp 509-531) | none | a read every two seconds per open page | takes the shared connection from handlers in the middle of a trade |
| Shared connection (db.hpp 48-59, 244-276) | one registered transaction, alive or not | open a `pqxx::work`, execute, commit | opening throws while another is registered; a broken connection is never reopened; a commit can be in doubt |
| Registration, `/register` (main.cpp 687-787, init.sql 56-86) | `account_security`, `account_info`, `bank_account` and their sequences | insert with two triggers | sequences that are never rolled back |
| Login and sessions (main.cpp 71-187, db.hpp 70-149) | `session` rows, the cookie store's `sid` | authenticate, logout, the guard of every page | duplicate sessions, a row written outside its transaction |
| Session reaper (db.hpp 278-295) | a second connection | delete expired rows every second | runs between a handler's two reads of its session; an exception in it ends the process |
| Password change (main.cpp 293-362) | `account_security` | update salt and hash | concurrent login |
| Balance view, `/getUserFinancialData` (main.cpp 229-271) | none | two reads in two transactions | a transfer between them |
| Portfolio, `/api/stocks` (main.cpp 632-677, db.hpp 13-30) | none | join of two reads, one `price_now` per row | a purchase between the reads; rows with zero shares |
| Price feed (`src/price`, main.cpp 37-42) | `raw*.csv`, `cooked*.csv`, `now*.csv` | daily and minutely jobs, `price_now` | files removed and rewritten in place under readers and other writers, twice at once at midnight |
| The process | handlers, the connection, the cookie store | it dies and is started again | what is cut off, and what clients and tables still say of each other afterwards |

All worker threads call the one `DBConnection`; the handlers declare `std::mutex` objects, but as
locals (main.cpp 371, 561), so no thread ever waits for another. The only things two requests share
are the tables and the connection on which at most one transaction can be registered. Prices come to
the handlers and to the pages through the files only; the jobs that write them share nothing else
with the server. Nothing reopens a connection that broke, and nothing ends a server in good order:
`trade` is a static object whose destructor sets the flag its thread loops on and joins it (db.hpp
251-255), so it never returns, and every stop is a kill.

## The modules

| Module | What it is | Code |
| --- | --- | --- |
| `Brokerage` | transfers, trades and the poll on worker threads over one connection | main.cpp 364-452, 509-610, db.hpp 161-249, init.sql 3-48 |
| `BrokerageProperties` | its invariants, the overdraft bound, the mapping to `Exchange` | |
| `Exchange` | the abstract promise: transfers and trades are atomic and affordable | |
| `MCBrokerage` | instances for TLC: the symmetry of the threads and the stand-in for `INT_MIN` | |
| `BrokerageProofs` | theorems about the types, the answers and the order of the writes of `Brokerage` | |
| `LedgerProofs` | facts about sums and extrema over finite sets; the books of `Brokerage` balance | |
| `OverdraftProofs` | how far below zero `Brokerage` lets a balance fall | |
| `ExchangeProofs` | for one thread, `Brokerage` implements `Exchange`; averages stay within the prices while no share count is below zero | |
| `Registration` | `/register`, both triggers and both sequences, with its properties | main.cpp 687-787, init.sql 3-23, 56-86 |
| `RegistrationProofs` | theorems about `Registration` | |
| `Server` | `Brokerage` composed with the two requests that only read and with restarts of the process | main.cpp 229-271, 632-677, 789, db.hpp 13-59, 161-174 |
| `ServerProperties` | its type, the truth of the views, liveness | |
| `MCServer` | an instance for TLC: the stand-in for `INT_MIN` | |
| `ServerProofs` | theorems about `Server`, from the invariants of the three modules on `Brokerage` | |
| `Sessions` | login, logout, guards, password change, session table, reaper | main.cpp 71-362, db.hpp 70-149, 261-295, init.sql 50-54 |
| `SessionsProperties` | its invariants, action properties and liveness | |
| `MCSessions` | instances for TLC: the symmetry | |
| `SessionsProofs` | theorems about `Sessions` | |
| `PriceFeed` | the files of one company, the jobs of cron and `price_now`, with their properties | `src/price`: the two scripts, the two programs and `cron-jobs`; main.cpp 37-42, Dockerfile 52-56 |
| `MCPriceFeed` | instances for TLC: the symmetry | |
| `PriceFeedProofs` | theorems about `PriceFeed` | |

`Registration` says which users have no balance row; that set is the constant `Orphans` of
`Brokerage`. `Sessions` says that a handler acts for the user of its client (`ActsForOwnUser`);
`Brokerage` takes that user as given and has one `SidToUid` step for the whole lookup. So the
modules split the system along the calls of a handler: first the session, then the money. `Server`
puts the readers next to the writers of `Brokerage`: its `StartHandler` and `Handle` are
`Brokerage`'s own `Start` and `Work`, which leave the views alone. `PriceFeed` says when `price_now`
has a price (`Served`); `Brokerage` and `Server` let a handler that asks for one succeed or throw.

### How a handler becomes actions

A method of `DBConnection` is two steps. `Open(p)` constructs the `pqxx::work`: libpqxx registers
one transaction per connection, so it succeeds only when `txn = Free`, and `Refused(p)` is the
exception otherwise. The action named after the method is the statement and its commit. `pc[p]`
names the call a worker makes next. Between two calls any other thread may run, and with it anything
the locals (`local[p]`) say about the tables may become stale. The exceptions a handler catches, and
those Crow catches for it, are one outcome, `"error"`: status 500.

`Brokerage` has three variables for what the code keeps nowhere: `done[p]`, the writes of a request
that reached the tables; `settled[u]`, what the requests workers have left behind add up to; and
`started`, which bounds a behaviour. `Aborted` is a connection that breaks under a call, with the
commit made or not (when the call is a view's in `Server`, it is the view that fails);
`LoseConnection` is one that breaks between calls. Nothing reopens it, as
nothing in db.hpp does.

A transfer asks for an amount of either sign. `/trade` refuses what is not positive (main.cpp 553);
`/profile_action` compares the amount with a balance only (401, 426), and the check for a negative
one is in the page's script (`account-management.js` 55), which is not the server's. So `Amounts` is
a set of integers. The accountId of a form may be one of the user's two banks or anything else
(`OtherAccounts`): `SelectFromBankAccount` takes the two rows in either order, as the query has no
ORDER BY, and a name that is not the first row's means the second (394-399). A form that holds no
number throws there (`stof`, `stoi`).

In `Sessions`, `tryInsertSession` is three actions, because that is how it runs: its `w.commit()`
inside the loop (db.hpp 108) ends and unregisters the transaction, after which `exec_prepared` sends
the INSERT over the bare connection. libpqxx lets it (it checks for a closed transaction in `exec`,
not in `exec_prepared`, and accepts a second commit with a notice). `InsertSession` therefore writes
to `sessions` when no transaction is open and to `pending` when another thread has one; that
thread's `Commit` or `Abort` decides about the row. The reaper sees `sessions` only: it has a
connection of its own. The table has no key, so two rows may be alike: a row carries the worker that
inserted it (`by`), which nothing reads, and two equal sessions stay two rows.

`Registration` has one action per outcome of the INSERT, for PostgreSQL runs it and its triggers as
one transaction: refused for a taken name after the id was taken, committed, or rolled back at each
point where a sequence may already have moved. When the connection breaks before an answer arrives
the client is told of an error, whether the name was refused or committed.

In `Server`, a view is a record that walks from call to call as the `pc` of a handler does (`at`)
and holds what the code has in locals by then. `averages` is the set of rows of `avg_price`, which
`Brokerage` does not need: the portfolio joins on them. `overlaps` is a history variable, the
transfers that ran between the two reads of the balances. `Restart`, here and in `Sessions`, is the
end of the process at any point and its next start: the tables are as the last commit left them, and
handlers, cookies, the connection and its transaction are new.

`PriceFeed` models `now.csv` as a path to an inode, because a file that one job has removed lives on
for the job or the reader that has it open, and because an append by two jobs to one inode
interleaves. Each removal, creation and flushed buffer is a step. An `ofstream` writes its buffer
when it is full: it is `BufferRows` rows here, so a buffer ends at a row's end. `raw.csv` and
`cooked.csv` have one writer each and are records: `cooked` is the first `len` rows of a day. The
clock is a minute and a day; `Minutely` and `Midnight` are cron starting the scripts, and a job
reads the clock twice, in `ReadHour` and `ReadMin`, as the script calls `date` twice. cron starts
the scripts with `sh`, to whose arithmetic 08 and 09 are invalid octal numbers (`Illegal`). When the
container starts, the files are those of the image, built some time before (`Init`).

### What the models leave out

- `Brokerage`: float4 rounding and int overflow. Money is a number of units, `Dollar` to the dollar,
  and an average an exact quotient, truncated to whole dollars when it is read, as db.hpp 184 does.
  The one undefined conversion that can be reached (an infinite or NaN average to int) is the
  constant `Indefinite`. An amount that `stof` reads as an infinity or NaN is left out as well: it
  would leave the integers for good.
- The order in which two threads touch libpqxx's own fields. Registering a transaction is atomic
  here; in the program it is a data race with a narrow window. Likewise the bare INSERT of a login
  and another thread's statement follow one another.
- A backend killed in the middle of a statement, a libpq call that never returns, the jump a
  PostgreSQL sequence makes after a crash.
- `Sessions`: a connection that breaks (`Brokerage` and `Server` have that), and the header and
  character checks of `/authenticate` that answer before its first call. The cookie store is Crow's:
  a client is one of its sessions. A sid is drawn at most once unless `Collide` is set (32
  characters of 76).
- `Server`: the products of a portfolio row and the text of its body, of which only the kind is
  kept: a list, nothing, or the lone bracket that is left when no row has shares (main.cpp 664-672).
  Both views look the session up as one step.
- `PriceFeed`: prices themselves, a buffer that ends in the middle of a row, more than one company
  (their files share nothing), and, in every run and theorem, a job that is still at work at
  midnight: `Straddle = FALSE` says it is not, which leaves it a minute after its start for writing
  at most 1440 rows.
- The texts of pages and messages, salts and hashes (a hash stands for its password), and everything
  listed as not modelled in `PROJECT.json`.

## The runs

| Run | Configuration | Bounds | Shows |
| --- | --- | --- | --- |
| `two_threads` | BrokerageThreads | two threads, a user and one without a balance row, four requests, amounts -1 and 3, a connection that may break | `TypeOK`; `BooksBalance`: increments are never lost or misdirected; `ReplyIsTruthful`, `WritesInCodeOrder`, also for the user without a row; `OverdraftBound`: how far stale checks and negative transfers let balances fall |
| `one_thread` | BrokerageOneThread | one thread, a user, two prices, up to two shares, amounts -8, 2 and 6, an accountId of neither bank, four requests, the poll among them | `BooksBalance`, `AverageWithinPrices`, `ChecksHold`, and that `Exchange` is implemented |
| `overdraft` | BrokerageOverdraft | two threads, three requests | violates `NoOverdraft` |
| `failures` | ServerFailures | two threads, a user, three requests out of transfers, purchases and both views, a connection that may break and a process that may die, any number of times | `ServerTypeOK`, `BooksBalance`, `OverdraftBound`, `ReplyIsTruthful`, `WritesInCodeOrder`, `AverageWithinPrices`, `PortfolioIsComplete`, `BalancesNearTruth`, `EveryRequestEnds` |
| `registration` | Registration | three names, six INSERTs | six properties of ids, balance rows and bank accounts |
| `registration_orphan` | RegistrationOrphan | the same | violates `EveryUserHasAccount` |
| `sessions_threads` | SessionsThreads | two threads, two clients, two users, three requests, restarts | `TypeOK`, `ActsForOwnUser`, `HeldSidsAreCommitted`, `LostOnlyByRollback`, `LoginSticks` |
| `sessions_one_thread` | SessionsOneThread | one thread, four requests, restarts | `OneSessionPerUser`, `SessionIsKept` |
| `sessions_liveness` | SessionsLiveness | two threads, two sids that may repeat, three requests, restarts | `EveryRequestAnswered`, `LockoutEnds` |
| `two_sessions` | SessionsTwice | two logins | violates `OneSessionPerUser` |
| `price_feed` | PriceFeed | two jobs at once, a reader, days of six minutes with an illegal one in three, buffers of two rows, one midnight | `TypeOK`, `NoFuturePrice`, `Served`, `NoHoles`, `AloneIsExact` |
| `price_minutes` | PriceMinutes | an hour of ten minutes, one job at once | violates `EveryMinutePublished` |

Why these bounds are enough to be interesting: a race needs two threads in one user's data, and a
purchase needs a deposit before it and two purchases to race, so three requests reach the overdraft
and four leave room for a third party (a request that refuses a call, a withdrawal of what a sale
earned). A negative amount needs nothing before it. What four requests do not reach is the division
by zero of main.cpp 579: two sales must race and a fifth request buy as many shares. `failures` has
positive amounts only, for the sake of its size: the theorems of `ServerProofs` are about both
signs. Bank accounts and prices are small numbers, chosen so that one request can be afforded and
two cannot, and one price is not a whole number of dollars so that truncation shows. Six INSERTs let
each kind of failure come before, between and after registrations. A session takes a login, a
request that uses it, and one that interferes. A view needs two writers' steps between its reads, or
a writer and a restart; the third request of `failures` is there for what an earlier one has left.
Two jobs are what cron starts at once at midnight; a day of six rows is long enough for a job to
fill its buffer, be overlapped and fill it again, and for the hour to turn between the two calls of
`date`. Three inodes are enough: where a job creates a file, only the other job and the reader can
hold one. The instances of a run are closed under renaming of what its `SYMMETRY` permutes; no run
that checks liveness uses symmetry.

Deadlock is checked in every run: a server whose requests are all answered waits (`Waiting`,
`ServerWaiting`), so do the jobs when the clock is at its bound, and nothing else may stop.

### Fairness

`FairServerSpec` of `Server` is weak fairness of each worker's steps, of handlers and views: a
thread that can go on does. Nothing a handler does blocks on another thread (its mutex is its own,
and a busy connection throws), so this is no more than the scheduler gives. No client is obliged to
send a request, the connection need not break and the process need not die. `FairSpec` of `Sessions`
adds weak fairness of `Expire`, for clocks run, and of the reaper's loop, which wakes once a second.
Both are needed: a login that has drawn a taken sid looks the same sid up until its row is gone
(db.hpp 105-109), and a user with two sessions cannot log in until both are. `PriceFeed` has no
liveness property: nothing watches whether a job succeeds.

## What the runs found

1. `overdraft`: two purchases on two threads both pass the balance check (main.cpp 564) before
   either pays (583). The mutex at 561 is a local variable. `OverdraftBound` says that the damage is
   one request per rival thread, for at any time all threads but one may be acting on a spent
   balance, and what negative transfers have taken besides.
2. `registration_orphan`: `insert_account_info` (init.sql 56-64) takes the id of the balance row
   from its own sequence. After one registration refused for a taken name the ids of users run ahead
   of those of balance rows, and a new user has no balance row until somebody else registers. For
   such a user a deposit debits the bank, updates no row and answers "Successfully deposited".
   `ReplyIsTruthful` excuses that one write (`Effects`) and no other, for such a user too.
3. `two_sessions`: two logins of one user leave two rows, and `uidToSid`, which takes exactly one,
   throws for every login until both expire. `LockoutEnds` says that they do.
4. `price_minutes`: in the minutes 08 and 09 of every hour, and in all of the hours 08 and 09,
   `price_gen_minutely.sh` ends at line 16, and nothing replaces the price of the minute before.

A fifth divergence needs no trace: a deposit of a negative amount passes `check >= amount_float`
(main.cpp 401) and takes the amount from the cash, a withdrawal of one (426) from the bank account,
whatever is there, with one thread. So no run claims `NoOverdraft` to hold. `ChecksHold` says what
one thread does keep (whatever is taken leaves nothing below zero unless a negative transfer takes
it), `OverdraftBound` counts negative transfers on top of the races, and the theorem about
`NoOverdraft` assumes both one thread and `Amounts \subseteq Nat`.

What holds, and is less than one might expect:

- A session inserted after its own transaction ended (db.hpp 108-112) can be rolled back with
  another thread's. `LostOnlyByRollback` says that this happens only when that thread's own request
  fails or the process dies, and `HeldSidsAreCommitted` that no client has been given the sid by
  then.
- The average price is read through an `int` (db.hpp 184), so a purchase averages over a truncated
  average. `AverageWithinPrices`: the average never exceeds the highest price, and the dollars lost
  never add up to more than one, also when purchases race and average over what the other has
  already changed. Only a share count below zero breaks it, which takes two sales on two threads.
- `BalancesNearTruth`: the profile page reads in two transactions and can show money twice or not at
  all, but no more than one transfer's worth for each transfer that ran meanwhile.
- `PortfolioIsComplete` holds only because a purchase writes the average before the shares, and
  because no code deletes a row of `avg_price`.
- `LoginSticks`: nobody loses a session in the table by another client's request. A request of the
  same client can take it, and not only a logout: one that came with an older sid, has found no
  session for that and now removes the sid (main.cpp 87) that a login of the client has set
  meanwhile.
- `Served`, `NoFuturePrice`: two jobs may append to one `now.csv`, whose rows then go back and forth
  between two minutes or two days, so the last row may be an old one; it is never one of a minute to
  come.

## The proofs

All theorems are about any number of threads, users, companies, jobs and requests, amounts of either
sign, and any days and buffers that the assumptions of the modules allow. Those say that Crow runs
some threads, and finitely many (`WorkersAssumption`), and that the amounts, shares and prices a
request can name are finite sets, as those of the program's integers and floats are
(`NumbersAssumption`): a largest debit exists. Each theorem rests on an inductive invariant:

- `BrokerageProofs`. `TypeInv` is `TypeOK` with `Serving`: a busy worker is at a call of the handler
  of its request. Without it, a step may read a field its request does not have. `TypeSafe` follows.
  `AccountedInv` adds which writes are done at each call of each handler; with it a success implies
  all of them and a refusal none, which is `RepliesAreTruthful`, and what is done is a prefix, which
  is `TornInOrder`; for a user without a balance row, the UPDATE that finds none is left out of
  both. `CoveredInv` says that the value a handler checked is still in the table when it debits it,
  which holds for one thread: `OneThreadChecksHold` assumes `Workers = {w}`, and `overdraft` shows
  why. `OneThreadNoOverdraft` follows from it when no amount is negative.
- `LedgerProofs`. The sum over a set is a recursion in the order `CHOOSE` takes its elements. That
  the order does not matter, so that one element can be changed, added or dropped (`SumChanges`,
  `SumAdd`, `SumRemove`, `SumSame`), and that a finite set has a maximum is proved without an
  induction over sets: of the sets that refute the claim take a smallest one, and remove an element.
  `BooksInv` says of each column (cash, a bank account, a position) that it is what is settled plus
  one term for every thread (`MoneyTerm`, `MovedTerm`, `DeliveredTerm`), and of each thread that the
  writes it has made are writes of its kind of request, and that a transfer writes the bank account
  its request names when that is one of the user's (`Booking`). One thread's step changes one term
  (`BooksMove`). `BooksBalance` sums over the writers only, so `BooksInvBalances` drops the terms
  that are zero. `BooksAlwaysBalance` is the result, with breaks of the connection and orphans.
- `OverdraftProofs`. A balance that a check has just found large enough and one that all threads
  have spent look the same, so the bound is not inductive. `BackedInv` adds who may still debit a
  balance: its holders, the threads past their check of it. While it has `h` holders out of `N`
  threads, one of them, not each, finds what it needs but for the largest debits of the `N - h`
  others. A check makes a thread that holder; a debit costs at most one largest debit and leaves
  one holder less (`BackedMoves`, from the steps a handler can make of a balance, `Fair`). Without
  a holder, or with any number, the bound of `N - 1` debits follows. Negative transfers are kept
  apart: `BackedInv` is about a balance with a `LargestReversal` given back for every request that
  can no longer take one (`Taken`), so that their writes move it up or leave it, and requests not
  counted yet (`CountedInv`) make up the term of `OverdraftBound`: `OverdraftIsBounded`.
- `ExchangeProofs`. `OneThreadIsAnExchange` is the refinement: the tables less the
  writes of the request in progress start as `Exchange` does and change only when the request ends
  (`WholeMoves`), then by one `Deposit`, `Withdraw`, `Buy` or `Sell` whose guard is what the handler
  checked earlier (`CoveredInv` of `BrokerageProofs`) at a price of the feed (`PricedInv`). It
  assumes a balance row for every user and a connection that holds: otherwise a request can end with
  half of its writes, which is no step of `Exchange`, and with two threads a guard may be false at
  the answer, as `overdraft` shows. `AveragesOfShares` bounds the average price for any number of
  threads: `AveragedInv` says that an average is a proper quotient between the lowest price cut to
  the dollar and the highest, and that a purchase past its read of the average holds one in its
  locals, though not the one the table has by then (`AverageOf`, `DivBounds`). It assumes that no
  share count is below zero (`[]SharesCovered`): two racing sales can take one there, and a purchase
  of as many shares then divides by zero. `OneThreadAverages` and `BuyersAverages` are the two cases
  in which the assumption is a theorem: one thread, and no sales.
- `RegistrationProofs`. `Inv` relates both sequences, the rows they made and the number of refused
  duplicates. `RegistrationTypeCorrect`, `Drift`, `Aligned`, `BanksBelong`, `Distinct` and
  `FreshBalance` are its consequences; the last is an action property.
- `SessionsProofs`. `TypeInv` is `TypeOK` with the call of each handler (`Serving`) and what a login
  holds at each of its steps (`LoggingIn`). `OwnInv` follows a sid around: a sid in the table, in a
  cookie or in a handler has been drawn (`drawn`); a sid about to be inserted is held by nobody else
  (`Fresh`); rows with the same sid have the same user; and whatever sid a client or its handler
  holds stands for users that client has given the password of. `ClientsActForThemselves` is the
  result, for `Collide = FALSE`. The proof has a frame lemma for steps that insert no row (`Frame`,
  `SameSid`) and one of its own for the INSERT. `HeldSidsCommitted` adds that a sid about to be set
  is of a row in the table. `SessionsLostByRollback` is about single steps and needs the types only.
  `OneThreadInv` (a worker at `insertSession` has just seen no session of its user, and rows wait
  for nobody's commit) gives `OneThreadOneSession` and `OneThreadKeepsSessions`; `two_sessions`
  shows why one thread is assumed. `Sticks` (a worker removes a sid for a logout, or having found no
  row with the sid it came with, and since that was drawn before, no row will have it again) and
  `UniqueSids` give `LoginsStick`, for any number of threads and `Collide = FALSE`.
- `ServerProofs` carries the invariants about `Brokerage` over: a step of a handler is a step of
  `Brokerage`, a view moves `txn` alone, and `Restart` drops what is in progress, which leaves every
  invariant about the writes made so far true (`Aside`, `HandlersInv`). So replies stay truthful,
  torn requests in order, the books balanced and the overdraft bounded when the process dies at any
  call. `PortfolioInv` is what the portfolio rests on: whoever has a row in `owned_stock` has one in
  `avg_price`, a purchase about to write the first has written the second (`PricedFirst`), and what
  a view has read is still in the tables (`ViewRead`), which is `PortfolioComplete`. `ViewInv` types
  what a view holds, which gives `ServerTypeCorrect`. `BalancesAreNear` is about the two reads of
  the profile page: the bank total a view has read is off the truth by no more than the transfers it
  has overlapped, less one for each that can still move it (`NearInv`). Without that reserve the
  invariant would not survive the write of a transfer counted earlier.
- `PriceFeedProofs`, all for `Straddle = FALSE`. `TypeInv` is `TypeOK` with what a job knows at each
  call: one job of the day's curve at most (`OneDaily`), an hour that is not ahead of the clock
  (`HourRead`) and a file and a next row within the curve while it writes (`Writing`). `FilesInv`
  has no row, curve or job ahead of the clock (`NothingAhead`), each row linked to the one before
  it, and each job's next row to the last it has written (`AllLinked`), and `Served`. They are one
  invariant since a job may go on in a file another has written. `AloneInv` says that a free inode
  is empty and that what an undisturbed job has written is the stretch up to its next row.

Every invariant and every safety property of a step that a passing run checks is stated by a
theorem. Only model-checked: `AverageWithinPrices` through restarts (the theorems are about
`Brokerage`), liveness (`EveryRequestEnds`, `EveryRequestAnswered`, `LockoutEnds`), which is out of
the proof system's reach, and the violations of the four runs that find one.

## Not modelled

- Third-party code in the repository: asio (`src/include/asio`), rapidcsv, Crow's headers and the
  AnyChart scripts. asio alone is more than nine tenths of the repository's lines and CashCrow does
  not call it except through Crow, so the share of all lines that the models cover stays small
  whatever is modelled. Of the program's own code (`main.cpp`, `db/db.hpp`, `db/init.sql`,
  `src/price`) every handler that changes state is modelled. libpqxx, the kernel's files and
  `ofstream` are modelled from their use and marked external.
- `crypto.cpp` and `rand.cpp`: calls into OpenSSL and the standard generators, without state of the
  program's own.
- The pages and scripts of `src/html`: what they send is the input of the handlers.
- The image build, and the data in `src/price/csv`.
- The destructor of `DBConnection`, which never returns: it runs after the last request, and the
  kill that ends it is `Restart`. The flag of the worker thread (`init` stores false before
  `setInterval` stores true) never stops it otherwise.
- float4 rounding, int overflow and the text of the portfolio, as said above.

## Plan

1. Done: `Brokerage`, `Exchange`, `Registration`, `Sessions`, `PriceFeed`, `Server`, with their
   proofs.
2. Done: the theorems about sums, the overdraft, the averages, the refinement and the two views.
3. Solvency of `Exchange` itself; an `EveryMinutePublished` that excludes `Illegal`.
4. Registration composed with `Server`, orphans arising by themselves.
