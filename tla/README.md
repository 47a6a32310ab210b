# TLA+ verification of the business app and its personal book

This directory models the parts of the repository where several actors share state, or where one operation must undo
what another did, and where a mistake costs an order, an appointment or a wrong balance: the booking times, the owner's
appointment book, the online shop (server, customers, the owner's phone and the network between them), sales and stock,
the way of a bank's SMS into the book, money shared in groups and funds, an account's balance against the bank's
statements, what is owed and settled, and the paper-trading session of the server.
TLC checks small instances; TLAPS proves the main results for every value of the constants. Paths below are relative to
`src/`.

## 1. The system

The application is a Next.js app whose server keeps state only in Redis, whose personal book lives in one browser's
`localStorage`, and whose Android shell reads bank messages.

| Component | State | Operations | Interacts with | Hard behaviour | What makes it correct |
|---|---|---|---|---|---|
| Booking times, `lib/biz/slots.ts` | none | `clash`, `fits`, `freeSeat`, `withinHours`, `availableSlots` | book, server, pickers | counts over a whole duration, bookings without a seat, the last slot of a window | what is offered is accepted; what fits has a seat |
| Booking book, `lib/biz/ops.ts`, `BookingView.tsx`, `voice.ts` | bookings, seats, shifts | add, move, seat, finish, cancel, undo, seat on/off/delete | local book, inbox | any sequence of operations | nobody is double-booked, capacity is kept |
| Sales and stock, `lib/biz/ops.ts` | orders, stock, day rows, credit | confirm, cancel, delete, pay | personal book | operations that must undo each other | stock and money agree with the orders |
| Online shop server, `lib/biz/server.ts` | Redis keys `biz:owner/pub/inbox/item/ref/lock/index` | `submit`, `publish`, `unpublish`, `pull`, `setRefStatus`, `directory` | customers, phone, Telegram bot | handlers interleave between any two commands; lost answers; killed functions; TTLs | one booking per time, nothing accepted is dropped, a slug has one owner |
| Store, `lib/store.ts` | Redis | `get`, `set`, `setNx`, lists, counters | everything on the server | retries of commands whose answer was lost | a command sent twice does what one does: so for `SET NX` under the check that follows and for the list's copies, not for the release of a lock or the overwriting of a status |
| Online shop on the phone, `BizSync.tsx`, `lib/biz/online.ts`, `FinanceProvider.tsx` | the book in memory and in `localStorage`, `seen` ids, hash of what was published | collect, apply, acknowledge, republish, report status | server | calls that were handled although they failed, restarts, full storage | exactly once, nothing lost, the server shows the truth |
| Telegram shop bot, `lib/telegram/biz.ts` | a dialogue per chat | calls `submit`, `directory` | server | abandoned dialogues | same as the web page |
| Paper trading session, `lib/paper.ts`, `lib/learning.ts` | active session, history, learnt parameters, lock | start, tick, stop, archive | scheduler, visits, Telegram | overlapping ticks, a lock with a time limit, a crash inside archive | each fill once, one active session, a session is archived once |
| Swing and futures sessions, `lib/swing-live.ts`, `lib/engine/futures-account.ts` | as above, or on the device | start, tick, stop | same | same | same |
| SMS pipeline, `lib/finance/phone-sms.ts`, `sms-ask.ts`, `sources.ts`, `SmsAsk.java` | last message read, questions and answers, queue, what was booked or ignored | read, ask, answer, apply, clear | Android, book | overlapping readers, app killed between mark and book | each message in the book once, none lost |
| Finance book, `lib/finance/actions.ts`, `fund.ts`, `split.ts`, `lending.ts` | rows, loans, bills, incomes, groups, funds | settle, pay, link, undo, delete | everything local | rows that belong to several records | sums agree after any sequence, nothing is settled twice |
| Balances, `lib/finance/balance.ts`, `sources.ts` | opening balance, the bank's statements, the card's account | read, link, book, type a balance, answer a check | queue, book | statements out of order, rows known by day only, the same movement in the queue and the book | what is shown is the bank's; what is asked about is what is missing |
| Source cache, `lib/sources/cache.ts`, `lib/snapshot.ts` | a copy per instance and in Redis | read through, write back | feeds | several instances | never older than promised |
| Engines, voice, charts, exchange link, alerts | none, or forms | numerical functions, parsing, rendering | | | outside TLC's reach or pure I/O |

`PROJECT.json` has the hazards of each component, line by line; the properties below are for them.

## 2. Modules

```
Slots ── BookingBook ── MCBookingBook          BookingBookProofs
  ├──── Desk ─┐ (abstract)
  ├──── ShopServer ── MCShopServer             ShopServerProofs
  └──── OnlineShop ── MCOnlineShop             OnlineShopProofs
BizSales ── MCBizSales                         BizSalesProofs
SmsInbox ── MCSmsInbox                         SmsInboxProofs
PaperSession                                   PaperSessionProofs
SharedMoney ── MCSharedMoney                   SharedMoneyProofs
StatedBalance ── MCStatedBalance ─┐
Obligations ──────────────────────┴            FinanceProofs
```

**Slots** is `lib/biz/slots.ts` over one working day: `Clash`, `Fits`, `FreeSeats`, `WithinHours`, `AvailableSlots`.
`busy`, a list in the code, is a function from keys to times, so that two equal times stay two. Minutes of a day
replace epoch milliseconds, weekdays and the time zone. `AvailableSlots` offers from a `Minute` before now, as `slots.ts:98`
does; `Accepts` is the verdict of `checkBooking` (`public.ts`), which takes nothing before now.

**BookingBook** is the owner's book. `bookings` is `b.bookings`, `active` the active seats, `now` the clock. One action
is one synchronous `update` of the book: `AddBooking` (by hand, by voice, or for an inbox item), `ForceBooking`,
`RescheduleBooking`, `AssignSeat`, `SetBookingStatus`, `UndoCancel` and `UndoBook` (voice), `ToggleSeat`, `DeleteSeat`.
`freeSeat` takes the first seat in the business's order, which is any free seat here. A finished booking's sale is left
out: only that a refused sale changes nothing matters. `DeleteSeat` followed by `ToggleSeat` stands for a new seat with
the same shifts.

**ShopServer** is `lib/biz/server.ts` for one slug, over Redis. One action is one awaited command with the local work up
to the next one; a handler is a program counter (`pc` for `submit`, `call[c].pc` for the owners' calls) and what it has
read (`cat`, `seen`, `tries`; `ids`, `cur`, `keys`). `BusyWith` and `Fits` decide as `checkBooking` does. Abstractions:
the inbox is a bag (its order matters to the phone only, see OnlineShop, its duplicates matter here); ids are distinct;
the `Promise.all` of `get`s is one read; rate limits are a free choice; telling a Telegram customer is left out. Flags
switch on what the environment may do: `StoreFails` (a command fails for good), `Repeats` (the writes whose answer may be lost,
so that the client sends them again after anything else happened; RPUSH at most once more, a bound), `HandlersStall` (a
handler stands still past the lock's 5 s), `Expiring` (which TTLs run out), `Malformed` (requests that are refused whatever
is free). `Crash` is always possible.

**Desk** is what the server promises about waiting bookings: a clerk takes one at a time, never one that excludes a
waiting one; waiting ones may leave. `ShopServer` implements it under `waiting <- WaitingBookings`.

**OnlineShop** puts customers, server, network and phone together. The server is that of ShopServer at the granularity
its refinement of Desk allows: the locked part of `submit` is one step (`Decide`), but the catalog is still read, and the
inbox counted, in an earlier one (`Ask`), as in the code. The inbox is a sequence here. The phone has the book in memory
(`mem`) and in `localStorage` (`disk`), the collecting calls (`pull`, one for each of `Pullers`), the timer of the republish
effect (`armed`) and the publishes under way (`posts`). The app makes one collecting call after the other (`busy.current` of
`BizSync`); the `Buttons` among the `Pullers` are the owner's (`OnlineView`), who does not ask `busy.current`, so calls overlap and
an answer may be applied long after the inbox it shows. A call that has not reached the server changes nothing, so `StartPull`
begins with the answer on its way. `Collect` is the whole synchronous part between the answer and the next `await`:
`applyInbox` over all items, `update` with its `persist`, the trimming of `seen`, and the acknowledgement that is
sent; a button waits for nothing after it and shows no problems (`Acking`). `Restart` closes and opens the app. A call that fails may have been handled (`AcksLost`, `PublishFails` before or
after `Land`). An acknowledgement lists the inbox in its order and `pull` removes ids one by one, so ids leave at the
head. The shop has no seats (one booking at a time); seats are the business of the other two modules. Only times are in
the catalog, so `hash` is a set of times. `Racers` bounds how many submits are between the count and the push, and
`MaxPosts` the publishes under way.

**BizSales** is the other half of `lib/biz/ops.ts`: `order`, `stock`, `recipe`, the customers' totals (`club`), the debts of
credit sales, the day rows that the personal book holds for the business (`rows`), and `archive`. One action is one
`update`. An action ends with everything the code does in it: `Sell` takes stock as the recipe says now and remembers it
in `used`, adds to the customer, opens the debt and books the day (`SyncSales`); `CancelOrder` gives back `used`. `net` is
history: what purchases, waste and counts alone would have made of the stock. `asOf` is history too: the accounts as they
stood when a day was last booked. Lines and prices are frozen in an order at its creation, so they are constants.

**SmsInbox** has the phone (`phone`, the questions `asked`), the stored mark and the book, and one program counter per reader:
`ReadSms` (start, resume, every 30 s) and `ReadPhone` (the import page, since the mark or over a chosen range). One action
is the work between two awaits: read the inbox, store the mark, queue, read the questions, apply the answers, clear them
on the phone. `Close` kills every reader. The user's own steps (book, ignore, bring back, tell a loan) come in between.
A message has two ids, one from the phone's inbox and one from its question; that `seenSms` takes the two for one
message is what `Seen` says.

**SharedMoney** has the rows of the personal book and the two kinds of records that name rows: the expenses and the
settlement of a group, and the payments and loans of a family fund. `LinkCandidates` and `Linked` turn a row that the bank
reported into the user's part of an expense; `Restored` gives it back. `DeleteTxn` is the list of transactions, with what
`forgetSplitTxn` and `forgetFundTxn` do. Ids are never given twice. Two members stand for a group: what matters is what
the user paid and owes. `removed` is history: which kinds of rows were deleted from the list.

**StatedBalance** is `lib/finance/balance.ts` for one account, with `learnSources`, `linkSource` and `learnFromCommit` of
`sources.ts`. `bank` is what the bank did and wrote (`Move`; a message may state the balance after it, may leave the
direction open, or may be a balance and no movement). `Read` takes any set of unread messages in the phone's order, balances
first, each kind the newest first (`NewestFirst`); the rows go to the `queue`. The card's account is learnt by the first row booked from it
or set by hand (`Link`). `CommitStaged`, `DismissStaged` and `TypeRow` are the user's ways with a row, `SetCurrentBalance`
the balance typed in, `BookMissing` and `FixStart` the two answers to a check. A minute is the finest time a statement has;
a row typed by hand has its day and the moment of typing. A message has two minutes: the one it tells of (`at`, read from its
text, which every message here has), where its row is booked, and the one it was received (`got`, `Receive`), which dates its
balance (`stagedAt`). With `Overtaken = FALSE` a message is there before the bank moves again; messages of one minute arrive in the bank's order.
The log is in the order of its moments, so `Logged` puts a statement
behind those of its moment and `Prior` is the last before the month. `Apart` says the bank and the user never act within one minute.
Left out: setting a check aside, bringing an ignored row back, taking the card off the account, statement files, several
cards of one account and exchange wallets.

**Obligations** is what `settleDue` books and `deleteTxn` re-opens (`actions.ts`), with `editLoan` and the loans with a person
of `lending.ts`: one loan in installments, one monthly bill, one income, one cheque and one person. Dates are months, and the
list of due dates reaches `Ahead` months. A row carries what `deleteTxn` reads of it: its kind, the installment or month, its
own date and the date it closed. `DeleteTxn` is one step with all five branches. Editing or deleting a bill and the texts and
reminders of the list are left out.

**PaperSession** is `lib/paper.ts` with `lib/learning.ts` over single commands of the store, under the two locks
`paper:lock` and `learn:lock`. A handler is a tick, a start, a stop, a backtest or a reset with what it has read. A session
covers one block of days; what a block teaches is counted (`params`) and marked (`days`) in two commands, as in the code.
`ReadParams` takes the defaults when its read fails, as `getLearnedParams` does. `Die` kills a handler between any two commands,
`Fail` makes one throw (then `finally` still frees the lock), and a lock expires when its holder is dead or, with `LockLost`, at any
time, which also stands for a second `DEL` by the holder before.

**MC modules** give the time slots of small instances; `*.cfg` the rest. Operators marked *broken variant* are not part
of any specification: each is a slip a maintainer could make, and a property is expected to fail of it.

## 3. Runs

| Run | Instance | Shows |
|---|---|---|
| `book` | 3 bookings, 2 seats, 2 starts, 2 durations, seats fixed | `SeatDisjoint`: two bookings on one seat never meet, flagged or not. `WithinCapacity`: no instant has more unflagged bookings than places |
| `book_offers` | 2 bookings, part-time shifts, seats on/off/deleted, voice undo | `SeatIsFound`, `OfferedIsAccepted` |
| `shop_book` | 3 customers, 2 chairs of which any two customers fit and all three do not, publish and pull | `WaitingFits`, `AcceptedIsKept` |
| `shop_faults` | 2 customers, failing store, every write sent again but the lock's release and the reference, expiring items and catalog, publish, unpublish, pull | `WaitingApart` and the refinement `TakesInTurn` of Desk with lost answers, errors, crashes |
| `shop_owners` | 2 tokens, 2 calls at once, an order and a booking that is refused under the lock, writes sent again | `PageIsOwners`, `OwnerKept`, `StatusStands`, and `LockFreed` under fairness |
| `online` | 2 customers and a walk-in whose times overlap, failing network, restarts, two overlapping collecting calls of which one is a button's, `MaxInbox = 1`, `SeenMax = 2` | `AppliedOnce`, `NothingLost`, `OverlapIsFlagged`, and `Delivered` under fairness |
| `sales` | 2 orders of one product with discount and VAT, one ingredient, one customer, one debtor, 2 accounts, 2 days | `DayIsBooked`, `StockIsSales`, `ClubIsSales`, `NoDebtWithoutSale`, `ReportsStand` |
| `sms` | 3 messages (one is no bank's, one is asked about), 2 readers, a chosen range, 1 kill | `MoneyOnce`, `AskedIsKept`, `MarkLeavesNoGap`, `LoanTakesSms`, and `Arrives` under fairness |
| `shared` | 2 expenses, a linked message, a settlement, 3 months, a loan of 2 unequal installments, 3 rows beside the message | `RowsAreNamed`, `AccountIsNet`, `BankIsKept`, `FundIsPosition`, `RepaidIsOwed` |
| `balance` | 3 messages of kinds that differ, each at once or later, 4 minutes in 2 days of two months, 2 statements kept, 2 rows | `ShownIsBank`, `DiffIsMissing`, `AnswersSettle` |
| `dues` | 2 months, looking 1 ahead, a loan of 2 installments of which 0 or 1 is paid, 3 rows ever made | `SettledOnce` |
| `paper` | 2 handlers, 2 sessions of 2 ticks over 2 blocks of days, 1 kill or failure | `ArchivedOnce`, `TaughtOnce`, `RunningKept`, and `Archived` under fairness |

**Why these bounds.** The conflicts are pairwise (`WaitingApart`, `SeatDisjoint`) or one more than the seats
(`WithinCapacity`, `WaitingFits`: three bookings against two seats, one of them asked for by one booking for the whole hour, and two
bookings of its second half that name none), and two half-hour starts with durations 30 and 60
give every relation of two intervals that `clash` tells apart. Two handlers at the lock are enough for any race on it:
more waiting handlers only repeat the loser's part. Two tokens are the least for a contested slug, two calls the least
for a race of an owner with itself; one call at a time is enough in `shop_book` and `shop_faults`, where the race is of customers.
In `online` the bounds of the code, 500 items of `MAX_INBOX` and 500 remembered ids, are scaled to 1 and 2: the inbox is full
after one request, and with two calls under way two answers of it may be applied. With `SeenMax = 1`, the code's proportion, the
overlap breaks `AppliedOnce` (section 5).

In `sales` two orders are what a day's sum, a customer's totals and a fold can confuse, one day is old enough to be folded
while the other is not, and a recipe line of 0 or 1 changes between sale and cancellation. In `sms` two readers overlap in
every way, `Limit` = 2 of 3 messages makes a read stop short, and one kill falls between any two steps. `shared` needs one
message to link, two expenses to confuse, and an amount (30 in two installments of whole tomans, 10 and 20) whose last part
takes the rounding; three new rows are enough for any two records to hold one each and one more to come, and the same
instance without the loan has passed with five. In `paper` one handler ticks while the other stops,
starts, backtests or resets, and each may come back at once; two blocks tell what one day taught from what another did, which a
failed read loses; one kill is enough for each gap between two commands.
In `balance` three messages are what it takes for one read to bring an older statement after a newer one, for one movement
between two statements and for one after both; the amounts and the opening balance are such that a difference tells which of them are
missing. `LogMax` (120 in the code) is scaled to 2, so that the log is trimmed; a day of two minutes
has a moment before and after a statement, and the second day is another month. In `dues` three rows are two that could pay the same and one more to
delete; a month ahead of today and one past are both due. In `sms` the cut of `Limit` falls on bank messages and on
others, but with three messages no unasked one is ever cut off behind an asked one.

Deadlock is not checked in `book`, `sales`, `sms`, `shared`, `balance` and `dues`: the days end, the rows are used up and everything may
be undone. It is in the others: a shop, a phone or a scheduler always has a next step.

**Fairness.** `ShopServer!Fairness`: a handler that was not killed goes on (Node runs it), a call that started is handled,
and a held lock's key expires (Redis TTL). No customer or owner has to act, and `Crash` competes with every step.
`OnlineShop!CollectingSpec`, of which `Delivered` needs no more: the app asks every 45 s while visible, and a call that is tried
again and again is answered at some time (strong fairness, because failures and restarts interrupt it). No button is ever pressed
for certain. `OnlineShop!FairSpec`, for `Converges`, adds that handlers go on and that the app is opened again and again.
Weak fairness would assume a network that never fails twice.
`SmsInbox!FairSpec`: a reader that was not killed goes on, and the app asks again (start, resume, every 30 s). No user has
to answer, and the import page need never be opened. `PaperSession!FairSpec`: each handler that was not killed goes on (weak fairness of its
`Step`), the scheduler ticks again and again and one of the ticks gets the lock if it is free again and again (strong fairness of
some handler's `Tick`, since starts and stops take it too), and the keys of both locks expire (`Expire`, `LearnExpire`).
The other modules state no fairness: their steps are the user's, who need not do anything.

## 4. Proofs

| Theorem | Statement, for all constants | Argument |
|---|---|---|
| `TypeCorrect` | `Spec => []TypeOK` (ShopServer) | inductive as it stands |
| `WaitingStaysApart` | with `LockSafe`, `[]WaitingApart` | `LockInv` |
| `ServerIsDesk` | with `LockSafe`, `Spec => TakesInTurn` | every command is a `Take`, a `Leave` or a stutter, from `LockInv` |
| `SlugStays`, `PageStaysOwners` | without `unpublish` and expiry of the catalog, `OwnerKept` and `[]PageIsOwners` | `SlugInv` |
| `FreeSeatExists`, `OfferedFits` | of `fits`, `freeSeat`, `availableSlots` | pigeonhole: fewer taken times than seats |
| `BookTypeCorrect`, `SeatsStayApart` | the book; the latter without voice undo, whatever is done with the seats | inductive with `TypeOK`: each operation asks `fits` of all others |
| `NeverTooMany` | without voice undo and with fixed seats, `[]WithinCapacity` | inductive with `TypeOK`: whatever goes on at an instant of a new or moved time meets it, so `fits` has counted it (`PlacedFits`) |
| `SeatIsAlwaysFound`, `OfferedIsAlwaysAccepted` | in every reachable book; what is offered is accepted now, or began less than a minute ago and was accepted then | the two lemmas of Slots |
| `AcceptedStaysKept` | without `unpublish` and expiry of items, `[]AcceptedIsKept` | `KeptInv`: an acknowledgement lists only collected ids (`AckInv`) |
| `StatusesStand` | unless `"ref"` is among `Repeats`, `StatusStands`, whatever else fails | `RefInv`: a reference exists only once its submit is done |
| `WaitingAlwaysFits` | with `LockSafe`, `[]WaitingFits` | `RoomInv` with `LockInv`: what a booking between check and push meets is fewer than the places, since it meets no more of the waiting ones than `fits` counted (an injection), and nobody else pushes meanwhile |
| `OnlineTypeCorrect` | `[]TypeOK` (OnlineShop) | inductive as it stands |
| `OverlapsAreFlagged` | `[]OverlapIsFlagged`, with all faults | `Warned` of both books, in memory and on disk: an item that meets a time of the book is booked with its flag, and whatever else comes in asks first |
| `AcceptedIsNotLost` | with `~StorageFails` and `Deleted = {}`, `[]NothingLost` | `KeptInv`: the two books are the same, what is acknowledged is in them, and what is accepted is in them or waits on the server |
| `AppliedNeverTwice` | with one collecting call at a time, if `MaxInbox + Racers <= SeenMax + 1`, `[]AppliedOnce` | `OnceInv` (below) |
| `RememberedNeverTwice` | with any number of them, if there are no more than `SeenMax` requests, `[]AppliedOnce` | `Remembered` of both books: what has a row is among the remembered ids, which are distinct and so never too many |
| `PaperTypeCorrect` | `[]TypeOK` (PaperSession) | inductive as it stands |
| `ArchivedAtMostOnce`, `RunningStays` | unless `LockLost`, `[]ArchivedOnce`, `RunningKept` | `SessionInv`: one holder, and what it has read of the store is still there |
| `TaughtAtMostOnce` | unless `LockLost`, `[]TaughtOnce` | `LearnInv`: one learner, and what it read is what the store holds or, after a failure, the defaults; a block is marked, or taught no more often than kills explain, or its teacher is about to mark it |
| `SmsTypeCorrect`, `MoneyIsBookedOnce` | `[]TypeOK`, `[]MoneyOnce` (SmsInbox), any readers and kills | `TypeOK /\ Once(book)` |
| `AskedAreKept`, `LoansTakeTheirSms` | `[]AskedIsKept`, `LoanTakesSms` | `AskedInv`: what a reader is about to clear is in the book |
| `NoGap` | unless `FirstByHand`, `MarkLeavesNoGap` | `GapInv`: what the mark will pass is kept, read by whoever moves it, or cut by the limit |
| `DuesTypeCorrect`, `NothingSettledTwice` | `[]DuesTypeOK`, `[]SettledOnce` (Obligations) | rows are numbered up to `made`, the loan's rows are its paid installments' (`LoanBooked`), the income's its received months' (`IncomeBooked`) |
| `BalanceTypeCorrect` | `[]BalanceTypeOK` (StatedBalance) | with `AccountInv`, since what a difference books is dated by a statement |
| `ShownStaysBank` | with `Apart` and `~Overtaken`, `[]ShownIsBank` | `Inv`: every statement is what the bank held at its minute, and the account keeps the newest it was given (below) |
| `DiffStaysMissing` | with `Apart` and `~Overtaken`, `[]DiffIsMissing` | the same of two statements, the kept one and the last before the month: money moved, booked and queued between them are sums over disjoint sets |
| `NewestStaysKept` | with `Apart` and `~Overtaken`, `[]NewestIsKept` | `Inv`: the newest it was given is the newest there is once all are read |
| `AnswersAlwaysSettle` | `AnswersSettle`, with or without either | the missing row lies in the month and before the statement, so it enters one sum of the check and no other |
| `SalesTypeCorrect` | `[]TypeOK` (BizSales) | amounts stay numbers because discount and VAT are percentages |
| `StockStandsAsSales` | `[]StockIsSales` | with `TypeOK`: a step makes one sale, undoes one, or keeps all of them (`StepKinds`), and the sum over the sales moves by that one's `used` |
| `ClubStandsAsSales` | `[]ClubIsSales` | the same; a customer's total is at least the part of it that a cancellation takes away, so `AtLeast0` never cuts |
| `ReportsStay` | `[]ReportsStand` | what is folded was not folded before, so the sums of the two disjoint sets add |
| `DebtsAreSales` | `[]NoDebtWithoutSale` (BizSales) | with `Shape`, what the steps need of the types |
| `DaysAreBooked` | with `OrdersCost`, `[]DayIsBooked` | `Shape /\ DayIsBooked`: a step touches one day and books it, or leaves a day's sales and rows |
| `RowsStayNamed` | `[]RowsAreNamed` (SharedMoney) | `Shape /\ RowsAreNamed` is inductive: ids are never given twice, and a row and the record that names it come and go in one update |
| `FundStandsAsPosition` | `[]FundIsPosition` | `FundInv`: each record's amount is that of its row (`FundLinks`), so two sums over records and rows are one |
| `AccountStaysNet`, `BankStaysKept` | with `PartsAreNoTotals`, `[]AccountIsNet`, `[]BankIsKept` | `GroupInv`: fund, links and the group's books together, since the bank is a sum over all kinds of rows |
| `RepaidStaysOwed` | `[]RepaidIsOwed` | `LoansHold`: the installments paid have numbers of their own in `1..Installments`, so they sum to no more than all of them |

`WaitingApart` is not inductive: a state in which two handlers are past the check for the same time satisfies it and
the next step breaks it. `LockInv` adds what excludes that state: the key is held by the handler that is between check
and release (`LockIsMine`), orders never touch it (`OrdersPass`), an id is not listed before it is pushed (`NotPushed`),
the handler that decides has read every waiting booking (`SawWaiting`), and what it decided stays true until it pushes
(`StillFree`). The middle three carry the argument across commands that other handlers run in between. The hypothesis `LockSafe`,
that no handler outlives the lock and that no release of the lock is sent a second time, is essential: with `HandlersStall = TRUE`,
or with an unlock among `Repeats`, TLC finds the counterexample (finding 2).

`SlugInv` says a call that passed the comparison still speaks for the owner; it needs that nobody turns the shop off,
and with `unpublish` among `Ops` and two tokens TLC refutes `OwnerKept`.

`ArchivedOnce` alone is not inductive either: a handler that read a running session and archives it later is safe only
because nobody else got the lock meanwhile, and that is `SessionInv`. `TaughtOnce` counts how often a block taught, so its
invariant has to say where a count and a mark may differ: between two commands of the one holder of `learn:lock`, or after a
kill there. `MarkLeavesNoGap` is about a step, and `GapInv` is what the reader about to take it has in hand.

`TaughtAtMostOnce` says nothing of what a failed read loses: that is `MarkedIsLearnt`, which is false (finding 11).

`AppliedOnce` needs to know what the phone may be sent again. Its invariant `OnceInv` says that the inbox is the end of one line of
accepted requests, each of which joined it once, that an answer under way is the line's beginning, and that each book has applied a
beginning of the line and remembers it as the last it applied (`LineInv`); that no more than `MaxInbox + Racers - 1` wait, those that
were counted and not yet pushed included (`Room`), so that an answer is never longer than what is remembered; and that no book has
heard of what is not accepted (`Unheard`). The code remembers 500 ids and lets
500 wait, so the hypothesis holds with one submit at a time at a full inbox, and fails with two: finding 5. The argument is of one
collecting call, whose answer is always the line's present beginning; the owner's button makes a second one, whose answer may be
older than what is remembered, and then only `RememberedNeverTwice` is left.

`ShownIsBank` compares the app's sum with the bank's, and neither determines the other, so the invariant `Inv` of StatedBalance
goes by what both were told. Of the bank: its messages are in the order of their minutes, none arrives before what it tells of, and its holding is the opening and all
it moved (`InOrder`, `AddsUp`). Of the account: the card keeps the newest message with a balance that was read, the account the
newest moment it was given, by a message, by linking the card or by hand (`CardKeeps`, `AccountKeeps`), and every statement
kept or logged is what the bank held at the minute it was received (`AccountTrue`). The last holds only when no two events share
a minute, which is what `Apart` says, and when the bank has not moved between a message and its arrival (`~Overtaken`): finding 14 has
a pair of statements of one minute and a statement that came late. `Read` learns a set of messages one after the other, and
`LearnSourcesIs` shows the invariant of the messages learnt so far along the way; the induction is `Upto`, about sets. TLC checked
`Inv` on `balance.cfg`, and without `Apart` and with `Overtaken` on a smaller instance, too.

The hypotheses of the money theorems are facts of the constants. `PartsAreNoTotals` says that no user's part which may also be the
total of an expense is as small as a message's amount (`TextRial`): otherwise the row of a linked message can be linked again, and
`BankIsKept` is false (finding 12). The amounts of `shared.cfg` satisfy it. `OrdersCost` says that every order has a total above
nothing; a discount of 100 % makes a free one, and then `DayIsBooked` is false (finding 7).

**Sums.** Nothing that a fold computes can be read off its definition by the provers. `SumFunction` and `SumFunctionOnSet` of the
community modules are defined by a choice of a recursive function, and two lemmas bring them within reach: `SmallestFamily`, that
among finite sets with a property there is one without a smaller one (well-founded induction over `StrictSubsetOrdering`, cited from
the library, which takes no operator), and `AddsAgree` with `AddsExists`, that the recursive function exists and does not
depend on the set it is built over. From these come `SumEmpty`, `SumRemove`, `SumSame`, `SumNat` and `SumDisjoint`, and the models
state their sums with `SumFunction`, so that the theorems are about the very formulas TLC evaluates.

The assumptions on constants are those named `...Assumption` in the modules (sets finite, durations positive, percentages between 0
and 100, sentinels distinct); the theorems' own hypotheses are the flags and conditions named above. TLC evaluates every `...Assumption`.

FinanceProofs extends both StatedBalance and Obligations and holds the theorems of both; so Obligations calls its machine `DuesInit`,
`DuesNext`, `DuesSpec`, and its rows `txns`, as the code does.

**Model-checked only.** Liveness (`LockFreed`, `Delivered`, `Archived`, `Arrives`) is beyond the prover. Every other property of a
run has its theorem.

## 5. What was found

The disagreements between what the code does and what its documents, comments and tests say are in `PROJECT.json` under
`findings`, with the lines quoted. None has a configuration of its own: each says with which constants, or without which
exception of a property, TLC shows it in the module named. In short:

*Booking and the online shop* (BookingBook, ShopServer, OnlineShop)

1. Undoing a voice cancellation does not ask `fits` (`SeatDisjoint` with `VoiceUndo`).
2. The lock can be outlived by a stalled handler (`WaitingApart` with `HandlersStall`), and without a stall its release, sent
   again after a lost answer, frees the next handler's lock (`WaitingApart` with an unlock among `Repeats`, three bookings). The
   "pending" of `submit`, sent again, overwrites what the owner reported (`StatusStands` with `"ref"` among `Repeats`).
3. `unpublish` races with a `submit` under way and leaves a customer's data (`OffMeansGone`), and a publish takes a slug
   over another claim (`OwnerKept` with `unpublish`, two tokens).
4. Between the acknowledgement and the republish, and because `submit` reads the catalog before it waits for the lock, a
   collected time is free again (`NoTimeTwice`). The phone flags the overlap (`OverlapIsFlagged` holds), but both
   customers were told yes.
5. An order without products left is acknowledged before anybody was told of it, and a button's call never tells (`NothingLost`
   with `Deleted`); a full `localStorage` loses items (`StorageFails`); a 501st item forgets the first (`AppliedOnce` with
   `Racers = 2`), and so does an answer that overlaps another (`AppliedOnce` with two `Pullers` and `MaxInbox = SeenMax`).
6. A publish that landed without an answer is not counted as published; when the change is taken back the server is
   never corrected (`Converges`).

*Sales* (BizSales)

7. A sale of amount zero keeps the row of its day from being removed (`DayIsBooked` without its exception).
8. Booking a day again after its orders were folded takes away rows that stood (`RebookOnlyAdds`).

*Messages, sessions* (SmsInbox, PaperSession)

9. The mark moves before the rows are queued, the first read by hand moves it past what it left out, and a read stops at the
   plugin's 2000 (`MarkLeavesNoGap` with `FirstByHand`, or without its exceptions).
10. A session may be finished and never archived (`Archived`, for handlers that die), and a handler slower than 55 s archives
    and teaches twice (`LockLost`). What a block teaches and that it did are two commands (`TaughtOnce` counts kills for it).
11. A failed read of what was learnt counts as the defaults, which the next learning writes over it while the days stay marked
    (`MarkedIsLearnt`).

*Money* (SharedMoney, StatedBalance, Obligations)

12. A linked message can become part of a second expense, and deleting the first restores all of it (`BankIsKept` with a
    second total of 20).
13. Deleting the row of a fund's loan keeps the loan (`FundIsPosition` without its condition on `removed`).
14. Of two statements within one minute the older is kept (`NewestIsKept` with `Apart = FALSE`); one that arrives after the bank's
    next movement passes for the newest, and the balance shown is wrong by that movement (`ShownIsBank`, `DiffIsMissing`, `NewestIsKept`
    with `Overtaken`); the check asks about rows
    whose direction is unknown (`UnknownIsNotAsked`) and about those queued from the month before (`WaitingCounts`).
15. Deleting the row of a bill paid early re-opens another month (`BillReopens`); a person's loan comes back without its date,
    or keeps one when nothing is owed (`OpenHasDate`, `DateIsDone`).

Not counted as faults, because no text promises otherwise: `fits` compares with the number of active seats, not with the
seats at work at that hour, so with part-time seats more seatless bookings are accepted than there are hands. A time that
began within the last minute is offered, and refused when it is chosen. The id of an item that expired after 30 days counts against
`MAX_INBOX` for good, since no answer names it. When the log of
120 statements is trimmed past the first of the month, the check starts from the opening balance again. A row typed on the
statement's own day, after the statement and of what it already counted, is counted once more (`Misplaced`). Deleting
the row of an earlier installment does not re-open it (`actions.ts:86` says so). Changing how often an income comes
forgets which months were received.

## 6. Not modelled, and the plan

Left out of the modelled components: prices, texts and validation of names and phones (`checkOrder` and `cleanCatalog`
beyond refusing), weekdays and the time zone, real durations (5 s of lock against ten attempts of 300 ms; a TTL simply
runs out), the in-memory and cache variants of the store, several tabs of the app, reporting of statuses by the phone,
turning the shop off from the phone, and the Telegram dialogue.

Most of the repository's lines are not state machines and stay outside: screens and forms, charts, the forecast, signal
and simulation engines (real arithmetic over price series), parsers of speech, messages, statements and exchange answers,
templates and lessons (texts). A model of these would either repeat the code or say nothing.

Next, in this order:

1. **OnlineShop**: status reports (`refSent` and the effect that sends them, against `setRefStatus`), turning the shop
   off, two tabs on one `localStorage`.
2. **Finance book**: pay requests and the shopping list; statement files and several cards of an account in StatedBalance.
3. **Swing sessions** as a second instance of PaperSession's store protocol; the source cache's copies.
4. **Proofs**: what these parts add, over the same lemmas.
