--------------------------- MODULE PaperSession ---------------------------
(* The shared paper-trading session (lib/paper.ts) and what it teaches the   *)
(* engine (lib/learning.ts): handlers of the server that start, tick and     *)
(* stop one session, run backtests and reset the learning, over single       *)
(* commands of the store, with two locks that expire.  Prices, trades and    *)
(* messages are left out, and so is a throttled tick, which changes nothing; *)
(* a session or a backtest covers one block of calendar days, new to the     *)
(* engine or learned from already.                                           *)
EXTENDS Integers, Sequences, FiniteSets

CONSTANTS Handlers,   \* invocations that may overlap
          Sessions,   \* number of sessions ever started
          Length,     \* ticks after which a session is over
          Blocks,     \* blocks of days; session i covers 1 + (i % Blocks)
          LockLost,   \* may a lock be lost under a live holder: it expires, or the
                      \* DEL of the holder before is sent again
          MaxKills    \* handlers that die, commands that fail for good

ASSUME PaperAssumption == /\ {Sessions, Length, Blocks} \subseteq Nat \ {0}
                          /\ LockLost \in BOOLEAN
                          /\ MaxKills \in Nat

VARIABLES lock, learnLock,   \* the keys paper:lock and learn:lock exist
          active,            \* paper:active, 0 = absent
          sess,              \* paper:session:<id>
          history,           \* ids in paper:history, newest first
          params,            \* how often each block taught the parameters
          days,              \* blocks marked as used in learn:days
          run,               \* what each handler is doing
          kills

store == <<active, sess, history, params, days>>
vars == <<lock, learnLock, store, run, kills>>

Ids == 1..Sessions
Days == 1..Blocks
Block(id) == 1 + (id % Blocks)
Nothing == [b \in Days |-> 0]   \* DEFAULT_PARAMS, taught by no day
Idle == [op |-> "idle", pc |-> "idle", id |-> 0, s |-> [status |-> "none", ticks |-> 0],
         hist |-> <<>>, block |-> 0, learnt |-> Nothing]
Learning == {"params", "set", "days", "unlearn", "reset", "forget"}
InLock(h) == run[h].op \in {"tick", "start", "stop"}

Steps == {"idle", "load", "create", "activate", "save", "resave", "hist", "archive", "clear",
          "leave", "first", "learn"} \cup Learning
States == [status : {"none", "running", "finished"}, ticks : Nat]
Handling == [op : {"idle", "tick", "start", "stop", "teach", "reset"}, pc : Steps, id : 0..Sessions,
             s : States, hist : Seq(Ids), block : 0..Blocks, learnt : [Days -> Nat]]
\* whoever works on a session or learns from a block knows which
Aimed(op, pc, id, block) ==
  /\ pc \in {"create", "activate", "save", "resave", "hist", "archive", "clear"} => id # 0
  /\ pc \in {"learn"} \cup Learning /\ op \in {"tick", "start", "stop"} => id # 0
  /\ pc \in {"params", "set", "days"} => block # 0
  /\ pc = "learn" => op = "reset" \/ block # 0
TypeOK ==
  /\ lock \in BOOLEAN /\ learnLock \in BOOLEAN
  /\ active \in 0..Sessions /\ sess \in [Ids -> States]
  /\ history \in Seq(Ids)
  /\ params \in [Days -> Nat] /\ days \subseteq Days /\ kills \in 0..MaxKills
  /\ run \in [Handlers -> Handling] /\ \A h \in Handlers : Aimed(run[h].op, run[h].pc, run[h].id, run[h].block)

Init ==
  /\ lock = FALSE /\ learnLock = FALSE /\ active = 0 /\ history = <<>>
  /\ sess = [i \in Ids |-> Idle.s]
  /\ params = Nothing /\ days = {}
  /\ run = [h \in Handlers |-> Idle] /\ kills = 0

Become(h, r) == run' = [run EXCEPT ![h] = r]
At(h, pc) == run[h].pc = pc
Goto(h, pc) == Become(h, [run[h] EXCEPT !.pc = pc])
Keep == UNCHANGED <<lock, learnLock, kills>>

---------------------------------------------------------------------------
(* Under paper:lock *)

FreeOrNot == TRUE
Free == ~lock
Enter(h, op) ==
  /\ At(h, "idle") /\ Free
  /\ lock' = TRUE /\ Become(h, [Idle EXCEPT !.op = op, !.pc = "load"])
  /\ UNCHANGED <<learnLock, store, kills>>

Tick(h) == Enter(h, "tick")
Start(h) == Enter(h, "start")
Stop(h) == Enter(h, "stop")

Running(id) == id # 0 /\ sess[id].status = "running"
TicksOn(h) ==
  [status |-> IF run[h].op = "stop" THEN "finished" ELSE "running", ticks |-> sess[active].ticks + 1]
\* liveTick: one tick more, and the end when the time is over; stop ends it anyway
Ticked(h) ==
  [status |-> IF run[h].op = "stop" \/ sess[active].ticks + 1 = Length THEN "finished" ELSE "running",
   ticks |-> sess[active].ticks + 1]

AlwaysStart == TRUE
MayStart == ~Running(active)
New == CHOOSE i \in Ids : sess[i].status = "none"
Load(h) ==
  /\ At(h, "load") /\ UNCHANGED store /\ Keep
  /\ \/ /\ run[h].op = "start" /\ MayStart
        /\ \E i \in Ids : sess[i].status = "none"
        /\ Become(h, [run[h] EXCEPT !.pc = "create", !.id = New])
     \/ /\ run[h].op # "start" /\ Running(active)
        /\ Become(h, [run[h] EXCEPT !.pc = "save", !.id = active, !.s = Ticked(h)])
     \/ /\ \/ run[h].op = "start" /\ (~MayStart \/ \A i \in Ids : sess[i].status # "none")
           \/ run[h].op # "start" /\ ~Running(active)
        /\ Goto(h, "leave")

Create(h) ==
  /\ At(h, "create") /\ Goto(h, "activate") /\ Keep
  /\ sess' = [sess EXCEPT ![run[h].id].status = "running"]
  /\ UNCHANGED <<active, history, params, days>>
Activate(h) ==
  /\ At(h, "activate") /\ Goto(h, "leave") /\ Keep
  /\ active' = run[h].id
  /\ UNCHANGED <<sess, history, params, days>>

Save(h) ==
  /\ run[h].pc \in {"save", "resave"} /\ Keep
  /\ sess' = [sess EXCEPT ![run[h].id] = run[h].s]
  /\ Become(h, [run[h] EXCEPT !.block = Block(run[h].id),
       !.pc = IF @ = "resave" THEN "hist"
              ELSE IF run[h].s.status = "finished" THEN "learn" ELSE "leave"])
  /\ UNCHANGED <<active, history, params, days>>

ReadHistory(h) ==
  /\ At(h, "hist") /\ UNCHANGED store /\ Keep
  /\ Become(h, [run[h] EXCEPT !.pc = "archive", !.hist = <<run[h].id>> \o history])
Archive(h) ==
  /\ At(h, "archive") /\ Goto(h, "clear") /\ Keep
  /\ history' = run[h].hist
  /\ UNCHANGED <<active, sess, params, days>>
Clear(h) ==
  /\ At(h, "clear") /\ Goto(h, "leave") /\ Keep
  /\ active' = 0
  /\ UNCHANGED <<sess, history, params, days>>

\* kv.del without a look at whose lock it is; a session just started is ticked
\* at once, if the lock is still free then
Leave(h) ==
  /\ At(h, "leave") /\ lock' = FALSE
  /\ Become(h, IF run[h].op = "start" /\ Running(run[h].id)
               THEN [Idle EXCEPT !.pc = "first"] ELSE Idle)
  /\ UNCHANGED <<learnLock, store, kills>>
FirstTick(h) ==
  /\ At(h, "first") /\ UNCHANGED <<learnLock, store, kills>>
  /\ lock' = TRUE
  /\ Become(h, IF Free THEN [Idle EXCEPT !.op = "tick", !.pc = "load"] ELSE Idle)

---------------------------------------------------------------------------
(* Under learn:lock: applyLearning of a session or of a backtest, and reset *)

Backtest(h, b) ==
  /\ At(h, "idle") /\ Become(h, [Idle EXCEPT !.op = "teach", !.pc = "learn", !.block = b])
  /\ UNCHANGED <<store, lock, learnLock, kills>>
Reset(h) ==
  /\ At(h, "idle") /\ Become(h, [Idle EXCEPT !.op = "reset", !.pc = "learn"])
  /\ UNCHANGED <<store, lock, learnLock, kills>>

Taught(h) == IF InLock(h) THEN [run[h] EXCEPT !.pc = "resave"] ELSE Idle
LearnEnter(h) ==
  /\ At(h, "learn") /\ UNCHANGED <<store, lock, kills>>
  /\ \/ /\ ~learnLock /\ learnLock' = TRUE
        /\ Goto(h, IF run[h].op = "reset" THEN "reset" ELSE "params")
     \/ /\ learnLock \/ InLock(h)      \* no prices, or twenty tries and it throws
        /\ UNCHANGED learnLock /\ Become(h, Taught(h))

AnyRun(b) == TRUE
Novel(b) == b \notin days          \* newFraction >= 0.2
\* getLearnedParams, noveltyOf and what learnFromResult decides; a read of the
\* parameters that fails counts as the defaults
ReadParams(h) ==
  /\ At(h, "params") /\ UNCHANGED <<store, lock, learnLock>>
  /\ \/ /\ Novel(run[h].block) /\ UNCHANGED kills
        /\ Become(h, [run[h] EXCEPT !.pc = "set", !.learnt = params])
     \/ /\ Novel(run[h].block) /\ kills < MaxKills /\ kills' = kills + 1
        /\ Become(h, [run[h] EXCEPT !.pc = "set", !.learnt = Nothing])
     \/ Goto(h, "unlearn") /\ UNCHANGED kills       \* too few trades, nothing to change
SetParams(h) ==
  /\ At(h, "set") /\ Keep
  /\ params' = [run[h].learnt EXCEPT ![run[h].block] = @ + 1]
  /\ Become(h, [run[h] EXCEPT !.pc = "days", !.learnt = Nothing])
  /\ UNCHANGED <<active, sess, history, days>>
SetDays(h) ==
  /\ At(h, "days") /\ Goto(h, "unlearn") /\ Keep
  /\ days' = days \cup {run[h].block}
  /\ UNCHANGED <<active, sess, history, params>>
ResetParams(h) ==
  /\ At(h, "reset") /\ Goto(h, "forget") /\ Keep
  /\ params' = Nothing
  /\ UNCHANGED <<active, sess, history, days>>
ForgetDays(h) ==
  /\ At(h, "forget") /\ Goto(h, "unlearn") /\ Keep
  /\ days' = {}
  /\ UNCHANGED <<active, sess, history, params>>
LearnLeave(h) ==
  /\ At(h, "unlearn") /\ learnLock' = FALSE
  /\ Become(h, Taught(h)) /\ UNCHANGED <<store, lock, kills>>

---------------------------------------------------------------------------
(* What goes wrong *)

Die(h) ==
  /\ ~At(h, "idle") /\ kills < MaxKills
  /\ kills' = kills + 1 /\ Become(h, Idle)
  /\ UNCHANGED <<lock, learnLock, store>>
\* a command that throws: `finally` still lets the lock go
Fail(h) ==
  /\ kills < MaxKills /\ kills' = kills + 1
  /\ \/ /\ InLock(h) /\ run[h].pc \in {"load", "save", "create", "activate", "resave", "hist", "archive", "clear"}
        /\ Goto(h, "leave")
     \/ run[h].pc \in {"params", "set", "days", "reset", "forget"} /\ Goto(h, "unlearn")
  /\ UNCHANGED <<lock, learnLock, store>>

NoExpire == FALSE /\ UNCHANGED vars
Expire ==
  /\ lock /\ (LockLost \/ \A h \in Handlers : ~InLock(h))
  /\ lock' = FALSE /\ UNCHANGED <<learnLock, store, run, kills>>
LearnExpire ==
  /\ learnLock /\ (LockLost \/ \A h \in Handlers : run[h].pc \notin Learning)
  /\ learnLock' = FALSE /\ UNCHANGED <<lock, store, run, kills>>

---------------------------------------------------------------------------
Step(h) ==
  \/ Load(h) \/ Create(h) \/ Activate(h) \/ Save(h) \/ ReadHistory(h) \/ Archive(h)
  \/ Clear(h) \/ Leave(h) \/ FirstTick(h) \/ LearnEnter(h) \/ ReadParams(h) \/ SetParams(h)
  \/ SetDays(h) \/ ResetParams(h) \/ ForgetDays(h) \/ LearnLeave(h)
Next ==
  \/ \E h \in Handlers : \/ Tick(h) \/ Start(h) \/ Stop(h) \/ Step(h) \/ Die(h) \/ Fail(h)
                         \/ Reset(h) \/ \E b \in Days : Backtest(h, b)
  \/ Expire \/ LearnExpire

Spec == Init /\ [][Next]_vars
\* the scheduler ticks every hour; a tick asks for the lock once, and some tick
\* finds it free if it is free again and again
FairSpec == /\ Spec /\ WF_vars(Expire) /\ WF_vars(LearnExpire)
            /\ SF_vars(\E h \in Handlers : Tick(h))
            /\ \A h \in Handlers : WF_vars(Step(h))

---------------------------------------------------------------------------
(* Properties *)

\* The history holds each session once and only finished ones, whatever ticks,
\* stops and starts met (paper.ts archive under withPaperLock).
ArchivedOnce ==
  /\ \A i, j \in 1..Len(history) : history[i] = history[j] => i = j
  /\ \A i \in 1..Len(history) : sess[history[i]].status = "finished"

\* A running session is never replaced: paper:active leaves it only when it is
\* finished, and a finished session never runs again.
RunningKept ==
  [][/\ active' # active => ~Running(active)
     /\ \A i \in Ids : sess[i].status = "finished" => sess'[i] = sess[i]]_vars

\* Between two learnings, no block of days has taught the parameters twice, but for
\* one repetition for each handler that died between the two writes; as long as no
\* handler dies and no command fails, a block is marked exactly when the parameters
\* hold what it taught (learning.ts applyLearning, resetLearning).
TaughtOnce ==
  (\A h \in Handlers : run[h].pc \notin {"days", "forget"}) =>
    \A b \in Days : /\ params[b] <= 1 + kills
                    /\ kills = 0 => (params[b] = 1 <=> b \in days)

\* Between two learnings, what a marked block of days taught is in the parameters: "only
\* days that actually taught the engine are marked as used" (learning.ts:88).
MarkedIsLearnt ==
  (\A h \in Handlers : run[h].pc \notin {"days", "forget"}) => \A b \in days : params[b] > 0

\* A running session comes to its end and into the history; only a handler that
\* died leaves a finished one out of it.
Archived ==
  \A i \in Ids : active = i /\ Running(i) ~>
    sess[i].status = "finished" /\ (kills > 0 \/ \E k \in 1..Len(history) : history[k] = i)
=============================================================================
