------------------------ MODULE PaperSessionProofs ------------------------
(***************************************************************************)
(* Theorems about PaperSession, for every number of handlers, sessions,    *)
(* ticks and blocks of days, and any number of kills, as long as no lock   *)
(* expires under a live holder.                                            *)
(***************************************************************************)
EXTENDS PaperSession, TLAPS

Calls == {"load", "create", "activate", "save", "resave", "hist", "archive", "clear", "leave"}

\* The holder of paper:lock is the only one between it and `finally`.
OneHolder ==
  /\ \A h \in Handlers : InLock(h) => lock
  /\ \A h, k \in Handlers : InLock(h) /\ InLock(k) => h = k
  /\ \A h \in Handlers : run[h].pc \in Calls => InLock(h)
  /\ \A h \in Handlers : InLock(h) => run[h].pc \in Calls \cup {"learn", "params", "set", "days", "unlearn"}

\* What the holder read and did so far.
Knows(h) ==
  LET id == run[h].id IN
  /\ run[h].pc \in {"create", "activate"} => id # 0 /\ ~Running(active)
  /\ run[h].pc = "create" => sess[id].status = "none"
  /\ run[h].pc = "activate" => sess[id].status = "running"
  /\ run[h].pc = "save" => id = active /\ Running(active) /\ run[h].s.status # "none"
  /\ run[h].pc \in {"learn", "params", "set", "days", "unlearn", "resave", "hist", "archive", "clear"} =>
       id = active /\ id # 0 /\ sess[id] = run[h].s /\ sess[id].status = "finished"
  /\ run[h].pc \in {"learn", "params", "set", "days", "unlearn", "resave", "hist", "archive"} =>
       \A i \in 1..Len(history) : history[i] # id
  /\ run[h].pc = "archive" => run[h].hist = <<id>> \o history

\* paper:active names a session that was stored.
StoreInv == ArchivedOnce /\ (active # 0 => sess[active].status # "none")

\* The inductive invariant under ArchivedOnce and RunningKept.
SessionInv == OneHolder /\ (\A h \in Handlers : InLock(h) => Knows(h)) /\ StoreInv

\* The holder of learn:lock, what it is between, and what is true of every block.
Teaches(h, b) == run[h].pc = "days" /\ run[h].block = b
HasRead(r, d, p, k) ==
  /\ r.block \notin d /\ r.block # 0
  /\ \A b \in Days : r.learnt[b] <= p[b] /\ (k = 0 => r.learnt[b] = p[b])
LearnInv ==
  /\ \A h \in Handlers : run[h].pc \in Learning => learnLock
  /\ \A h, k \in Handlers : run[h].pc \in Learning /\ run[k].pc \in Learning => h = k
  /\ \A h \in Handlers : run[h].pc \in Learning \ {"unlearn"} /\ run[h].op # "reset" => run[h].block # 0
  /\ \A h \in Handlers : run[h].pc = "forget" => \A b \in Days : params[b] = 0
  /\ \A h \in Handlers : run[h].pc = "days" => run[h].block \notin days /\ run[h].block # 0
  /\ \A h \in Handlers : run[h].pc = "set" => HasRead(run[h], days, params, kills)
  /\ \A b \in Days :
       /\ params[b] <= 1 + kills
       /\ b \in days \/ params[b] <= kills \/ \E h \in Handlers : Teaches(h, b)
       /\ kills = 0 /\ b \in days => params[b] = 1 \/ \E h \in Handlers : run[h].pc = "forget"
       /\ kills = 0 => \A h \in Handlers : Teaches(h, b) => params[b] = 1

-----------------------------------------------------------------------------
(* Typing. *)

LEMMA BlockType == ASSUME PaperAssumption, NEW id \in Nat PROVE Block(id) \in Days
<1>1. Blocks \in Nat /\ Blocks > 0
  BY DEF PaperAssumption
<1>2. id % Blocks \in 0..Blocks - 1
  BY <1>1
<1> QED BY <1>1, <1>2 DEF Block, Days

\* The store and the locks are well typed, without what handlers hold.
StoreType ==
  /\ lock \in BOOLEAN /\ learnLock \in BOOLEAN
  /\ active \in 0..Sessions /\ sess \in [Ids -> States]
  /\ history \in Seq(Ids)
  /\ params \in [Days -> Nat] /\ days \subseteq Days /\ kills \in 0..MaxKills

\* A handler that goes on holds what it held, but for its next command.
LEMMA GotoType ==
  ASSUME TypeOK, NEW h \in Handlers, NEW pc \in Steps, Goto(h, pc), StoreType',
         Aimed(run[h].op, pc, run[h].id, run[h].block)
  PROVE  TypeOK'
BY DEF TypeOK, StoreType, Goto, Become, Handling

LEMMA BecomeType ==
  ASSUME TypeOK, NEW h, NEW r \in Handling, Aimed(r.op, r.pc, r.id, r.block), Become(h, r), StoreType'
  PROVE  TypeOK'
BY DEF TypeOK, StoreType, Become

LEMMA IdleType == ASSUME PaperAssumption PROVE Idle \in Handling /\ Aimed("idle", "idle", 0, 0)
<1>1. Nothing \in [Days -> Nat]
  BY DEF Nothing
<1> QED BY <1>1 DEF PaperAssumption, Idle, Handling, States, Steps, Learning, Aimed

\* Every step keeps the types: a session that is not over has ticks left, and a handler
\* holds what it read and nothing else.
LEMMA TypeNext == PaperAssumption /\ TypeOK /\ [Next]_vars => TypeOK'
<1> SUFFICES ASSUME PaperAssumption, TypeOK, [Next]_vars PROVE TypeOK'
  OBVIOUS
<1> USE DEF store, Keep, At
<1>a. /\ Sessions \in Nat /\ Length \in Nat /\ Length > 0 /\ Blocks \in Nat /\ Blocks > 0
      /\ MaxKills \in Nat
  BY DEF PaperAssumption
<1>b. StoreType
  BY DEF TypeOK, StoreType
<1>c. {"load", "create", "activate", "save", "resave", "hist", "archive", "clear", "leave", "first",
       "learn", "params", "set", "days", "unlearn", "reset", "forget"} \subseteq Steps
  BY DEF Steps, Learning
<1>i. Idle \in Handling
  BY IdleType
<1>d. ASSUME NEW h \in Handlers
      PROVE  run[h] \in Handling /\ Aimed(run[h].op, run[h].pc, run[h].id, run[h].block)
  BY DEF TypeOK
<1>e. ASSUME NEW h \in Handlers, run[h].pc \in {"learn", "unlearn"}
      PROVE  LET r == Taught(h) IN r \in Handling /\ Aimed(r.op, r.pc, r.id, r.block)
  <2>1. CASE InLock(h)
    BY <1>c, <1>d, <1>e, <2>1 DEF Taught, Handling, InLock, Learning, Aimed
  <2>2. CASE ~InLock(h)
    BY IdleType, <2>2 DEF Taught, Idle
  <2> QED BY <2>1, <2>2
<1>f. ASSUME NEW h \in Handlers, NEW pc \in Steps, Goto(h, pc), StoreType',
             Aimed(run[h].op, pc, run[h].id, run[h].block)
      PROVE  TypeOK'
  BY <1>f, GotoType
<1>1. ASSUME NEW h \in Handlers, Tick(h) \/ Start(h) \/ Stop(h) PROVE TypeOK'
  <2>1. \A op \in {"tick", "start", "stop"} : LET r == [Idle EXCEPT !.op = op, !.pc = "load"]
             IN  r \in Handling /\ Aimed(r.op, r.pc, r.id, r.block)
    BY <1>i, <1>c DEF Idle, Handling, Aimed, Learning
  <2>2. StoreType'
    BY <1>1, <1>b DEF Tick, Start, Stop, Enter, StoreType
  <2> QED BY <1>1, <2>1, <2>2, BecomeType DEF Tick, Start, Stop, Enter
<1>2. ASSUME NEW h \in Handlers, Load(h) PROVE TypeOK'
  <2>0. StoreType'
    BY <1>2, <1>b DEF Load, StoreType
  <2>1. CASE (\E i \in Ids : sess[i].status = "none")
                /\ Become(h, [run[h] EXCEPT !.pc = "create", !.id = New])
    <3>1. New \in 0..Sessions /\ New # 0
      BY <2>1, <1>a DEF New, Ids
    <3>2. LET r == [run[h] EXCEPT !.pc = "create", !.id = New]
           IN  r \in Handling /\ r.op = run[h].op /\ r.pc = "create" /\ r.id = New
      BY <3>1, <1>c, <1>d DEF Handling
    <3>3. LET r == [run[h] EXCEPT !.pc = "create", !.id = New] IN Aimed(r.op, r.pc, r.id, r.block)
      BY <3>1, <3>2 DEF Aimed, Learning
    <3> QED BY <2>0, <2>1, <3>2, <3>3, BecomeType
  <2>2. CASE Running(active) /\ Become(h, [run[h] EXCEPT !.pc = "save", !.id = active, !.s = Ticked(h)])
    <3>1. active \in 0..Sessions /\ active # 0 /\ active \in Ids /\ sess[active] \in States /\ sess[active].status = "running"
      BY <2>2, <1>a DEF Running, Ids, TypeOK
    <3>2. Ticked(h) \in States
      BY <3>1, <1>a DEF States, Ticked
    <3>3. LET r == [run[h] EXCEPT !.pc = "save", !.id = active, !.s = Ticked(h)]
           IN  r \in Handling /\ r.op = run[h].op /\ r.pc = "save" /\ r.id = active
      BY <3>1, <3>2, <1>c, <1>d DEF Handling
    <3>4. LET r == [run[h] EXCEPT !.pc = "save", !.id = active, !.s = Ticked(h)]
          IN  Aimed(r.op, r.pc, r.id, r.block)
      BY <3>1, <3>3 DEF Aimed, Learning
    <3> QED BY <2>0, <2>2, <3>3, <3>4, BecomeType
  <2>3. CASE Goto(h, "leave")
    BY <2>3, <2>0, <1>c, <1>f DEF Aimed, Learning
  <2> QED BY <1>2, <2>1, <2>2, <2>3 DEF Load
<1>3. ASSUME NEW h \in Handlers, Create(h) PROVE TypeOK'
  <2>1. sess' \in [Ids -> States]
    BY <1>3, <1>a DEF Create, TypeOK, States
  <2> QED BY <1>3, <1>b, <1>c, <1>d, <1>f, <2>1 DEF Create, StoreType, Aimed, Learning
<1>4. ASSUME NEW h \in Handlers, Activate(h) PROVE TypeOK'
  BY <1>4, <1>b, <1>c, <1>a, <1>d, <1>f DEF Aimed, Learning, InLock, Activate, StoreType, TypeOK, Handling
<1>5. ASSUME NEW h \in Handlers, Save(h) PROVE TypeOK'
  <2>1. run[h].id \in Nat /\ run[h].s \in States
    BY <1>a DEF TypeOK, Handling
  <2>2. Block(run[h].id) \in 0..Blocks /\ Block(run[h].id) # 0
    BY <2>1, <1>a, BlockType DEF Days
  <2>3. StoreType'
    BY <1>5, <2>1, <1>b DEF Save, StoreType
  <2>4. ASSUME NEW pc \in {"hist", "learn", "leave"},
               Become(h, [run[h] EXCEPT !.block = Block(run[h].id), !.pc = pc])
        PROVE  TypeOK'
    <3> DEFINE r == [run[h] EXCEPT !.block = Block(run[h].id), !.pc = pc]
    <3>1. r \in Handling /\ r.id = run[h].id /\ r.pc = pc /\ r.block # 0
      BY <2>2, <1>c, <1>d DEF Handling
    <3>2. run[h].id # 0
      BY <1>5, <1>d DEF Save, Aimed
    <3>3. Aimed(r.op, r.pc, r.id, r.block)
      BY <3>1, <3>2 DEF Aimed
    <3> QED BY <2>3, <2>4, <3>1, <3>3, BecomeType
  <2> QED BY <1>5, <2>4 DEF Save
<1>6. ASSUME NEW h \in Handlers, ReadHistory(h) PROVE TypeOK'
  <2>1. run[h].id \in Ids
    BY <1>6, <1>a, <1>d DEF ReadHistory, Handling, Ids, Aimed
  <2> DEFINE r == [run[h] EXCEPT !.pc = "archive", !.hist = <<run[h].id>> \o history]
  <2>2. <<run[h].id>> \o history \in Seq(Ids)
    BY <2>1 DEF TypeOK
  <2>3. r \in Handling /\ r.id \in Ids /\ r.pc = "archive"
    BY <2>1, <2>2, <1>c, <1>d DEF Handling
  <2>4. Aimed(r.op, r.pc, r.id, r.block)
    BY <2>3, <1>a DEF Aimed, Ids, Learning
  <2> QED BY <1>6, <1>b, <2>3, <2>4, BecomeType DEF ReadHistory, StoreType
<1>7. ASSUME NEW h \in Handlers, Archive(h) PROVE TypeOK'
  BY <1>7, <1>b, <1>c, <1>d, <1>f DEF Aimed, Learning, InLock, Archive, StoreType, TypeOK, Handling
<1>8. ASSUME NEW h \in Handlers, Clear(h) PROVE TypeOK'
  BY <1>8, <1>a, <1>b, <1>c, <1>d, <1>f DEF Aimed, Learning, InLock, Clear, StoreType
<1>9. ASSUME NEW h \in Handlers, Leave(h) PROVE TypeOK'
  <2>1. LET r == [Idle EXCEPT !.pc = "first"]
             IN  r \in Handling /\ Aimed(r.op, r.pc, r.id, r.block)
    BY <1>i, <1>c DEF Idle, Handling, Aimed, Learning
  <2> QED BY <1>9, <1>b, IdleType, <2>1, BecomeType DEF Leave, StoreType, Idle
<1>10. ASSUME NEW h \in Handlers, FirstTick(h) PROVE TypeOK'
  <2>1. LET r == [Idle EXCEPT !.op = "tick", !.pc = "load"]
             IN  r \in Handling /\ Aimed(r.op, r.pc, r.id, r.block)
    BY <1>i, <1>c DEF Idle, Handling, Aimed, Learning
  <2> QED BY <1>10, <1>b, IdleType, <2>1, BecomeType DEF FirstTick, StoreType, Idle
<1>11. ASSUME NEW h \in Handlers, NEW b \in Days, Backtest(h, b) PROVE TypeOK'
  <2> DEFINE r == [Idle EXCEPT !.op = "teach", !.pc = "learn", !.block = b]
  <2>0. b \in 0..Blocks /\ b # 0
    BY <1>a DEF Days
  <2>1. r \in Handling /\ r.op = "teach" /\ r.pc = "learn" /\ r.block # 0
    BY <1>i, <2>0, <1>c DEF Handling
  <2>2. Aimed(r.op, r.pc, r.id, r.block)
    BY <2>1 DEF Aimed, Learning
  <2> QED BY <1>11, <1>b, <2>1, <2>2, BecomeType DEF Backtest, StoreType
<1>12. ASSUME NEW h \in Handlers, Reset(h) PROVE TypeOK'
  <2>1. LET r == [Idle EXCEPT !.op = "reset", !.pc = "learn"]
             IN  r \in Handling /\ Aimed(r.op, r.pc, r.id, r.block)
    BY <1>i, <1>c DEF Idle, Handling, Aimed, Learning
  <2> QED BY <1>12, <1>b, <2>1, BecomeType DEF Reset, StoreType
<1>13. ASSUME NEW h \in Handlers, LearnEnter(h) PROVE TypeOK'
  <2>1. StoreType'
    BY <1>13, <1>b DEF LearnEnter, StoreType
  <2>2. CASE Become(h, Taught(h))
    BY <2>1, <2>2, <1>e, <1>13, BecomeType DEF LearnEnter
  <2> QED BY <1>13, <2>1, <2>2, <1>c, <1>d, <1>f DEF Aimed, Learning, InLock, LearnEnter
<1>n. Nothing \in [Days -> Nat]
  BY DEF Nothing
<1>23. ASSUME NEW h \in Handlers, ReadParams(h) PROVE TypeOK'
  <2>1. StoreType'
    BY <1>23, <1>a, <1>b DEF ReadParams, StoreType
  <2>2. ASSUME NEW m \in {params, Nothing}, Become(h, [run[h] EXCEPT !.pc = "set", !.learnt = m])
        PROVE  TypeOK'
    <3> DEFINE r == [run[h] EXCEPT !.pc = "set", !.learnt = m]
    <3>1. m \in [Days -> Nat]
      BY <1>n DEF TypeOK
    <3>2. /\ r \in Handling /\ r.op = run[h].op /\ r.pc = "set" /\ r.id = run[h].id
          /\ r.block = run[h].block
      BY <1>c, <1>d, <3>1 DEF Handling
    <3>3. Aimed(r.op, r.pc, r.id, r.block)
      BY <1>23, <1>d, <3>2 DEF ReadParams, Aimed, Learning
    <3> HIDE DEF r
    <3> QED BY <2>1, <2>2, <3>2, <3>3, BecomeType DEF r
  <2>3. CASE Goto(h, "unlearn")
    BY <1>23, <1>c, <1>d, <1>f, <2>1, <2>3 DEF ReadParams, Aimed, Learning
  <2> QED BY <1>23, <2>2, <2>3 DEF ReadParams
<1>14. ASSUME NEW h \in Handlers, SetParams(h) PROVE TypeOK'
  <2>1. run[h].learnt \in [Days -> Nat]
    BY <1>d DEF Handling
  <2>0. params' = [run[h].learnt EXCEPT ![run[h].block] = @ + 1]
    BY <1>14 DEF SetParams
  <2>2. params' \in [Days -> Nat]
    <3> DEFINE L == run[h].learnt
               B == run[h].block
    <3>1. L \in [Days -> Nat] /\ params' = [L EXCEPT ![B] = @ + 1]
      BY <2>0, <2>1
    <3> HIDE DEF L, B
    <3>2. params' = [b \in Days |-> IF b = B THEN L[b] + 1 ELSE L[b]]
      BY <3>1
    <3>3. \A b \in Days : (IF b = B THEN L[b] + 1 ELSE L[b]) \in Nat
      BY <3>1
    <3> QED BY <3>2, <3>3
  <2> DEFINE r == [run[h] EXCEPT !.pc = "days", !.learnt = Nothing]
  <2>3. StoreType'
    BY <1>14, <1>b, <2>2 DEF SetParams, StoreType
  <2>4. /\ r \in Handling /\ r.op = run[h].op /\ r.pc = "days" /\ r.id = run[h].id
        /\ r.block = run[h].block
    BY <1>c, <1>d, <1>n DEF Handling
  <2>5. Aimed(r.op, r.pc, r.id, r.block)
    BY <1>14, <1>d, <2>4 DEF SetParams, Aimed, Learning
  <2>6. Become(h, r)
    BY <1>14 DEF SetParams
  <2> HIDE DEF r
  <2> QED BY <2>3, <2>4, <2>5, <2>6, BecomeType
<1>15. ASSUME NEW h \in Handlers, SetDays(h) PROVE TypeOK'
  <2>1. run[h].block \in Days
    BY <1>15, <1>a, <1>d DEF SetDays, Handling, Days, Aimed
  <2> QED BY <1>15, <1>b, <1>c, <2>1, <1>d, <1>f DEF Aimed, Learning, InLock, SetDays, StoreType, Learning
<1>16. ASSUME NEW h \in Handlers, ResetParams(h) PROVE TypeOK'
  BY <1>16, <1>b, <1>c, <1>d, <1>f, <1>n DEF Aimed, Learning, InLock, ResetParams, StoreType
<1>17. ASSUME NEW h \in Handlers, ForgetDays(h) PROVE TypeOK'
  BY <1>17, <1>b, <1>c, <1>d, <1>f DEF Aimed, Learning, InLock, ForgetDays, StoreType
<1>18. ASSUME NEW h \in Handlers, LearnLeave(h) PROVE TypeOK'
  BY <1>18, <1>b, <1>e, BecomeType DEF LearnLeave, StoreType
<1>19. ASSUME NEW h \in Handlers, Die(h) PROVE TypeOK'
  BY <1>19, <1>a, <1>b, IdleType, BecomeType DEF Idle, Die, StoreType
<1>20. ASSUME NEW h \in Handlers, Fail(h) PROVE TypeOK'
  <2>1. StoreType'
    BY <1>20, <1>a, <1>b DEF Fail, StoreType
  <2>2. CASE Goto(h, "leave")
    BY <1>20, <1>c, <1>d, <1>f, <2>1, <2>2 DEF Aimed, Learning, Fail
  <2>3. CASE Goto(h, "unlearn") /\ run[h].pc \in {"params", "set", "days", "reset", "forget"}
    <3>1. Aimed(run[h].op, "unlearn", run[h].id, run[h].block)
      BY <1>d, <2>3 DEF Aimed, Learning
    <3> QED BY <1>c, <1>f, <2>1, <2>3, <3>1
  <2> QED BY <1>20, <2>2, <2>3 DEF Fail
<1>21. CASE Expire \/ LearnExpire
  BY <1>21 DEF Expire, LearnExpire, TypeOK
<1>22. CASE UNCHANGED vars
  BY <1>22 DEF vars, TypeOK
<1> QED
  BY <1>1, <1>2, <1>3, <1>4, <1>5, <1>6, <1>7, <1>8, <1>9, <1>10, <1>11, <1>12, <1>13, <1>14,
     <1>15, <1>16, <1>17, <1>18, <1>19, <1>20, <1>21, <1>22, <1>23 DEF Next, Step

\* Every state of the session and of its handlers is well typed (paper.ts, learning.ts).
THEOREM PaperTypeCorrect == Spec => []TypeOK
<1>1. Init => TypeOK
  <2> SUFFICES ASSUME Init PROVE TypeOK
    OBVIOUS
  <2>1. Sessions \in Nat /\ Blocks \in Nat /\ MaxKills \in Nat
    BY PaperAssumption DEF PaperAssumption
  <2>2. Idle.s \in States
    BY DEF Idle, States
  <2>3. Aimed(Idle.op, Idle.pc, Idle.id, Idle.block)
    BY DEF Idle, Aimed, Learning
  <2>4. Idle \in Handling
    BY PaperAssumption, IdleType
  <2>5. run \in [Handlers -> Handling] /\ \A h \in Handlers : run[h] = Idle
    BY <2>4 DEF Init
  <2>6. lock \in BOOLEAN /\ learnLock \in BOOLEAN
    BY DEF Init
  <2>8. active \in 0..Sessions /\ kills \in 0..MaxKills
    BY <2>1 DEF Init
  <2>7. sess \in [Ids -> States] /\ history \in Seq(Ids) /\ params \in [Days -> Nat] /\ days \subseteq Days
    BY <2>2 DEF Init, Nothing
  <2> QED BY <2>3, <2>5, <2>6, <2>7, <2>8 DEF TypeOK
<1> QED BY <1>1, TypeNext, PaperAssumption, PTL DEF Spec

-----------------------------------------------------------------------------
(* The session: one holder of paper:lock, and what it knows stays true. *)

\* A step of a handler that is not under the lock, neither before nor after, and leaves the
\* session alone.
LEMMA Outside ==
  ASSUME TypeOK, SessionInv, NEW h \in Handlers, NEW r, Become(h, r), ~InLock(h),
         r.op \notin {"tick", "start", "stop"}, r.pc \notin Calls,
         UNCHANGED <<active, sess, history>>, lock' = lock
  PROVE  SessionInv'
<1>1. \A k \in Handlers : run'[k] = IF k = h THEN r ELSE run[k]
  BY DEF Become, TypeOK
<1>2. \A k \in Handlers : InLock(k)' => InLock(k) /\ k # h
  BY <1>1 DEF InLock
<1>3. OneHolder'
  BY <1>1, <1>2 DEF SessionInv, OneHolder, InLock
<1>4. ASSUME NEW k \in Handlers, InLock(k)' PROVE Knows(k)'
  <2>1. run'[k] = run[k] /\ InLock(k)
    BY <1>1, <1>2, <1>4
  <2> QED BY <2>1 DEF SessionInv, Knows, Running
<1>5. StoreInv'
  BY DEF SessionInv, StoreInv, ArchivedOnce
<1> QED BY <1>3, <1>4, <1>5 DEF SessionInv

\* The holder goes on under the lock: nobody else is there whose knowledge could break.
LEMMA Holding ==
  ASSUME TypeOK, SessionInv, NEW h \in Handlers, NEW r, Become(h, r), InLock(h),
         r.op \in {"tick", "start", "stop"}, r.pc \in Calls \cup {"learn", "params", "set", "days", "unlearn"},
         lock' = lock, Knows(h)', StoreInv'
  PROVE  SessionInv'
<1>1. \A k \in Handlers : run'[k] = IF k = h THEN r ELSE run[k]
  BY DEF Become, TypeOK
<1>2. \A k \in Handlers : InLock(k)' => k = h
  BY <1>1 DEF InLock, SessionInv, OneHolder
<1>3. OneHolder'
  BY <1>1, <1>2 DEF SessionInv, OneHolder, InLock
<1> QED BY <1>2, <1>3 DEF SessionInv

\* The lock is taken when it is free, or let go of by its holder.
LEMMA Entering ==
  ASSUME TypeOK, SessionInv, NEW h \in Handlers, NEW r, Become(h, r), ~lock, lock',
         r.op \in {"tick", "start", "stop"}, r.pc = "load", UNCHANGED <<active, sess, history>>
  PROVE  SessionInv'
<1>1. \A k \in Handlers : run'[k] = IF k = h THEN r ELSE run[k]
  BY DEF Become, TypeOK
<1>2. \A k \in Handlers : InLock(k)' => k = h
  BY <1>1 DEF InLock, SessionInv, OneHolder
<1>3. OneHolder'
  BY <1>1, <1>2 DEF SessionInv, OneHolder, InLock, Calls
<1>4. Knows(h)'
  BY <1>1 DEF Knows
<1>5. StoreInv'
  BY DEF SessionInv, StoreInv, ArchivedOnce
<1> QED BY <1>2, <1>3, <1>4, <1>5 DEF SessionInv

LEMMA Leaving ==
  ASSUME TypeOK, SessionInv, NEW h \in Handlers, NEW r, Become(h, r), InLock(h),
         r.op \notin {"tick", "start", "stop"}, r.pc \notin Calls, UNCHANGED <<active, sess, history>>
  PROVE  SessionInv'
<1>1. \A k \in Handlers : run'[k] = IF k = h THEN r ELSE run[k]
  BY DEF Become, TypeOK
<1>2. \A k \in Handlers : ~InLock(k)'
  BY <1>1 DEF InLock, SessionInv, OneHolder
<1>3. OneHolder'
  BY <1>1, <1>2 DEF SessionInv, OneHolder, InLock
<1>5. StoreInv'
  BY DEF SessionInv, StoreInv, ArchivedOnce
<1> QED BY <1>2, <1>3, <1>5 DEF SessionInv

LEMMA SessionNext ==
  PaperAssumption /\ ~LockLost /\ TypeOK /\ SessionInv /\ [Next]_vars => SessionInv'
<1> SUFFICES ASSUME PaperAssumption, ~LockLost, TypeOK, SessionInv, [Next]_vars PROVE SessionInv'
  OBVIOUS
<1> USE DEF store, Keep, At
<1>a. ASSUME NEW h \in Handlers PROVE run[h] \in Handling
  BY DEF TypeOK
<1>b. ASSUME NEW h \in Handlers, run[h].pc \in Calls PROVE InLock(h) /\ Knows(h)
  BY <1>b DEF SessionInv, OneHolder
<1>c. ASSUME NEW h \in Handlers, InLock(h) PROVE Knows(h) /\ run[h].op \in {"tick", "start", "stop"}
  BY <1>c DEF SessionInv, InLock
<1>d. StoreInv
  BY DEF SessionInv
\* a step of the holder to its next command that leaves the session alone
<1>p. ASSUME NEW h \in Handlers, InLock(h), NEW pc \in Calls \cup {"learn", "params", "set", "days", "unlearn"},
             NEW r, Become(h, r), r.op = run[h].op, r.pc = pc, r.id = run[h].id, r.s = run[h].s,
             UNCHANGED <<active, sess, history, lock>>,
             pc = "leave" \/ {run[h].pc, pc} \subseteq {"learn", "params", "set", "days", "unlearn"}
      PROVE  SessionInv'
  <2>1. run'[h] = r
    BY <1>p DEF Become, TypeOK
  <2>2. Knows(h)'
    BY <1>c, <1>p, <2>1 DEF Knows, Running
  <2>3. StoreInv'
    BY <1>d, <1>p DEF StoreInv, ArchivedOnce
  <2> QED BY <1>c, <1>p, <2>2, <2>3, Holding
<1>e. ASSUME NEW h \in Handlers, InLock(h), NEW pc \in Calls \cup {"learn", "params", "set", "days", "unlearn"},
             Goto(h, pc), UNCHANGED <<active, sess, history, lock>>,
             pc = "leave" \/ {run[h].pc, pc} \subseteq {"learn", "params", "set", "days", "unlearn"}
      PROVE  SessionInv'
  <2> DEFINE r == [run[h] EXCEPT !.pc = pc]
  <2>1. r.op = run[h].op /\ r.pc = pc /\ r.id = run[h].id /\ r.s = run[h].s /\ Become(h, r)
    BY <1>a, <1>e DEF Handling, Goto
  <2> HIDE DEF r
  <2> QED BY <1>e, <1>p, <2>1
\* a step of a learner that is not under the lock
<1>f. ASSUME NEW h \in Handlers, ~InLock(h), NEW pc, pc \notin Calls, Goto(h, pc),
             UNCHANGED <<active, sess, history, lock>>
      PROVE  SessionInv'
  <2> DEFINE r == [run[h] EXCEPT !.pc = pc]
  <2>1. r.op = run[h].op /\ r.pc = pc
    BY <1>a DEF Handling
  <2> QED BY <1>f, <2>1, Outside DEF Goto, InLock
<1>g. ASSUME NEW h \in Handlers, Become(h, Idle), UNCHANGED <<active, sess, history, lock>> PROVE SessionInv'
  <2>1. Idle.op \notin {"tick", "start", "stop"} /\ Idle.pc \notin Calls
    BY DEF Idle, Calls
  <2>2. CASE InLock(h)
    BY <1>g, <2>1, <2>2, Leaving
  <2>3. CASE ~InLock(h)
    BY <1>g, <2>1, <2>3, Outside
  <2> QED BY <2>2, <2>3
<1>h. ASSUME NEW h \in Handlers, run[h].pc \in {"learn", "unlearn"}, Become(h, Taught(h)),
             UNCHANGED <<active, sess, history, lock>>
      PROVE  SessionInv'
  <2>1. CASE ~InLock(h)
    BY <1>g, <1>h, <2>1 DEF Taught
  <2>2. CASE InLock(h)
    <3> DEFINE r == [run[h] EXCEPT !.pc = "resave"]
    <3>1. r.op = run[h].op /\ r.pc = "resave" /\ r.id = run[h].id /\ r.s = run[h].s /\ run'[h] = r /\ Become(h, r)
      BY <1>a, <1>h, <2>2 DEF Handling, Become, TypeOK, Taught
    <3>a. Knows(h) /\ run[h].pc \in {"learn", "unlearn"}
      BY <1>c, <1>h, <2>2
    <3>0. /\ r.id = active /\ r.id # 0 /\ sess[r.id] = r.s /\ sess[r.id].status = "finished"
          /\ \A i \in 1..Len(history) : history[i] # r.id
      BY <3>a, <3>1 DEF Knows
    <3>2. Knows(h)'
      BY <1>h, <3>0, <3>1 DEF Knows
    <3>3. StoreInv'
      BY <1>d, <1>h DEF StoreInv, ArchivedOnce
    <3> QED BY <1>c, <1>h, <2>2, <3>1, <3>2, <3>3, Holding DEF Calls
  <2> QED BY <2>1, <2>2
<1>1. ASSUME NEW h \in Handlers, Tick(h) \/ Start(h) \/ Stop(h) PROVE SessionInv'
  <2>1. ASSUME NEW op \in {"tick", "start", "stop"}, Enter(h, op) PROVE SessionInv'
    <3> DEFINE r == [Idle EXCEPT !.op = op, !.pc = "load"]
    <3>1. r.op = op /\ r.pc = "load"
      BY DEF Idle
    <3> QED BY <2>1, <3>1, Entering DEF Enter, Free
  <2> QED BY <1>1, <2>1 DEF Tick, Start, Stop
<1>2. ASSUME NEW h \in Handlers, Load(h) PROVE SessionInv'
  <2>0. InLock(h) /\ StoreInv'
    BY <1>2, <1>b, <1>d DEF Load, Calls, StoreInv, ArchivedOnce
  <2>1. CASE /\ MayStart /\ \E i \in Ids : sess[i].status = "none"
             /\ Become(h, [run[h] EXCEPT !.pc = "create", !.id = New])
    <3> DEFINE r == [run[h] EXCEPT !.pc = "create", !.id = New]
    <3>1. New \in Ids /\ New # 0 /\ sess[New].status = "none"
      BY <2>1 DEF New, Ids
    <3>2. r.op = run[h].op /\ r.pc = "create" /\ r.id = New /\ run'[h] = r
      BY <1>a, <2>1 DEF Handling, Become, TypeOK
    <3>3. Knows(h)'
      BY <1>2, <2>1, <3>1, <3>2 DEF Load, Knows, MayStart, Running
    <3> QED BY <1>2, <1>c, <2>0, <2>1, <3>2, <3>3, Holding DEF Load, Calls
  <2>2. CASE /\ Running(active) /\ run[h].op # "start"
             /\ Become(h, [run[h] EXCEPT !.pc = "save", !.id = active, !.s = Ticked(h)])
    <3> DEFINE r == [run[h] EXCEPT !.pc = "save", !.id = active, !.s = Ticked(h)]
    <3>1. r.op = run[h].op /\ r.pc = "save" /\ r.id = active /\ r.s = Ticked(h) /\ run'[h] = r
      BY <1>a, <2>2 DEF Handling, Become, TypeOK
    <3>2. Ticked(h).status # "none"
      BY DEF Ticked
    <3>3. Knows(h)'
      BY <1>2, <2>2, <3>1, <3>2 DEF Load, Knows, Running
    <3> QED BY <1>2, <1>c, <2>0, <2>2, <3>1, <3>3, Holding DEF Load, Calls
  <2>3. CASE Goto(h, "leave")
    BY <1>2, <1>e, <2>0, <2>3 DEF Load, Calls
  <2> QED BY <1>2, <2>1, <2>2, <2>3 DEF Load
<1>3. ASSUME NEW h \in Handlers, Create(h) PROVE SessionInv'
  <2> DEFINE r == [run[h] EXCEPT !.pc = "activate"]
  <2>1. /\ InLock(h) /\ run[h].id \in Ids /\ sess[run[h].id].status = "none" /\ ~Running(active)
        /\ sess[run[h].id] \in States /\ active # run[h].id
    <3>1. run[h].pc = "create" /\ InLock(h) /\ Knows(h) /\ run[h].id \in 0..Sessions
      BY <1>3, <1>a, <1>b DEF Create, Calls, Handling
    <3>2. run[h].id \in Ids /\ sess[run[h].id].status = "none" /\ ~Running(active)
      BY <3>1 DEF Knows, Ids, PaperAssumption
    <3> QED BY <3>1, <3>2, <1>d DEF StoreInv, TypeOK, Ids
  <2>2. r.op = run[h].op /\ r.pc = "activate" /\ r.id = run[h].id /\ run'[h] = r /\ Become(h, r)
    BY <1>a, <1>3 DEF Handling, Become, Goto, Create, TypeOK
  <2>3. /\ \A i \in Ids : i # run[h].id => sess'[i] = sess[i]
        /\ sess'[run[h].id].status = "running"
    BY <1>3, <2>1 DEF Create, TypeOK, States
  <2>4. StoreInv'
    <3>1. \A i \in 1..Len(history) : history[i] # run[h].id /\ history[i] \in Ids
      BY <1>d, <2>1 DEF StoreInv, ArchivedOnce, TypeOK
    <3>2. active # 0 => active \in Ids
      BY DEF TypeOK, Ids
    <3> QED BY <1>3, <1>d, <2>1, <2>3, <3>1, <3>2 DEF Create, StoreInv, ArchivedOnce
  <2>5. Knows(h)'
    BY <1>3, <2>1, <2>2, <2>3 DEF Knows, Running, Create, TypeOK, Ids
  <2> QED BY <1>3, <1>c, <2>1, <2>2, <2>4, <2>5, Holding DEF Create, Calls
<1>4. ASSUME NEW h \in Handlers, Activate(h) PROVE SessionInv'
  <2>1. InLock(h) /\ StoreInv'
    BY <1>4, <1>b, <1>d DEF Activate, Calls, Knows, StoreInv, ArchivedOnce
  <2> DEFINE r == [run[h] EXCEPT !.pc = "leave"]
  <2>2. r.op = run[h].op /\ r.pc = "leave" /\ run'[h] = r /\ Become(h, r)
    BY <1>a, <1>4 DEF Handling, Become, Goto, Activate, TypeOK
  <2>3. Knows(h)'
    BY <2>2 DEF Knows
  <2> QED BY <1>4, <1>c, <2>1, <2>2, <2>3, Holding DEF Activate, Calls
<1>5. ASSUME NEW h \in Handlers, Save(h) PROVE SessionInv'
  <2>1. PICK pc \in {"hist", "learn", "leave"} :
          /\ run' = [run EXCEPT ![h] = [run[h] EXCEPT !.block = Block(run[h].id), !.pc = pc]]
          /\ (run[h].pc = "resave") <=> (pc = "hist")
          /\ pc = "learn" => run[h].s.status = "finished"
    <3>1. CASE run[h].pc = "resave"
      <4>1. run' = [run EXCEPT ![h] = [run[h] EXCEPT !.block = Block(run[h].id), !.pc = "hist"]]
        BY <1>5, <1>a, <3>1 DEF Save, Become, Handling
      <4> QED BY <3>1, <4>1
    <3>2. CASE run[h].pc # "resave" /\ run[h].s.status = "finished"
      BY <1>5, <1>a, <3>2 DEF Save, Become, Handling
    <3>3. CASE run[h].pc # "resave" /\ run[h].s.status # "finished"
      BY <1>5, <1>a, <3>3 DEF Save, Become, Handling
    <3> QED BY <3>1, <3>2, <3>3
  <2> DEFINE r == [run[h] EXCEPT !.block = Block(run[h].id), !.pc = pc]
  <2>2. r.op = run[h].op /\ r.pc = pc /\ r.id = run[h].id /\ r.s = run[h].s /\ run'[h] = r /\ Become(h, r)
    BY <1>a, <2>1 DEF Handling, Become, TypeOK
  <2>3. InLock(h) /\ Knows(h) /\ run[h].id = active /\ active \in Ids
    <3>1. run[h].pc \in {"save", "resave"} /\ InLock(h) /\ Knows(h)
      BY <1>5, <1>b DEF Save, Calls
    <3>2. run[h].id = active /\ active # 0
      BY <3>1 DEF Knows, Running
    <3> QED BY <3>1, <3>2 DEF TypeOK, Ids, PaperAssumption
  <2>4. /\ \A i \in Ids : i # active => sess'[i] = sess[i]
        /\ sess'[active] = run[h].s
    BY <1>5, <2>3 DEF Save, TypeOK
  <2>5. \A i \in 1..Len(history) : history[i] # active
    <3>1. CASE run[h].pc = "save"
      BY <3>1, <1>d, <2>3 DEF Knows, Running, StoreInv, ArchivedOnce
    <3>2. CASE run[h].pc = "resave"
      BY <3>2, <2>3 DEF Knows
    <3> QED BY <1>5, <3>1, <3>2 DEF Save
  <2>6. StoreInv'
    <3>1. run[h].s.status # "none"
      BY <1>5, <2>3 DEF Save, Knows
    <3>2. \A i \in 1..Len(history) : history[i] \in Ids
      BY DEF TypeOK
    <3> QED BY <1>5, <1>d, <2>3, <2>4, <2>5, <3>1, <3>2 DEF StoreInv, ArchivedOnce, Save
  <2>7. pc # "leave" => run[h].s.status = "finished"
    BY <1>5, <1>b, <2>1 DEF Save, Knows, Calls
  <2>8. Knows(h)'
    BY <1>5, <2>2, <2>3, <2>4, <2>5, <2>7 DEF Knows, Running, Save, Ids
  <2> QED BY <1>5, <1>c, <2>2, <2>3, <2>6, <2>8, Holding DEF Save, Calls
<1>6. ASSUME NEW h \in Handlers, ReadHistory(h) PROVE SessionInv'
  <2> DEFINE r == [run[h] EXCEPT !.pc = "archive", !.hist = <<run[h].id>> \o history]
  <2>1. InLock(h) /\ Knows(h) /\ StoreInv'
    BY <1>6, <1>b, <1>d DEF ReadHistory, Calls, StoreInv, ArchivedOnce
  <2>2. /\ r.op = run[h].op /\ r.pc = "archive" /\ r.id = run[h].id /\ r.s = run[h].s
        /\ r.hist = <<run[h].id>> \o history /\ run'[h] = r /\ Become(h, r)
    BY <1>a, <1>6 DEF Handling, Become, ReadHistory, TypeOK
  <2>3. Knows(h)'
    BY <1>6, <2>1, <2>2 DEF Knows, ReadHistory
  <2> QED BY <1>6, <1>c, <2>1, <2>2, <2>3, Holding DEF ReadHistory, Calls
<1>7. ASSUME NEW h \in Handlers, Archive(h) PROVE SessionInv'
  <2> DEFINE r == [run[h] EXCEPT !.pc = "clear"]
  <2>1. /\ InLock(h) /\ run[h].id \in Ids /\ run[h].id = active /\ run[h].id # 0
        /\ sess[run[h].id] = run[h].s /\ sess[run[h].id].status = "finished"
        /\ run[h].hist = <<run[h].id>> \o history
        /\ \A i \in 1..Len(history) : history[i] # run[h].id
    <3>1. run[h].pc = "archive" /\ InLock(h) /\ Knows(h) /\ run[h].id \in 0..Sessions
      BY <1>7, <1>a, <1>b DEF Archive, Calls, Handling
    <3>2. /\ run[h].id = active /\ run[h].id # 0
          /\ sess[run[h].id] = run[h].s /\ sess[run[h].id].status = "finished"
      <4>1. run[h].pc \in {"learn", "params", "set", "days", "unlearn", "resave", "hist", "archive", "clear"}
        BY <3>1
      <4> QED BY <3>1, <4>1 DEF Knows
    <3>3. \A i \in 1..Len(history) : history[i] # run[h].id
      <4>1. run[h].pc \in {"learn", "params", "set", "days", "unlearn", "resave", "hist", "archive"}
        BY <3>1
      <4> QED BY <3>1, <4>1 DEF Knows
    <3>4. run[h].hist = <<run[h].id>> \o history
      BY <3>1 DEF Knows
    <3>5. run[h].id \in Ids
      BY <3>1, <3>2, PaperAssumption DEF Ids
    <3> QED BY <3>1, <3>2, <3>3, <3>4, <3>5
  <2>2. r.op = run[h].op /\ r.pc = "clear" /\ r.id = run[h].id /\ r.s = run[h].s /\ run'[h] = r /\ Become(h, r)
    BY <1>a, <1>7 DEF Handling, Become, Goto, Archive, TypeOK
  <2>3. StoreInv'
    <3>1. /\ Len(history') = Len(history) + 1 /\ history'[1] = run[h].id
          /\ \A i \in 2..Len(history') : history'[i] = history[i - 1]
      BY <1>7, <2>1 DEF Archive, TypeOK
    <3> QED BY <1>7, <1>d, <2>1, <3>1 DEF StoreInv, ArchivedOnce, Archive, TypeOK
  <2>4. Knows(h)'
    BY <1>7, <2>1, <2>2 DEF Knows, Archive
  <2> QED BY <1>7, <1>c, <2>1, <2>2, <2>3, <2>4, Holding DEF Archive, Calls
<1>8. ASSUME NEW h \in Handlers, Clear(h) PROVE SessionInv'
  <2> DEFINE r == [run[h] EXCEPT !.pc = "leave"]
  <2>1. InLock(h) /\ StoreInv'
    BY <1>8, <1>b, <1>d DEF Clear, Calls, StoreInv, ArchivedOnce
  <2>2. r.op = run[h].op /\ r.pc = "leave" /\ run'[h] = r /\ Become(h, r)
    BY <1>a, <1>8 DEF Handling, Become, Goto, Clear, TypeOK
  <2>3. Knows(h)'
    BY <2>2 DEF Knows
  <2> QED BY <1>8, <1>c, <2>1, <2>2, <2>3, Holding DEF Clear, Calls
<1>9. ASSUME NEW h \in Handlers, Leave(h) PROVE SessionInv'
  <2>1. CASE Become(h, Idle)
    BY <1>9, <1>b, <2>1, Leaving DEF Leave, Idle, Calls
  <2>2. CASE Become(h, [Idle EXCEPT !.pc = "first"])
    <3> DEFINE r == [Idle EXCEPT !.pc = "first"]
    <3>1. r.op = "idle" /\ r.pc = "first"
      BY DEF Idle
    <3> QED BY <1>9, <1>b, <2>2, <3>1, Leaving DEF Leave, Calls
  <2> QED BY <1>9, <2>1, <2>2 DEF Leave
<1>10. ASSUME NEW h \in Handlers, FirstTick(h) PROVE SessionInv'
  <2>1. CASE ~lock
    <3> DEFINE r == [Idle EXCEPT !.op = "tick", !.pc = "load"]
    <3>1. r.op = "tick" /\ r.pc = "load"
      BY DEF Idle
    <3> QED BY <1>10, <2>1, <3>1, Entering DEF FirstTick, Free
  <2>2. CASE lock
    BY <1>10, <1>g, <2>2 DEF FirstTick, Free, TypeOK
  <2> QED BY <2>1, <2>2
<1>11. ASSUME NEW h \in Handlers, NEW b \in Days, Backtest(h, b) PROVE SessionInv'
  <2> DEFINE r == [Idle EXCEPT !.op = "teach", !.pc = "learn", !.block = b]
  <2>1. r.op = "teach" /\ r.pc = "learn"
    BY DEF Idle
  <2>2. ~InLock(h)
    BY <1>11 DEF Backtest, SessionInv, OneHolder, Calls
  <2> QED BY <1>11, <2>1, <2>2, Outside DEF Backtest, Calls
<1>12. ASSUME NEW h \in Handlers, Reset(h) PROVE SessionInv'
  <2> DEFINE r == [Idle EXCEPT !.op = "reset", !.pc = "learn"]
  <2>1. r.op = "reset" /\ r.pc = "learn"
    BY DEF Idle
  <2>2. ~InLock(h)
    BY <1>12 DEF Reset, SessionInv, OneHolder, Calls
  <2> QED BY <1>12, <2>1, <2>2, Outside DEF Reset, Calls
<1>13. ASSUME NEW h \in Handlers, LearnEnter(h) PROVE SessionInv'
  <2>1. CASE Become(h, Taught(h))
    BY <1>13, <1>h, <2>1 DEF LearnEnter
  <2>2. CASE run[h].op = "reset" /\ Goto(h, "reset")
    BY <1>13, <1>f, <2>2 DEF LearnEnter, InLock, Calls
  <2>3. CASE Goto(h, "params") /\ InLock(h)
    BY <1>13, <1>e, <2>3 DEF LearnEnter, Calls
  <2>4. CASE Goto(h, "params") /\ ~InLock(h)
    BY <1>13, <1>f, <2>4 DEF LearnEnter, Calls
  <2> QED BY <1>13, <2>1, <2>2, <2>3, <2>4 DEF LearnEnter
<1>14. ASSUME NEW h \in Handlers, ReadParams(h) \/ SetParams(h) \/ SetDays(h) PROVE SessionInv'
  <2>1. PICK r : /\ Become(h, r) /\ r.op = run[h].op /\ r.id = run[h].id /\ r.s = run[h].s
                 /\ r.pc \in {"set", "days", "unlearn"}
    <3>1. \A m : LET r == [run[h] EXCEPT !.pc = "set", !.learnt = m]
                 IN  r.op = run[h].op /\ r.id = run[h].id /\ r.s = run[h].s /\ r.pc = "set"
      BY <1>a DEF Handling
    <3>2. LET r == [run[h] EXCEPT !.pc = "days", !.learnt = Nothing]
          IN  r.op = run[h].op /\ r.id = run[h].id /\ r.s = run[h].s /\ r.pc = "days"
      BY <1>a DEF Handling
    <3>3. LET r == [run[h] EXCEPT !.pc = "unlearn"]
          IN  r.op = run[h].op /\ r.id = run[h].id /\ r.s = run[h].s /\ r.pc = "unlearn"
      BY <1>a DEF Handling
    <3>4. CASE ReadParams(h)
      <4>1. (\E m : Become(h, [run[h] EXCEPT !.pc = "set", !.learnt = m])) \/ Goto(h, "unlearn")
        BY <3>4 DEF ReadParams
      <4> QED BY <3>1, <3>3, <4>1 DEF Goto
    <3>5. CASE SetParams(h)
      BY <3>2, <3>5 DEF SetParams
    <3>6. CASE SetDays(h)
      BY <3>3, <3>6 DEF SetDays, Goto
    <3> QED BY <1>14, <3>4, <3>5, <3>6
  <2>2. run[h].pc \in {"params", "set", "days"} /\ UNCHANGED <<active, sess, history, lock>>
    BY <1>14 DEF ReadParams, SetParams, SetDays
  <2>3. CASE InLock(h)
    BY <1>p, <2>1, <2>2, <2>3
  <2>4. CASE ~InLock(h)
    BY <2>1, <2>2, <2>4, Outside DEF InLock, Calls
  <2> QED BY <2>3, <2>4
<1>15. ASSUME NEW h \in Handlers, ResetParams(h) \/ ForgetDays(h) PROVE SessionInv'
  <2>1. ~InLock(h)
    BY <1>15 DEF ResetParams, ForgetDays, SessionInv, OneHolder, Calls
  <2> QED BY <1>15, <1>f, <2>1 DEF ResetParams, ForgetDays, Calls
<1>16. ASSUME NEW h \in Handlers, LearnLeave(h) PROVE SessionInv'
  BY <1>16, <1>h DEF LearnLeave
<1>17. ASSUME NEW h \in Handlers, Die(h) PROVE SessionInv'
  BY <1>17, <1>g DEF Die
<1>18. ASSUME NEW h \in Handlers, Fail(h) PROVE SessionInv'
  <2>1. CASE InLock(h) /\ Goto(h, "leave")
    BY <1>18, <1>e, <2>1 DEF Fail, Calls
  <2>2. CASE run[h].pc \in {"params", "set", "days"} /\ Goto(h, "unlearn") /\ InLock(h)
    BY <1>18, <1>e, <2>2 DEF Fail
  <2>3. CASE Goto(h, "unlearn") /\ ~InLock(h)
    BY <1>18, <1>f, <2>3 DEF Fail, Calls
  <2>4. run[h].pc \in {"reset", "forget"} => ~InLock(h)
    BY DEF SessionInv, OneHolder, Calls
  <2> QED BY <1>18, <2>1, <2>2, <2>3, <2>4 DEF Fail
<1>19. CASE Expire
  <2>1. \A h \in Handlers : ~InLock(h) /\ ~InLock(h)'
    BY <1>19 DEF Expire, InLock
  <2>2. OneHolder'
    BY <1>19, <2>1 DEF Expire, SessionInv, OneHolder
  <2> QED BY <1>19, <1>d, <2>1, <2>2 DEF Expire, SessionInv, StoreInv, ArchivedOnce
<1>20. CASE UNCHANGED <<lock, active, sess, history, run>>
  BY <1>20 DEF SessionInv, OneHolder, InLock, Knows, Running, StoreInv, ArchivedOnce
<1>21. CASE LearnExpire \/ UNCHANGED vars
  BY <1>20, <1>21 DEF LearnExpire, vars
<1> QED
  BY <1>1, <1>2, <1>3, <1>4, <1>5, <1>6, <1>7, <1>8, <1>9, <1>10, <1>11, <1>12, <1>13, <1>14,
     <1>15, <1>16, <1>17, <1>18, <1>19, <1>21 DEF Next, Step

\* As long as no lock is lost under its holder, the history holds each session once
\* and only finished ones, whatever ticks, stops and starts met and whoever died in between.
THEOREM ArchivedAtMostOnce == ~LockLost => (Spec => []ArchivedOnce)
<1> SUFFICES ASSUME ~LockLost PROVE Spec => []ArchivedOnce
  OBVIOUS
<1>1. Init => SessionInv
  <2> SUFFICES ASSUME Init PROVE SessionInv
    OBVIOUS
  <2>1. \A h \in Handlers : run[h] = Idle
    BY DEF Init
  <2>2. \A h \in Handlers : ~InLock(h) /\ run[h].pc \notin Calls
    BY <2>1 DEF InLock, Idle, Calls
  <2> QED BY <2>2 DEF Init, SessionInv, OneHolder, StoreInv, ArchivedOnce
<1>2. SessionInv /\ TypeOK /\ [Next]_vars => SessionInv'
  BY SessionNext, PaperAssumption
<1>3. SessionInv => ArchivedOnce
  BY DEF SessionInv, StoreInv
<1> QED BY <1>1, <1>2, <1>3, PaperTypeCorrect, PTL DEF Spec

\* A step replaces no running session and touches no finished one.
LEMMA RunningNext ==
  PaperAssumption /\ TypeOK /\ SessionInv /\ [Next]_vars =>
    [/\ active' # active => ~Running(active)
     /\ \A i \in Ids : sess[i].status = "finished" => sess'[i] = sess[i]]_vars
<1> SUFFICES ASSUME PaperAssumption, TypeOK, SessionInv, Next
             PROVE  /\ active' # active => ~Running(active)
                    /\ \A i \in Ids : sess[i].status = "finished" => sess'[i] = sess[i]
  OBVIOUS
<1> USE DEF store, Keep, At
<1>a. ASSUME NEW h \in Handlers, run[h].pc \in Calls PROVE Knows(h)
  BY <1>a DEF SessionInv, OneHolder
<1>1. ASSUME NEW h \in Handlers, Create(h)
      PROVE  active' = active /\ \A i \in Ids : sess[i].status = "finished" => sess'[i] = sess[i]
  <2>1. sess[run[h].id].status = "none"
    BY <1>1, <1>a DEF Create, Calls, Knows
  <2> QED BY <1>1, <2>1 DEF Create, TypeOK
<1>2. ASSUME NEW h \in Handlers, Activate(h) PROVE ~Running(active) /\ sess' = sess
  BY <1>2, <1>a DEF Activate, Calls, Knows
<1>3. ASSUME NEW h \in Handlers, Save(h)
      PROVE  active' = active /\ \A i \in Ids : sess[i].status = "finished" => sess'[i] = sess[i]
  <2>1. CASE run[h].pc = "save"
    BY <1>3, <1>a, <2>1 DEF Save, Calls, Knows, Running, TypeOK
  <2>2. CASE run[h].pc = "resave"
    <3>1. sess[run[h].id] = run[h].s
      BY <1>a, <2>2 DEF Calls, Knows
    <3> QED BY <1>3, <3>1 DEF Save, TypeOK
  <2> QED BY <1>3, <2>1, <2>2 DEF Save
<1>4. ASSUME NEW h \in Handlers, Clear(h) PROVE ~Running(active) /\ sess' = sess
  <2>1. sess[active].status = "finished"
    BY <1>4, <1>a DEF Clear, Calls, Knows
  <2> QED BY <1>4, <2>1 DEF Clear, Running
<1>5. ASSUME NEW h \in Handlers,
             \/ Tick(h) \/ Start(h) \/ Stop(h) \/ Load(h) \/ ReadHistory(h) \/ Archive(h) \/ Leave(h)
             \/ FirstTick(h) \/ LearnEnter(h) \/ ReadParams(h) \/ SetParams(h) \/ SetDays(h) \/ ResetParams(h)
             \/ ForgetDays(h) \/ LearnLeave(h) \/ Die(h) \/ Fail(h) \/ Reset(h)
             \/ \E b \in Days : Backtest(h, b)
      PROVE  UNCHANGED <<active, sess>>
  BY <1>5 DEF Tick, Start, Stop, Enter, Load, ReadHistory, Archive, Leave, FirstTick, LearnEnter,
       ReadParams, SetParams, SetDays, ResetParams, ForgetDays, LearnLeave, Die, Fail, Reset, Backtest
<1>6. CASE Expire \/ LearnExpire
  BY <1>6 DEF Expire, LearnExpire
<1> QED BY <1>1, <1>2, <1>3, <1>4, <1>5, <1>6 DEF Next, Step

\* As long as no lock is lost under its holder, a running session is never replaced and
\* a finished one never runs again.
THEOREM RunningStays == ~LockLost => (Spec => RunningKept)
<1> SUFFICES ASSUME ~LockLost PROVE Spec => RunningKept
  OBVIOUS
<1>1. Init => SessionInv
  <2> SUFFICES ASSUME Init PROVE SessionInv
    OBVIOUS
  <2>1. \A h \in Handlers : run[h] = Idle
    BY DEF Init
  <2>2. \A h \in Handlers : ~InLock(h) /\ run[h].pc \notin Calls
    BY <2>1 DEF InLock, Idle, Calls
  <2> QED BY <2>2 DEF Init, SessionInv, OneHolder, StoreInv, ArchivedOnce
<1>2. SessionInv /\ TypeOK /\ [Next]_vars => SessionInv'
  BY SessionNext, PaperAssumption
<1>3. SessionInv /\ TypeOK /\ [Next]_vars =>
        [/\ active' # active => ~Running(active)
         /\ \A i \in Ids : sess[i].status = "finished" => sess'[i] = sess[i]]_vars
  BY RunningNext, PaperAssumption
<1> QED BY <1>1, <1>2, <1>3, PaperTypeCorrect, PTL DEF Spec, RunningKept

-----------------------------------------------------------------------------
(* What the sessions and backtests teach the engine. *)

\* A step that leaves the parameters, the days and the holder of learn:lock alone.
LEMMA NotLearning ==
  ASSUME TypeOK, LearnInv, NEW h \in Handlers, NEW r, Become(h, r), kills' \in {kills, kills + 1}, kills \in Nat,
         run[h].pc \notin Learning, r.pc \notin Learning, UNCHANGED <<params, days, learnLock>>
  PROVE  LearnInv'
<1>1. \A k \in Handlers : run'[k] = IF k = h THEN r ELSE run[k]
  BY DEF Become, TypeOK
<1>2. \A k \in Handlers : run'[k].pc \in Learning => k # h /\ run'[k] = run[k]
  BY <1>1
<1>3. \A k \in Handlers, b \in Days : Teaches(k, b)' <=> Teaches(k, b)
  BY <1>1 DEF Teaches, Learning
<1>4. \A b \in Days : params[b] \in Nat
  BY DEF TypeOK
<1>5. (\E k \in Handlers : run[k].pc = "forget") => \E k \in Handlers : run'[k].pc = "forget"
  BY <1>1 DEF Learning
<1> QED BY <1>1, <1>2, <1>3, <1>4, <1>5 DEF LearnInv, HasRead, Learning

\* The holder of learn:lock goes on, or lets go of it.
LEMMA Learner ==
  ASSUME TypeOK, LearnInv, NEW h \in Handlers, run[h].pc \in Learning, NEW r, Become(h, r),
         r.pc \in Learning => learnLock', UNCHANGED kills,
         r.pc = "days" => r.block \notin days' /\ r.block # 0,
         r.pc = "set" => HasRead(r, days', params', kills'),
         r.pc \in Learning \ {"unlearn"} /\ r.op # "reset" => r.block # 0,
         r.pc = "forget" => \A b \in Days : params'[b] = 0,
         \A b \in Days :
           /\ params'[b] <= 1 + kills
           /\ b \in days' \/ params'[b] <= kills \/ (r.pc = "days" /\ r.block = b)
           /\ kills = 0 /\ b \in days' => params'[b] = 1 \/ r.pc = "forget"
           /\ kills = 0 /\ r.pc = "days" /\ r.block = b => params'[b] = 1
  PROVE  LearnInv'
<1>1. \A k \in Handlers : run'[k] = IF k = h THEN r ELSE run[k]
  BY DEF Become, TypeOK
<1>2. \A k \in Handlers : run'[k].pc \in Learning => k = h
  BY <1>1 DEF LearnInv
<1>3. \A k \in Handlers, b \in Days : Teaches(k, b)' <=> k = h /\ r.pc = "days" /\ r.block = b
  BY <1>1, <1>2 DEF Teaches, Learning
<1>4. \A k \in Handlers : run'[k].pc = "set" => HasRead(run'[k], days', params', kills')
  BY <1>1, <1>2 DEF HasRead, Learning
<1> QED BY <1>1, <1>2, <1>3, <1>4 DEF LearnInv, Learning

\* A handler dies or throws while it learns, or a read of it fails: one repetition more
\* is allowed from then on.
LEMMA LearnerStops ==
  ASSUME TypeOK, LearnInv, NEW h \in Handlers, NEW r, Become(h, r), kills' = kills + 1, kills \in Nat,
         r.pc \in Learning => run[h].pc \in Learning /\ r.pc \in {"unlearn", "set"},
         r.pc = "set" => HasRead(r, days', params', kills') /\ (r.op # "reset" => r.block # 0),
         UNCHANGED <<params, days, learnLock>>
  PROVE  LearnInv'
<1>1. \A k \in Handlers : run'[k] = IF k = h THEN r ELSE run[k]
  BY DEF Become, TypeOK
<1>2. \A k \in Handlers : run'[k].pc \in Learning => run[k].pc \in Learning
  BY <1>1
<1>3. \A k \in Handlers : run'[k].pc \in Learning \ {"unlearn"} =>
                            run'[k] = run[k] \/ (k = h /\ run'[k].pc = "set")
  BY <1>1
<1>4. \A b \in Days : params[b] \in Nat
  BY DEF TypeOK
<1>5. \A b \in Days : params[b] <= kills' /\ kills' # 0
  BY <1>4 DEF LearnInv
<1>6. \A k \in Handlers : run'[k].pc = "set" => HasRead(run'[k], days', params', kills')
  BY <1>1, <1>3, <1>5 DEF LearnInv, HasRead, Learning
<1> QED BY <1>1, <1>2, <1>3, <1>4, <1>5, <1>6 DEF LearnInv, Teaches, Learning

LEMMA LearnNext ==
  PaperAssumption /\ ~LockLost /\ TypeOK /\ LearnInv /\ [Next]_vars => LearnInv'
<1> SUFFICES ASSUME PaperAssumption, ~LockLost, TypeOK, LearnInv, [Next]_vars PROVE LearnInv'
  OBVIOUS
<1> USE DEF store, Keep, At
<1>a. ASSUME NEW h \in Handlers
      PROVE  /\ run[h] \in Handling /\ (run[h].pc \in {"params", "set", "days"} => run[h].block \in Days)
             /\ Aimed(run[h].op, run[h].pc, run[h].id, run[h].block)
  BY DEF TypeOK, Handling, Aimed, Days
<1>b. kills \in Nat /\ \A b \in Days : params[b] \in Nat
  BY DEF TypeOK, PaperAssumption
<1>c. ASSUME NEW h \in Handlers, NEW pc, Goto(h, pc)
      PROVE  LET r == [run[h] EXCEPT !.pc = pc]
             IN  Become(h, r) /\ r.pc = pc /\ r.op = run[h].op /\ r.block = run[h].block
  BY <1>a, <1>c DEF Goto, Handling
<1>d. ASSUME NEW h \in Handlers, run[h].pc \notin Learning, NEW r, Become(h, r), r.pc \notin Learning,
             UNCHANGED <<params, days, learnLock, kills>>
      PROVE  LearnInv'
  BY <1>b, <1>d, NotLearning
<1>e. ASSUME NEW h \in Handlers, run[h].pc \notin Learning, NEW pc, Goto(h, pc), pc \notin Learning,
             UNCHANGED <<params, days, learnLock, kills>>
      PROVE  LearnInv'
  <2> DEFINE r == [run[h] EXCEPT !.pc = pc]
  <2>1. Become(h, r) /\ r.pc = pc
    BY <1>c, <1>e
  <2> QED BY <1>d, <1>e, <2>1
<1>i. Idle.pc = "idle" /\ Idle.pc \notin Learning
  BY DEF Idle, Learning
<1>1. ASSUME NEW h \in Handlers, Tick(h) \/ Start(h) \/ Stop(h) PROVE LearnInv'
  <2>1. ASSUME NEW op \in {"tick", "start", "stop"}, Enter(h, op) PROVE LearnInv'
    <3> DEFINE r == [Idle EXCEPT !.op = op, !.pc = "load"]
    <3>1. r.pc = "load"
      BY DEF Idle
    <3> QED BY <2>1, <3>1, <1>d DEF Enter, Learning
  <2> QED BY <1>1, <2>1 DEF Tick, Start, Stop
<1>2. ASSUME NEW h \in Handlers, Load(h) PROVE LearnInv'
  <2>1. ASSUME NEW r, Become(h, r), r.pc \in {"create", "save"} PROVE LearnInv'
    BY <1>2, <2>1, <1>d DEF Load, Learning
  <2>2. [run[h] EXCEPT !.pc = "create", !.id = New].pc = "create"
    BY <1>a DEF Handling
  <2>3. [run[h] EXCEPT !.pc = "save", !.id = active, !.s = Ticked(h)].pc = "save"
    BY <1>a DEF Handling
  <2>4. CASE Goto(h, "leave")
    BY <1>2, <2>4, <1>e DEF Load, Learning
  <2> QED BY <1>2, <2>1, <2>2, <2>3, <2>4 DEF Load
<1>3. ASSUME NEW h \in Handlers, Save(h) PROVE LearnInv'
  <2> DEFINE r == [run[h] EXCEPT !.block = Block(run[h].id),
       !.pc = IF @ = "resave" THEN "hist" ELSE IF run[h].s.status = "finished" THEN "learn" ELSE "leave"]
  <2>1. r.pc \in {"hist", "learn", "leave"}
    BY <1>a DEF Handling
  <2> QED BY <1>3, <2>1, <1>d DEF Save, Learning
<1>4. ASSUME NEW h \in Handlers, ReadHistory(h) PROVE LearnInv'
  <2> DEFINE r == [run[h] EXCEPT !.pc = "archive", !.hist = <<run[h].id>> \o history]
  <2>1. r.pc = "archive"
    BY <1>a DEF Handling
  <2> QED BY <1>4, <2>1, <1>d DEF ReadHistory, Learning
<1>5. ASSUME NEW h \in Handlers, Create(h) \/ Activate(h) \/ Archive(h) \/ Clear(h) PROVE LearnInv'
  BY <1>5, <1>e DEF Create, Activate, Archive, Clear, Learning
<1>6. ASSUME NEW h \in Handlers, Leave(h) PROVE LearnInv'
  <2>1. [Idle EXCEPT !.pc = "first"].pc = "first"
    BY DEF Idle
  <2> QED BY <1>6, <2>1, <1>d, <1>i DEF Leave, Learning
<1>7. ASSUME NEW h \in Handlers, FirstTick(h) PROVE LearnInv'
  <2>1. [Idle EXCEPT !.op = "tick", !.pc = "load"].pc = "load"
    BY DEF Idle
  <2> QED BY <1>7, <2>1, <1>d, <1>i DEF FirstTick, Learning
<1>8. ASSUME NEW h \in Handlers, NEW b \in Days, Backtest(h, b) PROVE LearnInv'
  <2>1. [Idle EXCEPT !.op = "teach", !.pc = "learn", !.block = b].pc = "learn"
    BY DEF Idle
  <2> QED BY <1>8, <2>1, <1>d DEF Backtest, Learning
<1>9. ASSUME NEW h \in Handlers, Reset(h) PROVE LearnInv'
  <2>1. [Idle EXCEPT !.op = "reset", !.pc = "learn"].pc = "learn"
    BY DEF Idle
  <2> QED BY <1>9, <2>1, <1>d DEF Reset, Learning
<1>t. ASSUME NEW h \in Handlers, Become(h, Taught(h)) PROVE Taught(h).pc \notin Learning
  BY <1>a, <1>i DEF Taught, Handling, Learning
<1>10. ASSUME NEW h \in Handlers, LearnEnter(h) PROVE LearnInv'
  <2>1. CASE Become(h, Taught(h)) /\ UNCHANGED learnLock
    BY <1>10, <2>1, <1>d, <1>t DEF LearnEnter, Learning
  <2>2. CASE ~learnLock /\ learnLock' = TRUE
    <3>0. \A k \in Handlers : run[k].pc \notin Learning
      BY <2>2 DEF LearnInv
    <3>1. PICK pc \in {"reset", "params"} : Goto(h, pc) /\ (pc = "params" => run[h].op # "reset")
      BY <1>10, <2>2, <3>0 DEF LearnEnter
    <3> DEFINE r == [run[h] EXCEPT !.pc = pc]
    <3>2. Become(h, r) /\ r.pc = pc /\ r.op = run[h].op /\ r.block = run[h].block
      BY <1>c, <3>1
    <3>3. \A k \in Handlers : run'[k] = IF k = h THEN r ELSE run[k]
      BY <3>2 DEF Become, TypeOK
    <3>4. \A k \in Handlers : run'[k].pc \in Learning => k = h
      BY <3>0, <3>3
    <3>5. \A k \in Handlers, b \in Days : ~Teaches(k, b) /\ ~Teaches(k, b)'
      BY <3>0, <3>2, <3>3 DEF Teaches, Learning
    <3>6. \A k \in Handlers : run[k].pc # "forget" /\ run'[k].pc \notin {"forget", "days", "set"}
      BY <3>0, <3>2, <3>3 DEF Learning
    <3>7. r.op # "reset" => r.block # 0
      BY <1>10, <1>a, <3>2 DEF LearnEnter, Aimed
    <3>8. \A b \in Days :
            /\ params'[b] <= 1 + kills'
            /\ b \in days' \/ params'[b] <= kills'
            /\ kills' = 0 /\ b \in days' => params'[b] = 1
      BY <1>10, <3>5, <3>6 DEF LearnEnter, LearnInv
    <3>9. \A k \in Handlers : run'[k].pc \in Learning \ {"unlearn"} /\ run'[k].op # "reset" => run'[k].block # 0
      BY <3>2, <3>3, <3>4, <3>7
    <3> QED BY <2>2, <3>4, <3>5, <3>6, <3>8, <3>9 DEF LearnInv
  <2> QED BY <1>10, <2>1, <2>2 DEF LearnEnter
<1>l. ASSUME NEW h \in Handlers, run[h].pc \in Learning
      PROVE  /\ learnLock
             /\ \A k \in Handlers : run[k].pc \in Learning => k = h
             /\ \A b \in Days : /\ params[b] <= 1 + kills
                                /\ b \in days \/ params[b] <= kills \/ (run[h].pc = "days" /\ run[h].block = b)
                                /\ kills = 0 /\ b \in days => params[b] = 1 \/ run[h].pc = "forget"
                                /\ kills = 0 /\ run[h].pc = "days" /\ run[h].block = b => params[b] = 1
  BY <1>l DEF LearnInv, Teaches, Learning
<1>u. ASSUME NEW h \in Handlers, run[h].pc = "params", run[h].pc \in Learning, Goto(h, "unlearn"),
             UNCHANGED <<params, days, learnLock, kills>>
      PROVE  LearnInv'
  <2> DEFINE r == [run[h] EXCEPT !.pc = "unlearn"]
  <2>1. Become(h, r) /\ r.pc = "unlearn"
    BY <1>c, <1>u
  <2>2. learnLock'
    BY <1>l, <1>u
  <2> HIDE DEF r
  <2>3. ASSUME NEW b \in Days
        PROVE  /\ params'[b] <= 1 + kills
               /\ b \in days' \/ params'[b] <= kills \/ (r.pc = "days" /\ r.block = b)
               /\ kills = 0 /\ b \in days' => params'[b] = 1 \/ r.pc = "forget"
               /\ kills = 0 /\ r.pc = "days" /\ r.block = b => params'[b] = 1
    BY <1>l, <1>u, <2>1
  <2> QED BY <1>l, <1>u, <2>1, <2>2, <2>3, Learner
<1>20. ASSUME NEW h \in Handlers, ReadParams(h) PROVE LearnInv'
  <2>0. /\ run[h].pc = "params" /\ run[h].pc \in Learning /\ run[h].block \in Days /\ run[h].block # 0
        /\ UNCHANGED <<params, days, learnLock>>
    BY <1>20, <1>a DEF ReadParams, Learning, Aimed
  <2>m. ASSUME NEW m PROVE LET r == [run[h] EXCEPT !.pc = "set", !.learnt = m]
                           IN  r.pc = "set" /\ r.op = run[h].op /\ r.block = run[h].block /\ r.learnt = m
    BY <1>a DEF Handling
  <2>1. CASE Novel(run[h].block) /\ kills' = kills /\ Become(h, [run[h] EXCEPT !.pc = "set", !.learnt = params])
    <3> DEFINE r == [run[h] EXCEPT !.pc = "set", !.learnt = params]
    <3>1. Become(h, r) /\ r.pc = "set" /\ r.block = run[h].block /\ r.learnt = params
      BY <2>1, <2>m
    <3> HIDE DEF r
    <3>2. HasRead(r, days', params', kills')
      <4>1. \A b \in Days : params'[b] \in Nat /\ r.learnt[b] = params'[b]
        BY <1>b, <2>0, <3>1
      <4> QED BY <2>0, <2>1, <3>1, <4>1 DEF HasRead, Novel
    <3>3. learnLock' /\ r.block # 0 /\ r.block \notin days'
      BY <1>l, <2>0, <2>1, <3>1 DEF Novel
    <3>4. ASSUME NEW b \in Days
          PROVE  /\ params'[b] <= 1 + kills
                 /\ b \in days' \/ params'[b] <= kills \/ (r.pc = "days" /\ r.block = b)
                 /\ kills = 0 /\ b \in days' => params'[b] = 1 \/ r.pc = "forget"
                 /\ kills = 0 /\ r.pc = "days" /\ r.block = b => params'[b] = 1
      BY <1>l, <2>0, <3>1
    <3> QED BY <2>0, <2>1, <3>1, <3>2, <3>3, <3>4, Learner
  <2>2. CASE Novel(run[h].block) /\ kills' = kills + 1 /\ Become(h, [run[h] EXCEPT !.pc = "set", !.learnt = Nothing])
    <3> DEFINE r == [run[h] EXCEPT !.pc = "set", !.learnt = Nothing]
    <3>1. Become(h, r) /\ r.pc = "set" /\ r.block = run[h].block /\ r.learnt = Nothing
      BY <2>2, <2>m
    <3>2. \A b \in Days : Nothing[b] = 0
      BY DEF Nothing
    <3> HIDE DEF r
    <3>3. HasRead(r, days', params', kills')
      <4>1. kills' # 0 /\ \A b \in Days : r.learnt[b] <= params'[b]
        BY <1>b, <2>0, <2>2, <3>1, <3>2
      <4> QED BY <2>0, <2>2, <3>1, <4>1 DEF HasRead, Novel
    <3>4. r.block # 0
      BY <2>0, <3>1
    <3> QED BY <1>b, <2>0, <2>2, <3>1, <3>3, <3>4, LearnerStops DEF Learning
  <2>3. CASE Goto(h, "unlearn") /\ kills' = kills
    BY <1>u, <2>0, <2>3
  <2> QED BY <1>20, <2>1, <2>2, <2>3 DEF ReadParams
<1>11. ASSUME NEW h \in Handlers, SetParams(h) PROVE LearnInv'
  <2>0. /\ run[h].pc = "set" /\ run[h].pc \in Learning /\ run[h].block \in Days /\ run[h].block # 0
        /\ HasRead(run[h], days, params, kills) /\ run[h].learnt \in [Days -> Nat]
    BY <1>11, <1>a DEF SetParams, Learning, Aimed, LearnInv, Handling
  <2> DEFINE r == [run[h] EXCEPT !.pc = "days", !.learnt = Nothing]
  <2>1. Become(h, r) /\ r.pc = "days" /\ r.block = run[h].block
    BY <1>11, <1>a DEF SetParams, Handling
  <2> HIDE DEF r
  <2>2. days' = days /\ kills' = kills /\ learnLock' = learnLock
    BY <1>11 DEF SetParams
  <2>3. /\ params'[run[h].block] = run[h].learnt[run[h].block] + 1
        /\ \A b \in Days : b # run[h].block => params'[b] = run[h].learnt[b]
    BY <1>11, <2>0 DEF SetParams
  <2>4. /\ run[h].block \notin days
        /\ \A b \in Days : run[h].learnt[b] \in Nat /\ run[h].learnt[b] <= params[b]
                             /\ (kills = 0 => run[h].learnt[b] = params[b])
    BY <2>0 DEF HasRead
  <2>5. params[run[h].block] <= kills
    BY <1>l, <2>0, <2>4
  <2>6. ASSUME NEW b \in Days
        PROVE  /\ params'[b] <= 1 + kills
               /\ b \in days' \/ params'[b] <= kills \/ (r.pc = "days" /\ r.block = b)
               /\ kills = 0 /\ b \in days' => params'[b] = 1 \/ r.pc = "forget"
               /\ kills = 0 /\ r.pc = "days" /\ r.block = b => params'[b] = 1
    <3>1. CASE b = run[h].block
      BY <1>b, <2>1, <2>2, <2>3, <2>4, <2>5, <3>1
    <3>2. CASE b # run[h].block
      <4>1. /\ params[b] <= 1 + kills /\ (b \in days \/ params[b] <= kills)
            /\ (kills = 0 /\ b \in days => params[b] = 1)
        BY <1>l, <2>0
      <4> QED BY <1>b, <2>1, <2>2, <2>3, <2>4, <3>2, <4>1
    <3> QED BY <3>1, <3>2
  <2>7. learnLock' /\ r.block \notin days' /\ r.block # 0
    BY <1>l, <2>0, <2>1, <2>2, <2>4
  <2> QED BY <2>0, <2>1, <2>2, <2>6, <2>7, Learner
<1>12. ASSUME NEW h \in Handlers, SetDays(h) PROVE LearnInv'
  <2>0. run[h].pc = "days" /\ run[h].pc \in Learning
    BY <1>12 DEF SetDays, Learning
  <2> DEFINE r == [run[h] EXCEPT !.pc = "unlearn"]
  <2>1. Become(h, r) /\ r.pc = "unlearn"
    BY <1>c, <1>12 DEF SetDays
  <2> QED BY <1>12, <1>l, <2>0, <2>1, Learner DEF SetDays
<1>13. ASSUME NEW h \in Handlers, ResetParams(h) PROVE LearnInv'
  <2>0. run[h].pc = "reset" /\ run[h].pc \in Learning
    BY <1>13 DEF ResetParams, Learning
  <2> DEFINE r == [run[h] EXCEPT !.pc = "forget"]
  <2>1. Become(h, r) /\ r.pc = "forget" /\ r.op = run[h].op /\ r.block = run[h].block
    BY <1>c, <1>13 DEF ResetParams
  <2>2. \A b \in Days : params'[b] = 0
    BY <1>13 DEF ResetParams, Nothing
  <2>3. r.op # "reset" => r.block # 0
    BY <2>0, <2>1 DEF LearnInv
  <2>4. ASSUME NEW b \in Days
        PROVE  /\ params'[b] <= 1 + kills
               /\ b \in days' \/ params'[b] <= kills \/ (r.pc = "days" /\ r.block = b)
               /\ kills = 0 /\ b \in days' => params'[b] = 1 \/ r.pc = "forget"
               /\ kills = 0 /\ r.pc = "days" /\ r.block = b => params'[b] = 1
    BY <1>b, <2>1, <2>2
  <2>5. learnLock' /\ kills' = kills
    BY <1>13, <1>l, <2>0 DEF ResetParams
  <2> HIDE DEF r
  <2> QED BY <2>3, <2>0, <2>1, <2>2, <2>4, <2>5, Learner
<1>14. ASSUME NEW h \in Handlers, ForgetDays(h) PROVE LearnInv'
  <2>0. run[h].pc = "forget" /\ run[h].pc \in Learning
    BY <1>14 DEF ForgetDays, Learning
  <2> DEFINE r == [run[h] EXCEPT !.pc = "unlearn"]
  <2>1. Become(h, r) /\ r.pc = "unlearn"
    BY <1>c, <1>14 DEF ForgetDays
  <2>2. \A b \in Days : params'[b] = 0 /\ b \notin days'
    BY <1>14, <2>0 DEF ForgetDays, LearnInv
  <2>4. ASSUME NEW b \in Days
        PROVE  /\ params'[b] <= 1 + kills
               /\ b \in days' \/ params'[b] <= kills \/ (r.pc = "days" /\ r.block = b)
               /\ kills = 0 /\ b \in days' => params'[b] = 1 \/ r.pc = "forget"
               /\ kills = 0 /\ r.pc = "days" /\ r.block = b => params'[b] = 1
    BY <1>b, <2>1, <2>2
  <2>5. learnLock' /\ kills' = kills
    BY <1>14, <1>l, <2>0 DEF ForgetDays
  <2> HIDE DEF r
  <2> QED BY <2>0, <2>1, <2>2, <2>4, <2>5, Learner
<1>15. ASSUME NEW h \in Handlers, LearnLeave(h) PROVE LearnInv'
  <2>0. run[h].pc = "unlearn" /\ run[h].pc \in Learning
    BY <1>15 DEF LearnLeave, Learning
  <2>1. Become(h, Taught(h)) /\ Taught(h).pc \notin Learning
    BY <1>15, <1>t DEF LearnLeave
  <2>2. Taught(h).pc # "days" /\ Taught(h).pc # "forget" /\ Taught(h).pc # "set"
    BY <2>1 DEF Learning
  <2> QED BY <1>15, <1>l, <2>0, <2>1, <2>2, Learner DEF LearnLeave
<1>16. ASSUME NEW h \in Handlers, Die(h) PROVE LearnInv'
  BY <1>16, <1>b, <1>i, LearnerStops DEF Die
<1>17. ASSUME NEW h \in Handlers, Fail(h) PROVE LearnInv'
  <2>1. PICK pc \in {"leave", "unlearn"} : Goto(h, pc) /\ (pc = "unlearn" => run[h].pc \in Learning)
    BY <1>17 DEF Fail, Learning
  <2> DEFINE r == [run[h] EXCEPT !.pc = pc]
  <2>2. Become(h, r) /\ r.pc = pc
    BY <1>c, <2>1
  <2> QED BY <1>17, <1>b, <2>1, <2>2, LearnerStops DEF Fail, Learning
<1>18. CASE LearnExpire
  BY <1>18 DEF LearnExpire, LearnInv, HasRead, Teaches, Learning
<1>19. CASE Expire \/ UNCHANGED vars
  BY <1>19 DEF Expire, vars, LearnInv, HasRead, Teaches
<1> QED
  BY <1>1, <1>2, <1>3, <1>4, <1>5, <1>6, <1>7, <1>8, <1>9, <1>10, <1>11, <1>12, <1>13, <1>14,
     <1>15, <1>16, <1>17, <1>18, <1>19, <1>20 DEF Next, Step

\* As long as no lock is lost under its holder, no block of days teaches the parameters twice
\* between two learnings, but for one repetition for each handler that died or command that
\* failed for good, the read that then counts as the defaults among them (applyLearning,
\* resetLearning); without any, the marked days are those the parameters hold.
THEOREM TaughtAtMostOnce == ~LockLost => (Spec => []TaughtOnce)
<1> SUFFICES ASSUME ~LockLost PROVE Spec => []TaughtOnce
  OBVIOUS
<1>1. Init => LearnInv
  <2> SUFFICES ASSUME Init PROVE LearnInv
    OBVIOUS
  <2>1. \A h \in Handlers : run[h] = Idle
    BY DEF Init
  <2>2. \A h \in Handlers : run[h].pc \notin Learning /\ run[h].pc # "days"
    BY <2>1 DEF Idle, Learning
  <2>3. \A b \in Days : params[b] = 0 /\ b \notin days /\ kills = 0
    BY DEF Init, Nothing
  <2> QED BY <2>2, <2>3 DEF LearnInv, Teaches, Learning
<1>2. LearnInv /\ TypeOK /\ [Next]_vars => LearnInv'
  BY LearnNext, PaperAssumption
<1>3. LearnInv /\ TypeOK => TaughtOnce
  <2> SUFFICES ASSUME LearnInv, TypeOK, \A h \in Handlers : run[h].pc \notin {"days", "forget"},
                      NEW b \in Days
               PROVE  params[b] <= 1 + kills /\ (kills = 0 => (params[b] = 1 <=> b \in days))
    BY DEF TaughtOnce
  <2>1. params[b] \in Nat
    BY DEF TypeOK
  <2>2. \A h \in Handlers : ~Teaches(h, b)
    BY DEF Teaches
  <2> QED BY <2>1, <2>2 DEF LearnInv
<1> QED BY <1>1, <1>2, <1>3, PaperTypeCorrect, PTL DEF Spec
=============================================================================
