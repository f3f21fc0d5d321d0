---------------------------- MODULE GatherTxnProofs ----------------------------
(****************************************************************************)
(* What GatherTxn's safety properties rest on, proved for every set of       *)
(* characters, requests, calls and deposits.                                 *)
(*                                                                           *)
(* A request that works a deposit holds the lock of its row and has the row   *)
(* as it is (ControlOK), so what it saves undoes nothing.  An emptied deposit *)
(* waits, and only an emptied one does (EmptyWaits).                         *)
(****************************************************************************)
EXTENDS GatherTxn, TransactionsProofs

Running(r) == txn[r].pc \notin {"idle", "done"}

(* A deposit nobody has touched is as its row will be made.                  *)
Current(d) == IF d \in DOMAIN states THEN states[d] ELSE Untouched(d)

ControlOf(r) ==
    /\ Running(r) => txn[r].call \in Calls
    /\ txn[r].now <= clock
    /\ txn[r].pc = "work" =>
           /\ stateLock[Deposit(r)] = r
           /\ txn[r].state = Current(Deposit(r))

ControlOK == \A r \in Requests : ControlOf(r)

EmptyWaits == \A d \in Deposits : Current(d).respawnAt # Never => Current(d).remaining = 0

(* Of a character that asks one request at a time, the one under way has read *)
(* the time it last gathered.                                                *)
OneAtATime ==
    \A c \in Characters \ overlapped : \A r \in Under(c) :
        /\ \A s \in Under(c) : s = r
        /\ txn[r].last = lastGathered[c]

(* Waiting is used up by what it entitles to.                                *)
RatePaced ==
    \A c \in Characters \ overlapped :
        IF lastGathered[c] = Never THEN Gathered(c) = 0
        ELSE /\ lastGathered[c] <= clock
             /\ Gathered(c) <= UnitsPerTick[c] * (MaxBankedTicks + lastGathered[c])

(* Every refill took a respawn time.                                         *)
RefillsPaced ==
    \A d \in Deposits \ late :
        /\ worked[d] <= clock
        /\ refills[d] * RespawnTicks <= worked[d]
        /\ Current(d).respawnAt # Never =>
               refills[d] * RespawnTicks + RespawnTicks <= Current(d).respawnAt

IInv == /\ TypeOK /\ ControlOK /\ EmptyWaits /\ DepositsAddUp
        /\ OneAtATime /\ RatePaced /\ RefillsPaced

--------------------------------------------------------------------------------
(* The operators the module is built from.                                   *)

LEMMA ConstantsTyped ==
    /\ Never \in Nat /\ MaxClock \in Nat /\ RespawnTicks \in Nat \ {0} /\ Never > MaxClock
    /\ MaxBankedTicks \in Nat \ {0} /\ XpPerUnit \in Nat \ {0} /\ Capacity \in Nat
BY GatherTxnAssumption DEF Never

LEMMA DepositTyped ==
    ASSUME TypeOK, NEW d \in Deposits
    PROVE  /\ QuantityMax[d[1]] \in Nat
           /\ Current(d) \in State
           /\ Current(d).remaining <= QuantityMax[d[1]]
           /\ Untouched(d) \in State
           /\ Untouched(d).remaining = QuantityMax[d[1]]
           /\ Untouched(d).respawnAt = Never
<1>1. d[1] \in Nodes
  BY DEF Deposits, DepositOf
<1>2. QuantityMax[d[1]] \in Nat
  BY <1>1, GatherTxnAssumption
<1>3. Never \in Nat
  BY GatherTxnAssumption DEF Never
<1>4. Untouched(d) \in State
  BY <1>2, <1>3 DEF Untouched, State
<1>5. Current(d) \in State
  BY <1>4 DEF Current, TypeOK, IsPartialFn
<1>6. QED
  BY <1>2, <1>4, <1>5 DEF Untouched, Current, TypeOK

LEMMA CallTyped ==
    ASSUME TypeOK, ControlOK, NEW r \in Requests, Running(r)
    PROVE  CharOf(r) \in Characters /\ Deposit(r) \in Deposits
<1>1. txn[r].call \in [char: Characters, node: Nodes]
  BY GatherTxnAssumption DEF ControlOK, ControlOf
<1>2. QED
  BY <1>1 DEF CharOf, Deposit, Deposits

(* What a request at work takes is no more than there is and than fits.      *)
LEMMA WorkTyped ==
    ASSUME IInv, NEW r \in Requests, txn[r].pc = "work"
    PROVE  /\ CharOf(r) \in Characters /\ Deposit(r) \in Deposits
           /\ stateLock[Deposit(r)] = r /\ txn[r].state = Current(Deposit(r))
           /\ Respawned(r) \in State
           /\ Respawned(r).remaining <= QuantityMax[Deposit(r)[1]]
           /\ RoomFor(r) \in Nat
           /\ RoomFor(r) <= Respawned(r).remaining
           /\ pockets[CharOf(r)] + RoomFor(r) \in 0 .. Capacity
           /\ EntitledTicks(Elapsed(r)) \in Nat
           /\ RoomFor(r) <= EntitledTicks(Elapsed(r)) * UnitsPerTick[CharOf(r)]
<1> USE DEF IInv
<1>1. CharOf(r) \in Characters /\ Deposit(r) \in Deposits
  BY CallTyped DEF Running
<1>2. stateLock[Deposit(r)] = r /\ txn[r].state = Current(Deposit(r))
  BY DEF ControlOK, ControlOf
<1>3. Respawned(r) \in State /\ Respawned(r).remaining <= QuantityMax[Deposit(r)[1]]
  BY <1>1, <1>2, DepositTyped DEF Respawned
<1>4. EntitledTicks(Elapsed(r)) \in Nat
  <2>1. txn[r].now \in Nat /\ txn[r].last \in Nat
    BY ConstantsTyped DEF TypeOK, Txn
  <2>2. QED
    BY <2>1, ConstantsTyped DEF EntitledTicks, Elapsed, Lesser
<1>5. UnitsPerTick[CharOf(r)] \in Nat
  BY <1>1, GatherTxnAssumption
<1>6. EntitledTicks(Elapsed(r)) * UnitsPerTick[CharOf(r)] \in Nat
  BY <1>4, <1>5, ProductNat
<1>7. Respawned(r).remaining \in Nat
  BY <1>3 DEF State
<1>8. /\ UnitsAvailable(r) \in Nat
      /\ UnitsAvailable(r) <= Respawned(r).remaining
      /\ UnitsAvailable(r) <= EntitledTicks(Elapsed(r)) * UnitsPerTick[CharOf(r)]
  BY <1>6, <1>7 DEF UnitsAvailable, Lesser
<1>9. pockets[CharOf(r)] \in 0 .. Capacity /\ Capacity \in Nat
  BY <1>1, GatherTxnAssumption DEF TypeOK
<1>10. /\ RoomFor(r) \in Nat /\ RoomFor(r) <= UnitsAvailable(r)
       /\ pockets[CharOf(r)] + RoomFor(r) \in 0 .. Capacity
  BY <1>8, <1>9 DEF RoomFor, Lesser
<1>11. QED
  BY <1>1, <1>2, <1>3, <1>4, <1>6, <1>7, <1>8, <1>10

--------------------------------------------------------------------------------
(* The two steps that save anything.                                         *)

Works(r) == Gather(r) \/ GatherNothing(r)

LEMMA StepsSorted == [Next]_vars => UNCHANGED dbVars \/ \E r \in Requests : Works(r)
<1>1. ASSUME NEW r \in Requests, NEW c \in Calls, Resolve(r, c) PROVE UNCHANGED dbVars
  BY <1>1, Zenon DEF Resolve
<1>2. QED
  BY <1>1 DEF Next, vars, dbVars, Works, LockCharacter, Refuse, SelectState, SelectNothing,
              InsertState, Disconnect, Tick, Rollback

(* A deposit worked is left with what was not taken, and one that has been    *)
(* emptied by it comes back a respawn time later.                            *)
LEMMA WorkEffect ==
    ASSUME IInv, NEW r \in Requests, Works(r), NEW d, d = Deposit(r)
    PROVE  /\ txn[r].pc = "work" /\ d \in Deposits
           /\ IsPartialFn(states', Deposits, State)
           /\ \A e \in DOMAIN states' : e # d => e \in DOMAIN states /\ states'[e] = states[e]
           /\ \A e \in Deposits : e # d => Current(e)' = Current(e)
           /\ d \in DOMAIN states'
           /\ states'[d] \in State
           /\ Current(d)' = states'[d]
           /\ states'[d].remaining = Respawned(r).remaining - RoomFor(r)
           /\ states'[d].respawnAt =
                  IF RoomFor(r) > 0 /\ states'[d].remaining = 0 THEN RespawnTime(r)
                  ELSE Respawned(r).respawnAt
           /\ drawn' = [drawn EXCEPT ![d] = @ + RoomFor(r)]
<1> USE DEF IInv
<1>1. txn[r].pc = "work"
  BY DEF Works, Gather, GatherNothing
<1>2. /\ d \in Deposits /\ Respawned(r) \in State
      /\ RoomFor(r) \in Nat /\ RoomFor(r) <= Respawned(r).remaining
  BY <1>1, WorkTyped
<1>3. Respawned(r).remaining \in Nat /\ Respawned(r).respawnAt \in Nat
  BY <1>2 DEF State
<1>4. RespawnTime(r) \in Nat
  BY ConstantsTyped DEF RespawnTime, TypeOK, Txn
<1>5. IsPartialFn(states, Deposits, State)
  BY DEF TypeOK
<1>6. ASSUME NEW row \in State, states' = Put(states, d, row)
      PROVE  /\ IsPartialFn(states', Deposits, State)
             /\ \A e \in DOMAIN states' : e # d => e \in DOMAIN states /\ states'[e] = states[e]
             /\ \A e \in Deposits : e # d => Current(e)' = Current(e)
             /\ d \in DOMAIN states' /\ states'[d] = row
             /\ Current(d)' = states'[d]
  <2>1. /\ IsPartialFn(states', Deposits, State)
        /\ DOMAIN states' = DOMAIN states \cup {d}
        /\ states'[d] = row
        /\ \A e \in DOMAIN states : e # d => states'[e] = states[e]
    BY <1>2, <1>5, <1>6 DEF Put, IsPartialFn
  <2>2. \A e \in Deposits : e # d => Current(e)' = Current(e)
    BY <2>1 DEF Current, Untouched
  <2>3. Current(d)' = states'[d]
    BY <2>1 DEF Current
  <2>4. QED
    BY <2>1, <2>2, <2>3
<1>7. CASE Gather(r)
  <2> DEFINE left == Respawned(r).remaining - RoomFor(r)
             row == [remaining |-> left,
                     respawnAt |-> IF left = 0 THEN RespawnTime(r) ELSE Respawned(r).respawnAt]
  <2>1. /\ states' = Put(states, d, row) /\ RoomFor(r) > 0
        /\ drawn' = [drawn EXCEPT ![d] = @ + RoomFor(r)]
    BY <1>7 DEF Gather, DrawnDown
  <2>2. row \in State
    BY <1>2, <1>3, <1>4 DEF State
  <2>3. QED
    BY <1>1, <1>2, <1>6, <2>1, <2>2
<1>8. CASE GatherNothing(r)
  <2>1. states' = Put(states, d, Respawned(r)) /\ RoomFor(r) = 0 /\ drawn' = drawn
    BY <1>8 DEF GatherNothing
  <2>2. drawn' = [drawn EXCEPT ![d] = @ + RoomFor(r)]
    BY <1>2, <2>1 DEF TypeOK
  <2>3. /\ IsPartialFn(states', Deposits, State)
        /\ \A e \in DOMAIN states' : e # d => e \in DOMAIN states /\ states'[e] = states[e]
        /\ \A e \in Deposits : e # d => Current(e)' = Current(e)
        /\ d \in DOMAIN states' /\ states'[d] = Respawned(r)
        /\ Current(d)' = states'[d]
    BY <1>2, <1>6, <2>1
  <2>4. states'[d].remaining = Respawned(r).remaining - RoomFor(r)
    BY <1>3, <2>1, <2>3
  <2>5. states'[d].respawnAt = Respawned(r).respawnAt /\ ~(RoomFor(r) > 0)
    BY <2>1, <2>3
  <2>6. QED
    BY <1>1, <1>2, <2>2, <2>3, <2>4, <2>5
<1>9. QED
  BY <1>7, <1>8 DEF Works

--------------------------------------------------------------------------------
(* Every step leaves every field in its type.                                *)

LEMMA AtRestTyped ==
    ASSUME NEW step \in Steps
    PROVE  AtRest(step) \in Txn /\ AtRest(step).pc = step /\ AtRest(step).now = 0
BY ConstantsTyped DEF AtRest, Txn, State

(* A request's step leaves the other requests as they were.                  *)
LEMMA OneMoves ==
    ASSUME TypeOK, NEW r \in Requests, NEW t \in Txn, txn' = [txn EXCEPT ![r] = t]
    PROVE  /\ txn' \in [Requests -> Txn]
           /\ txn'[r] = t
           /\ \A s \in Requests : s # r => txn'[s] = txn[s]
BY DEF TypeOK

LEMMA LockTyped ==
    ASSUME NEW S, NEW lock \in [S -> Requests \cup {Nobody}], NEW x, NEW r \in Requests
    PROVE  [lock EXCEPT ![x] = r] \in [S -> Requests \cup {Nobody}]
OBVIOUS

(* What an ended request leaves.                                             *)
LEMMA EndEffect ==
    ASSUME TypeOK, NEW r \in Requests, EndTransaction(r)
    PROVE  /\ txn' \in [Requests -> Txn]
           /\ txn'[r].pc = "done" /\ txn'[r].now = 0
           /\ \A s \in Requests : s # r => txn'[s] = txn[s]
           /\ charLock' \in [Characters -> Requests \cup {Nobody}]
           /\ stateLock' \in [Deposits -> Requests \cup {Nobody}]
           /\ \A d \in Deposits, s \in Requests : s # r /\ stateLock[d] = s => stateLock'[d] = s
           /\ clock' = clock /\ overlapped' = overlapped
<1>1. "done" \in Steps
  BY DEF Steps
<1>2. /\ txn' \in [Requests -> Txn]
      /\ txn'[r].pc = "done" /\ txn'[r].now = 0
      /\ \A s \in Requests : s # r => txn'[s] = txn[s]
  BY <1>1, AtRestTyped, OneMoves DEF EndTransaction
<1>3. charLock' \in [Characters -> Requests \cup {Nobody}]
  BY ReleasedRows DEF EndTransaction, TypeOK
<1>4. /\ stateLock' \in [Deposits -> Requests \cup {Nobody}]
      /\ \A d \in Deposits, s \in Requests : s # r /\ stateLock[d] = s => stateLock'[d] = s
  BY DEF EndTransaction, TypeOK, Released
<1>5. QED
  BY <1>2, <1>3, <1>4 DEF EndTransaction

(* Those of the other steps that change what a request has in memory.        *)
LEMMA StepEffect ==
    ASSUME IInv, NEW r \in Requests
    PROVE  /\ \A c \in Calls : Resolve(r, c) =>
                  /\ txn' \in [Requests -> Txn]
                  /\ txn'[r] = [txn[r] EXCEPT !.call = c, !.last = lastGathered[c.char],
                                              !.pc = "lockCharacter"]
           /\ LockCharacter(r) =>
                  /\ txn' \in [Requests -> Txn]
                  /\ txn'[r] = [txn[r] EXCEPT !.now = clock, !.pc = "select"]
           /\ SelectState(r) =>
                  /\ txn' \in [Requests -> Txn]
                  /\ txn'[r] = [txn[r] EXCEPT !.state = Current(Deposit(r)), !.pc = "work"]
           /\ SelectNothing(r) =>
                  /\ txn' \in [Requests -> Txn]
                  /\ txn'[r] = [txn[r] EXCEPT !.pc = "insert"]
           /\ InsertState(r) =>
                  /\ txn' \in [Requests -> Txn]
                  /\ txn'[r] = [txn[r] EXCEPT !.pc = "select"]
<1> USE DEF IInv
<1>1. txn[r] \in Txn /\ clock \in 0 .. MaxClock
  BY DEF TypeOK
<1>2. ASSUME NEW c \in Calls, Resolve(r, c)
      PROVE  /\ txn' \in [Requests -> Txn]
             /\ txn'[r] = [txn[r] EXCEPT !.call = c, !.last = lastGathered[c.char],
                                         !.pc = "lockCharacter"]
  <2>1. c.char \in Characters
    BY GatherTxnAssumption
  <2>2. lastGathered[c.char] \in 0 .. Never
    BY <2>1, ConstantsTyped DEF TypeOK
  <2>3. [txn[r] EXCEPT !.call = c, !.last = lastGathered[c.char], !.pc = "lockCharacter"] \in Txn
    BY <1>1, <2>2 DEF Txn, Steps
  <2>4. QED
    BY <1>1, <1>2, <2>3 DEF Resolve, TypeOK
<1>3. ASSUME LockCharacter(r)
      PROVE  /\ txn' \in [Requests -> Txn]
             /\ txn'[r] = [txn[r] EXCEPT !.now = clock, !.pc = "select"]
  <2>1. [txn[r] EXCEPT !.now = clock, !.pc = "select"] \in Txn
    BY <1>1 DEF Txn, Steps
  <2>2. QED
    BY <1>1, <1>3, <2>1 DEF LockCharacter, TypeOK
<1>4. ASSUME SelectState(r)
      PROVE  /\ txn' \in [Requests -> Txn]
             /\ txn'[r] = [txn[r] EXCEPT !.state = Current(Deposit(r)), !.pc = "work"]
  <2>1. Deposit(r) \in Deposits
    BY <1>4, CallTyped DEF Running, SelectState
  <2>2. Current(Deposit(r)) \in State
    BY <2>1, DepositTyped
  <2>3. [txn[r] EXCEPT !.state = Current(Deposit(r)), !.pc = "work"] \in Txn
    BY <1>1, <2>2 DEF Txn, Steps
  <2>4. QED
    BY <1>1, <1>4, <2>3 DEF SelectState, TypeOK, Current
<1>5. ASSUME NEW step \in Steps, txn' = [txn EXCEPT ![r].pc = step]
      PROVE  /\ txn' \in [Requests -> Txn]
             /\ txn'[r] = [txn[r] EXCEPT !.pc = step]
  BY <1>1, <1>5 DEF Txn, TypeOK
<1>6. {"insert", "select"} \subseteq Steps
  BY DEF Steps
<1>7. QED
  BY <1>2, <1>3, <1>4, <1>5, <1>6 DEF SelectNothing, InsertState

LEMMA TypeStep == IInv /\ [Next]_vars => TypeOK'
<1> SUFFICES ASSUME IInv, [Next]_vars PROVE TypeOK'
  OBVIOUS
<1> USE DEF IInv
<1>1. ASSUME UNCHANGED dbVars, clock' \in 0 .. MaxClock,
             charLock' \in [Characters -> Requests \cup {Nobody}],
             stateLock' \in [Deposits -> Requests \cup {Nobody}],
             overlapped' \subseteq Characters,
             txn' \in [Requests -> Txn]
      PROVE  TypeOK'
  BY <1>1 DEF TypeOK, dbVars
<1>2. ASSUME NEW r \in Requests, NEW c \in Calls, Resolve(r, c) PROVE TypeOK'
  <2>1. txn' \in [Requests -> Txn]
    BY <1>2, StepEffect
  <2>2. overlapped' \subseteq Characters
    BY <1>2, GatherTxnAssumption DEF Resolve, TypeOK
  <2>3. QED
    BY <1>1, <1>2, <2>1, <2>2 DEF Resolve, TypeOK, lockVars
<1>3. ASSUME NEW r \in Requests, LockCharacter(r) PROVE TypeOK'
  BY <1>1, <1>3, StepEffect, LockTyped DEF LockCharacter, TypeOK
<1>4. ASSUME NEW r \in Requests, SelectState(r) PROVE TypeOK'
  BY <1>1, <1>4, StepEffect, LockTyped DEF SelectState, TypeOK
<1>5. ASSUME NEW r \in Requests, SelectNothing(r) PROVE TypeOK'
  BY <1>1, <1>5, StepEffect DEF SelectNothing, TypeOK, lockVars
<1>6. ASSUME NEW r \in Requests, InsertState(r) PROVE TypeOK'
  <2>1. stateLock' \in [Deposits -> Requests \cup {Nobody}]
    BY <1>6 DEF InsertState, TypeOK
  <2>2. txn' \in [Requests -> Txn]
    BY <1>6, StepEffect
  <2>3. QED
    BY <1>1, <1>6, <2>1, <2>2 DEF InsertState, TypeOK
<1>7. ASSUME NEW r \in Requests, Rollback(r) PROVE TypeOK'
  BY <1>1, <1>7, EndEffect DEF Rollback, TypeOK, EndTransaction
<1>8. ASSUME NEW r \in Requests, Works(r) PROVE TypeOK'
  <2>1. PICK d : d = Deposit(r)
    OBVIOUS
  <2>2. /\ txn[r].pc = "work" /\ d \in Deposits
        /\ IsPartialFn(states', Deposits, State)
        /\ \A e \in DOMAIN states' : e # d => e \in DOMAIN states /\ states'[e] = states[e]
        /\ states'[d].remaining = Respawned(r).remaining - RoomFor(r)
        /\ drawn' = [drawn EXCEPT ![d] = @ + RoomFor(r)]
    BY <1>8, <2>1, WorkEffect
  <2>3. /\ Respawned(r).remaining \in Nat
        /\ Respawned(r).remaining <= QuantityMax[d[1]]
        /\ RoomFor(r) \in Nat /\ RoomFor(r) <= Respawned(r).remaining
        /\ CharOf(r) \in Characters
        /\ pockets[CharOf(r)] + RoomFor(r) \in 0 .. Capacity
    BY <2>1, <2>2, WorkTyped DEF State
  <2>4. QuantityMax[d[1]] \in Nat
    BY <2>2, DepositTyped
  <2>5. \A e \in DOMAIN states' : states'[e].remaining <= QuantityMax[e[1]]
    BY <2>2, <2>3, <2>4 DEF TypeOK
  <2>6. drawn' \in [Deposits -> Nat]
    BY <2>2, <2>3 DEF TypeOK
  <2>7. txn[r].now \in 0 .. MaxClock
    BY DEF TypeOK, Txn
  <2>8. /\ refills' \in [Deposits -> Nat] /\ worked' \in [Deposits -> 0 .. MaxClock]
        /\ late' \subseteq Deposits
    <3>1. RecordWork(r)
      BY <1>8 DEF Works, Gather, GatherNothing
    <3>2. QED
      BY <2>1, <2>2, <2>7, <3>1 DEF RecordWork, TypeOK
  <2>9. /\ lastGathered' \in [Characters -> 0 .. MaxClock \cup {Never}]
        /\ pockets' \in [Characters -> 0 .. Capacity]
        /\ xp' \in [Characters -> Nat]
    <3>1. XpPerUnit * RoomFor(r) \in Nat
      BY <2>3, ConstantsTyped, ProductNat
    <3>2. CASE Gather(r)
      BY <2>3, <2>7, <3>1, <3>2 DEF Gather, TimeUsedUp, TypeOK
    <3>3. CASE GatherNothing(r)
      BY <3>3 DEF GatherNothing, TypeOK
    <3>4. QED
      BY <1>8, <3>2, <3>3 DEF Works
  <2>10. EndTransaction(r)
    BY <1>8 DEF Works, Gather, GatherNothing
  <2>11. QED
    BY <2>2, <2>5, <2>6, <2>8, <2>9, <2>10, EndEffect DEF TypeOK
<1>9. ASSUME Tick PROVE TypeOK'
  BY <1>1, <1>9, ConstantsTyped DEF Tick, TypeOK, lockVars
<1>10. CASE UNCHANGED vars
  BY <1>1, <1>10 DEF vars, lockVars, TypeOK
<1>11. QED
  BY <1>2, <1>3, <1>4, <1>5, <1>6, <1>7, <1>8, <1>9, <1>10
  DEF Next, Refuse, Disconnect, Works

--------------------------------------------------------------------------------
(* What a request at work has in memory is what is in the database.          *)

(* Who does not move keeps what it has, so long as nobody works its deposit.  *)
LEMMA ControlKept ==
    ASSUME IInv, NEW s \in Requests, txn'[s] = txn[s], clock' \in Nat, clock <= clock',
           txn[s].pc = "work" =>
               stateLock'[Deposit(s)] = s /\ Current(Deposit(s))' = Current(Deposit(s))
    PROVE  ControlOf(s)'
<1> USE DEF IInv
<1>1. ControlOf(s)
  BY DEF ControlOK
<1>2. txn[s].now \in Nat /\ clock \in Nat
  BY DEF TypeOK, Txn
<1>3. Deposit(s)' = Deposit(s)
  BY DEF Deposit
<1>4. QED
  BY <1>1, <1>2, <1>3 DEF ControlOf, Running

LEMMA ControlStep == IInv /\ [Next]_vars => ControlOK'
<1> SUFFICES ASSUME IInv, [Next]_vars, NEW s \in Requests PROVE ControlOf(s)'
  BY DEF ControlOK
<1> USE DEF IInv
<1>1. /\ txn \in [Requests -> Txn] /\ clock \in Nat /\ txn[s].now \in Nat
      /\ ControlOf(s)
      /\ stateLock \in [Deposits -> Requests \cup {Nobody}]
  BY DEF TypeOK, Txn, ControlOK
<1>2. 0 \notin Requests
  BY GatherTxnAssumption
<1>3. txn[s].pc = "work" => Deposit(s) \in Deposits /\ stateLock[Deposit(s)] = s
  BY CallTyped DEF Running, ControlOK, ControlOf
<1>4. ASSUME NEW r \in Requests, r # s, \A q \in Requests : q # r => txn'[q] = txn[q],
             clock' = clock, UNCHANGED dbVars,
             \A d \in Deposits, q \in Requests : q # r /\ stateLock[d] = q => stateLock'[d] = q
      PROVE  ControlOf(s)'
  <2>1. txn'[s] = txn[s] /\ states' = states
    BY <1>4 DEF dbVars
  <2>2. Current(Deposit(s))' = Current(Deposit(s)) /\ Deposit(s)' = Deposit(s)
    BY <2>1 DEF Deposit, Current, Untouched
  <2>3. txn[s].pc = "work" => stateLock'[Deposit(s)] = s
    BY <1>3, <1>4
  <2>4. QED
    BY <1>1, <1>4, <2>1, <2>2, <2>3, ControlKept
<1>5. ASSUME NEW r \in Requests, NEW c \in Calls, Resolve(r, c) PROVE ControlOf(s)'
  <2>1. CASE r = s
    <3>1. txn'[s] = [txn[s] EXCEPT !.call = c, !.last = lastGathered[c.char],
                                   !.pc = "lockCharacter"]
      BY <1>5, <2>1, StepEffect
    <3>2. txn'[s].call = c /\ txn'[s].pc = "lockCharacter" /\ txn'[s].now = txn[s].now
      BY <1>1, <3>1 DEF Txn
    <3>3. clock' = clock
      BY <1>5 DEF Resolve
    <3>4. QED
      BY <1>1, <3>2, <3>3 DEF ControlOf, Running
  <2>2. CASE r # s
    BY <1>1, <1>4, <1>5, <2>2 DEF Resolve, lockVars
  <2>3. QED
    BY <2>1, <2>2
<1>6. ASSUME NEW r \in Requests, LockCharacter(r) PROVE ControlOf(s)'
  <2>1. CASE r = s
    <3>1. /\ txn'[s] = [txn[s] EXCEPT !.now = clock, !.pc = "select"]
          /\ clock' = clock /\ txn[s].pc = "lockCharacter"
      BY <1>6, <2>1, StepEffect DEF LockCharacter
    <3>2. txn'[s].call = txn[s].call /\ txn'[s].pc = "select" /\ txn'[s].now = clock
      BY <1>1, <3>1 DEF Txn
    <3>3. QED
      BY <1>1, <3>1, <3>2 DEF ControlOf, Running
  <2>2. CASE r # s
    BY <1>1, <1>4, <1>6, <2>2 DEF LockCharacter
  <2>3. QED
    BY <2>1, <2>2
<1>7. ASSUME NEW r \in Requests, SelectState(r) PROVE ControlOf(s)'
  <2>1. CASE r = s
    <3>1. /\ txn'[s] = [txn[s] EXCEPT !.state = Current(Deposit(s)), !.pc = "work"]
          /\ clock' = clock /\ states' = states /\ txn[s].pc = "select"
          /\ stateLock' = [stateLock EXCEPT ![Deposit(s)] = s]
      BY <1>7, <2>1, StepEffect DEF SelectState, dbVars
    <3>2. /\ txn'[s].call = txn[s].call /\ txn'[s].pc = "work" /\ txn'[s].now = txn[s].now
          /\ txn'[s].state = Current(Deposit(s))
      BY <1>1, <3>1 DEF Txn
    <3>3. Deposit(s) \in Deposits
      BY <3>1, CallTyped DEF Running
    <3>4. stateLock'[Deposit(s)] = s
      BY <1>1, <3>1, <3>3
    <3>5. Deposit(s)' = Deposit(s) /\ Current(Deposit(s))' = Current(Deposit(s))
      BY <3>1, <3>2 DEF Deposit, Current, Untouched
    <3>6. QED
      BY <1>1, <3>1, <3>2, <3>4, <3>5 DEF ControlOf, Running
  <2>2. CASE r # s
    <3>1. \A d \in Deposits, q \in Requests : q # r /\ stateLock[d] = q => stateLock'[d] = q
      BY <1>1, <1>2, <1>7 DEF SelectState, CanLockState, Free, Nobody
    <3>2. QED
      BY <1>1, <1>4, <1>7, <2>2, <3>1 DEF SelectState
  <2>3. QED
    BY <2>1, <2>2
<1>8. ASSUME NEW r \in Requests, NEW step \in {"insert", "select"},
             txn' = [txn EXCEPT ![r].pc = step], Running(r), UNCHANGED <<dbVars, clock>>,
             \A d \in Deposits, q \in Requests : q # r /\ stateLock[d] = q => stateLock'[d] = q
      PROVE  ControlOf(s)'
  <2>1. CASE r = s
    <3>1. /\ txn'[s].call = txn[s].call /\ txn'[s].pc = step /\ txn'[s].now = txn[s].now
      BY <1>1, <1>8, <2>1 DEF Txn
    <3>2. txn'[s].call \in Calls
      BY <1>1, <1>8, <2>1, <3>1 DEF ControlOf
    <3>3. txn'[s].now <= clock' /\ txn'[s].pc # "work"
      BY <1>1, <1>8, <3>1 DEF ControlOf
    <3>4. QED
      BY <3>2, <3>3 DEF ControlOf
  <2>2. CASE r # s
    BY <1>1, <1>4, <1>8, <2>2
  <2>3. QED
    BY <2>1, <2>2
<1>9. ASSUME NEW r \in Requests, SelectNothing(r) PROVE ControlOf(s)'
  BY <1>1, <1>8, <1>9 DEF SelectNothing, Running, lockVars
<1>10. ASSUME NEW r \in Requests, InsertState(r) PROVE ControlOf(s)'
  <2>1. \A d \in Deposits, q \in Requests : q # r /\ stateLock[d] = q => stateLock'[d] = q
    BY <1>1, <1>2, <1>10 DEF InsertState, Free, Nobody
  <2>2. QED
    BY <1>8, <1>10, <2>1 DEF InsertState, Running
<1>11. ASSUME NEW r \in Requests, EndTransaction(r),
              \A d \in Deposits : \/ Current(d)' = Current(d)
                                  \/ stateLock[d] = r /\ txn[r].pc = "work"
       PROVE  ControlOf(s)'
  <2>1. CASE r = s
    BY <1>1, <1>11, <2>1, EndEffect DEF ControlOf, Running
  <2>2. CASE r # s
    <3>1. txn'[s] = txn[s] /\ clock' = clock
      BY <1>11, <2>2, EndEffect
    <3>2. txn[s].pc = "work" => stateLock'[Deposit(s)] = s
      BY <1>3, <1>11, <2>2, EndEffect
    <3>3. Deposit(s)' = Deposit(s)
      BY <3>1 DEF Deposit
    <3>4. txn[s].pc = "work" => Current(Deposit(s))' = Current(Deposit(s))
      <4>1. SUFFICES ASSUME NEW d \in Deposits, d = Deposit(s), stateLock[d] = s
                     PROVE  Current(d)' = Current(d)
        BY <1>3, <3>3
      <4>2. QED
        BY <1>11, <2>2, <4>1
    <3>5. QED
      BY <1>1, <3>1, <3>2, <3>4, ControlKept
  <2>3. QED
    BY <2>1, <2>2
<1>12. ASSUME NEW r \in Requests, Rollback(r) PROVE ControlOf(s)'
  <2>1. EndTransaction(r) /\ states' = states
    BY <1>12 DEF Rollback, dbVars
  <2>2. \A d \in Deposits : Current(d)' = Current(d)
    BY <2>1 DEF Current, Untouched
  <2>3. QED
    BY <1>11, <2>1, <2>2
<1>13. ASSUME NEW r \in Requests, Works(r) PROVE ControlOf(s)'
  <2>1. PICK d : d = Deposit(r)
    OBVIOUS
  <2>2. /\ txn[r].pc = "work" /\ \A e \in Deposits : e # d => Current(e)' = Current(e)
    BY <1>13, <2>1, WorkEffect
  <2>3. stateLock[d] = r
    BY <2>1, <2>2, WorkTyped
  <2>4. EndTransaction(r)
    BY <1>13 DEF Works, Gather, GatherNothing
  <2>5. QED
    BY <1>11, <2>2, <2>3, <2>4
<1>14. ASSUME Tick \/ UNCHANGED vars PROVE ControlOf(s)'
  <2>1. txn' = txn /\ stateLock' = stateLock /\ states' = states
        /\ clock' \in Nat /\ clock <= clock'
    BY <1>1, <1>14 DEF Tick, vars, dbVars, lockVars
  <2>2. Current(Deposit(s))' = Current(Deposit(s))
    BY <2>1 DEF Current, Untouched, Deposit
  <2>3. QED
    BY <1>3, <2>1, <2>2, ControlKept
<1>15. QED
  BY <1>5, <1>6, <1>7, <1>9, <1>10, <1>12, <1>13, <1>14
  DEF Next, Refuse, Disconnect, Works

--------------------------------------------------------------------------------
(* What the deposits hold                                                    *)

(* A request at work brings its deposit back or leaves it as it was, and      *)
(* counts a refill when it has.                                              *)
LEMMA RefillEffect ==
    ASSUME IInv, NEW r \in Requests, Works(r), NEW d, d = Deposit(r)
    PROVE  /\ d \in Deposits
           /\ \A e \in Deposits : e # d =>
                  drawn'[e] = drawn[e] /\ refills'[e] = refills[e] /\ worked'[e] = worked[e]
           /\ drawn'[d] = drawn[d] + RoomFor(r)
           /\ worked'[d] = txn[r].now
           /\ late' = IF txn[r].now < worked[d] THEN late \cup {d} ELSE late
           /\ \/ /\ ~RespawnDue(r)
                 /\ refills'[d] = refills[d]
                 /\ Respawned(r) = Current(d)
              \/ /\ RespawnDue(r)
                 /\ Current(d).respawnAt # Never /\ txn[r].now >= Current(d).respawnAt
                 /\ refills'[d] = refills[d] + 1
                 /\ Respawned(r) = Untouched(d)
<1>1. RecordWork(r)
  BY DEF Works, Gather, GatherNothing
<1>2. /\ txn[r].pc = "work" /\ d \in Deposits
      /\ drawn' = [drawn EXCEPT ![d] = @ + RoomFor(r)]
  BY WorkEffect
<1>3. txn[r].state = Current(d)
  BY <1>2, WorkTyped
<1>4. /\ drawn \in [Deposits -> Nat] /\ refills \in [Deposits -> Nat]
      /\ worked \in [Deposits -> 0 .. MaxClock]
  BY DEF IInv, TypeOK
<1>5. QED
  BY <1>1, <1>2, <1>3, <1>4 DEF RecordWork, RespawnDue, Respawned

LEMMA EmptyStep == IInv /\ [Next]_vars => EmptyWaits'
<1> SUFFICES ASSUME IInv, [Next]_vars, NEW d \in Deposits
             PROVE  Current(d)'.respawnAt # Never => Current(d)'.remaining = 0
  BY DEF EmptyWaits
<1>1. Current(d).respawnAt # Never => Current(d).remaining = 0
  BY DEF IInv, EmptyWaits
<1>2. CASE UNCHANGED dbVars
  BY <1>1, <1>2 DEF dbVars, Current, Untouched
<1>3. ASSUME NEW r \in Requests, Works(r)
      PROVE  Current(d)'.respawnAt # Never => Current(d)'.remaining = 0
  <2>1. CASE d # Deposit(r)
    BY <1>1, <1>3, <2>1, WorkEffect
  <2>2. CASE d = Deposit(r)
    <3>1. /\ txn[r].pc = "work"
          /\ Current(d)' = states'[d]
          /\ states'[d].remaining = Respawned(r).remaining - RoomFor(r)
          /\ states'[d].respawnAt =
                 IF RoomFor(r) > 0 /\ states'[d].remaining = 0 THEN RespawnTime(r)
                 ELSE Respawned(r).respawnAt
      BY <1>3, <2>2, WorkEffect
    <3>2. /\ RoomFor(r) \in Nat /\ Respawned(r).remaining \in Nat
          /\ RoomFor(r) <= Respawned(r).remaining
      BY <3>1, WorkTyped DEF State
    <3>3. Respawned(r).respawnAt # Never => Respawned(r).remaining = 0
      BY <1>1, <1>3, <2>2, RefillEffect, DepositTyped DEF IInv
    <3>4. QED
      BY <3>1, <3>2, <3>3
  <2>3. QED
    BY <2>1, <2>2
<1>4. QED
  BY <1>2, <1>3, StepsSorted

LEMMA DepositsStep == IInv /\ [Next]_vars => DepositsAddUp'
<1> DEFINE AddsUp(d) == drawn[d] + Current(d).remaining = QuantityMax[d[1]] * (refills[d] + 1)
<1>1. DepositsAddUp <=> \A d \in Deposits : AddsUp(d)
  BY DEF DepositsAddUp, Current, Untouched
<1>2. DepositsAddUp' <=> \A d \in Deposits : AddsUp(d)'
  BY DEF DepositsAddUp, Current, Untouched
<1> SUFFICES ASSUME IInv, [Next]_vars, NEW d \in Deposits PROVE AddsUp(d)'
  BY <1>2
<1>3. AddsUp(d)
  BY <1>1 DEF IInv
<1>4. CASE UNCHANGED dbVars
  BY <1>3, <1>4 DEF dbVars, Current, Untouched
<1>5. ASSUME NEW r \in Requests, Works(r) PROVE AddsUp(d)'
  <2>1. CASE d # Deposit(r)
    <3>1. Current(d)' = Current(d)
      BY <1>5, <2>1, WorkEffect
    <3>2. drawn'[d] = drawn[d] /\ refills'[d] = refills[d]
      BY <1>5, <2>1, RefillEffect
    <3>3. QED
      BY <1>3, <3>1, <3>2
  <2>2. CASE d = Deposit(r)
    <3>1. /\ txn[r].pc = "work"
          /\ Current(d)'.remaining = Respawned(r).remaining - RoomFor(r)
      BY <1>5, <2>2, WorkEffect
    <3>2. RoomFor(r) \in Nat /\ Respawned(r).remaining \in Nat
      BY <3>1, WorkTyped DEF State
    <3>3. /\ QuantityMax[d[1]] \in Nat /\ Untouched(d).remaining = QuantityMax[d[1]]
          /\ Current(d).remaining \in Nat
          /\ drawn[d] \in Nat /\ refills[d] \in Nat
      BY DepositTyped DEF IInv, TypeOK, State
    <3>4. drawn'[d] = drawn[d] + RoomFor(r)
      BY <1>5, <2>2, RefillEffect
    <3>5. CASE RespawnDue(r)
      <4>1. Current(d).remaining = 0 /\ Respawned(r).remaining = QuantityMax[d[1]]
            /\ refills'[d] = refills[d] + 1
        BY <1>5, <2>2, <3>3, <3>5, RefillEffect DEF IInv, EmptyWaits
      <4>2. QuantityMax[d[1]] * (refills[d] + 1 + 1) =
            QuantityMax[d[1]] * (refills[d] + 1) + QuantityMax[d[1]]
        BY <3>3
      <4>3. QED
        BY <1>3, <3>1, <3>2, <3>3, <3>4, <4>1, <4>2
    <3>6. CASE ~RespawnDue(r)
      <4>1. Respawned(r) = Current(d) /\ refills'[d] = refills[d]
        BY <1>5, <2>2, <3>6, RefillEffect
      <4>2. QED
        BY <1>3, <3>1, <3>2, <3>3, <3>4, <4>1
    <3>7. QED
      BY <3>5, <3>6
  <2>3. QED
    BY <2>1, <2>2
<1>6. QED
  BY <1>4, <1>5, StepsSorted

LEMMA RefillsStep == IInv /\ [Next]_vars => RefillsPaced'
<1> SUFFICES ASSUME IInv, [Next]_vars, NEW d \in Deposits, d \notin late'
             PROVE  /\ worked'[d] <= clock'
                    /\ refills'[d] * RespawnTicks <= worked'[d]
                    /\ Current(d)'.respawnAt # Never =>
                           refills'[d] * RespawnTicks + RespawnTicks <= Current(d)'.respawnAt
  BY DEF RefillsPaced
<1>1. /\ clock \in Nat /\ worked[d] \in Nat /\ refills[d] \in Nat
      /\ RespawnTicks \in Nat \ {0}
  BY ConstantsTyped DEF IInv, TypeOK
<1>2. clock' \in Nat /\ clock <= clock'
  <2>1. clock' = clock \/ clock' = clock + 1
    BY DEF Next, vars, dbVars, lockVars, Resolve, LockCharacter, Refuse, SelectState,
           SelectNothing, InsertState, Disconnect, Tick, Rollback, Gather, GatherNothing,
           EndTransaction
  <2>2. QED
    BY <1>1, <2>1
<1>3. d \notin late =>
          /\ worked[d] <= clock
          /\ refills[d] * RespawnTicks <= worked[d]
          /\ Current(d).respawnAt # Never =>
                 refills[d] * RespawnTicks + RespawnTicks <= Current(d).respawnAt
  BY DEF IInv, RefillsPaced
<1>4. CASE UNCHANGED dbVars
  BY <1>1, <1>2, <1>3, <1>4 DEF dbVars, Current, Untouched
<1>5. CASE \E r \in Requests : Works(r)
  <2>1. PICK r \in Requests : Works(r)
    BY <1>5
  <2>2. CASE d # Deposit(r)
    <3>1. Current(d)' = Current(d)
      BY <2>1, <2>2, WorkEffect
    <3>2. worked'[d] = worked[d] /\ refills'[d] = refills[d] /\ d \notin late
      BY <2>1, <2>2, RefillEffect
    <3>3. QED
      BY <1>1, <1>2, <1>3, <3>1, <3>2
  <2>3. CASE d = Deposit(r)
    <3>1. d \notin late /\ worked'[d] = txn[r].now /\ ~(txn[r].now < worked[d])
      BY <2>1, <2>3, RefillEffect
    <3>2. txn[r].now \in Nat /\ txn[r].now <= clock
      BY <1>1, ConstantsTyped DEF IInv, TypeOK, Txn, ControlOK, ControlOf
    <3>3. /\ txn[r].pc = "work"
          /\ Current(d)' = states'[d]
          /\ states'[d].remaining = Respawned(r).remaining - RoomFor(r)
          /\ states'[d].respawnAt =
                 IF RoomFor(r) > 0 /\ states'[d].remaining = 0 THEN RespawnTime(r)
                 ELSE Respawned(r).respawnAt
      BY <2>1, <2>3, WorkEffect
    <3>4. /\ RoomFor(r) \in Nat /\ Respawned(r).remaining \in Nat
          /\ RoomFor(r) <= Respawned(r).remaining
      BY <3>3, WorkTyped DEF State
    <3>5. /\ Current(d).respawnAt \in Nat
          /\ Current(d).respawnAt # Never => Current(d).remaining = 0
      BY DepositTyped DEF IInv, EmptyWaits, State
    <3>6. refills'[d] * RespawnTicks <= txn[r].now
      <4>1. CASE RespawnDue(r)
        <5>1. /\ Current(d).respawnAt # Never /\ txn[r].now >= Current(d).respawnAt
              /\ refills'[d] = refills[d] + 1
          BY <2>1, <2>3, <4>1, RefillEffect
        <5>2. (refills[d] + 1) * RespawnTicks = refills[d] * RespawnTicks + RespawnTicks
          BY <1>1
        <5>3. refills[d] * RespawnTicks \in Nat
          BY <1>1, ProductNat
        <5>4. QED
          BY <1>1, <1>3, <3>1, <3>2, <3>5, <5>1, <5>2, <5>3
      <4>2. CASE ~RespawnDue(r)
        <5>1. refills'[d] = refills[d]
          BY <2>1, <2>3, <4>2, RefillEffect
        <5>2. refills[d] * RespawnTicks \in Nat
          BY <1>1, ProductNat
        <5>3. QED
          BY <1>1, <1>3, <3>1, <3>2, <5>1, <5>2
      <4>3. QED
        BY <4>1, <4>2
    <3>7. refills'[d] \in Nat /\ refills'[d] * RespawnTicks \in Nat
      <4>1. refills'[d] \in Nat
        BY <1>1, <2>1, <2>3, RefillEffect
      <4>2. QED
        BY <1>1, <4>1, ProductNat
    <3>8. Current(d)'.respawnAt # Never =>
              refills'[d] * RespawnTicks + RespawnTicks <= Current(d)'.respawnAt
      <4>1. CASE RoomFor(r) > 0 /\ states'[d].remaining = 0
        BY <1>1, <3>2, <3>3, <3>6, <3>7, <4>1 DEF RespawnTime
      <4>2. CASE ~(RoomFor(r) > 0 /\ states'[d].remaining = 0)
        <5>1. Current(d)'.respawnAt = Respawned(r).respawnAt
          BY <3>3, <4>2
        <5>2. CASE RespawnDue(r)
          BY <2>1, <2>3, <5>1, <5>2, RefillEffect, DepositTyped DEF IInv
        <5>3. CASE ~RespawnDue(r)
          <6>1. Respawned(r) = Current(d) /\ refills'[d] = refills[d]
            BY <2>1, <2>3, <5>3, RefillEffect
          <6>2. QED
            BY <1>3, <3>1, <5>1, <6>1
        <5>4. QED
          BY <5>2, <5>3
      <4>3. QED
        BY <4>1, <4>2
    <3>9. QED
      BY <1>1, <1>2, <3>1, <3>2, <3>6, <3>8
  <2>4. QED
    BY <2>2, <2>3
<1>6. QED
  BY <1>4, <1>5, StepsSorted

--------------------------------------------------------------------------------
(* What a character gathers                                                  *)

(* Only Resolve brings a request under way, and none forgets what it has read. *)
LEMMA UnderWay ==
    ASSUME IInv, [Next]_vars
    PROVE  \/ \E r \in Requests, c \in Calls : Resolve(r, c)
           \/ /\ overlapped' = overlapped
              /\ \A s \in Requests : Running(s)' =>
                    /\ Running(s)
                    /\ txn'[s].call = txn[s].call
                    /\ txn'[s].last = txn[s].last
<1> DEFINE Kept == \A s \in Requests : Running(s)' =>
                      Running(s) /\ txn'[s].call = txn[s].call /\ txn'[s].last = txn[s].last
<1> USE DEF IInv
<1>1. txn \in [Requests -> Txn]
  BY DEF TypeOK
<1>2. ASSUME NEW r \in Requests,
             txn'[r].call = txn[r].call, txn'[r].last = txn[r].last, Running(r),
             \A s \in Requests : s # r => txn'[s] = txn[s]
      PROVE  Kept
  BY <1>2 DEF Running
<1>3. ASSUME NEW r \in Requests, LockCharacter(r) PROVE Kept /\ overlapped' = overlapped
  BY <1>1, <1>2, <1>3 DEF LockCharacter, Running, Txn
<1>4. ASSUME NEW r \in Requests, SelectState(r) PROVE Kept /\ overlapped' = overlapped
  BY <1>1, <1>2, <1>4 DEF SelectState, Running, Txn
<1>5. ASSUME NEW r \in Requests, SelectNothing(r) PROVE Kept /\ overlapped' = overlapped
  BY <1>1, <1>2, <1>5 DEF SelectNothing, Running, Txn
<1>6. ASSUME NEW r \in Requests, InsertState(r) PROVE Kept /\ overlapped' = overlapped
  BY <1>1, <1>2, <1>6 DEF InsertState, Running, Txn
<1>7. ASSUME NEW r \in Requests, Refuse(r) \/ GatherNothing(r) \/ Gather(r) \/ Disconnect(r)
      PROVE  Kept /\ overlapped' = overlapped
  <2>1. EndTransaction(r)
    BY <1>7 DEF Refuse, GatherNothing, Gather, Disconnect, Rollback
  <2>2. Kept
    BY <2>1, EndEffect DEF Running
  <2> QED BY <2>1, <2>2 DEF EndTransaction
<1>8. ASSUME Tick \/ UNCHANGED vars PROVE Kept /\ overlapped' = overlapped
  BY <1>8 DEF Tick, vars, Running
<1> DEFINE Resolved == \E r \in Requests, c \in Calls : Resolve(r, c)
<1>9. ASSUME NEW r \in Requests, NEW c \in Calls, Resolve(r, c) PROVE Resolved
  BY <1>9
<1> HIDE DEF Kept, Resolved, IInv
<1>10. Resolved \/ (Kept /\ overlapped' = overlapped)
  BY <1>3, <1>4, <1>5, <1>6, <1>7, <1>8, <1>9, Zenon DEF Next
<1>11. QED
  BY <1>10 DEF Kept, Resolved

(* Who has gathered is done.                                                 *)
LEMMA GatheredBy ==
    ASSUME IInv, [Next]_vars
    PROVE  \/ lastGathered' = lastGathered /\ pockets' = pockets
           \/ \E r \in Requests :
                 /\ Gather(r) /\ Running(r) /\ ~Running(r)'
                 /\ \A c \in Characters : c # CharOf(r) =>
                       lastGathered'[c] = lastGathered[c] /\ pockets'[c] = pockets[c]
<1>1. CASE UNCHANGED dbVars
  BY <1>1 DEF dbVars
<1>2. ASSUME NEW r \in Requests, Gather(r)
      PROVE  /\ Running(r) /\ ~Running(r)'
             /\ \A c \in Characters : c # CharOf(r) =>
                   lastGathered'[c] = lastGathered[c] /\ pockets'[c] = pockets[c]
  <2>1. EndTransaction(r) /\ txn[r].pc = "work"
    BY <1>2 DEF Gather
  <2>2. txn'[r].pc = "done"
    BY <2>1, EndEffect DEF IInv
  <2>3. QED
    BY <1>2, <2>1, <2>2 DEF Gather, Running, IInv, TypeOK
<1>3. ASSUME NEW r \in Requests, GatherNothing(r)
      PROVE  lastGathered' = lastGathered /\ pockets' = pockets
  BY <1>3 DEF GatherNothing
<1>4. QED
  BY <1>1, <1>2, <1>3, StepsSorted DEF Works

LEMMA OneAtATimeStep == IInv /\ [Next]_vars => OneAtATime'
<1> SUFFICES ASSUME IInv, [Next]_vars, NEW c \in Characters, c \notin overlapped',
                    NEW r \in Requests, Running(r)', CharOf(r)' = c
             PROVE  /\ \A s \in Requests : Running(s)' /\ CharOf(s)' = c => s = r
                    /\ txn'[r].last = lastGathered'[c]
  BY DEF OneAtATime, Under, Running
<1> USE DEF IInv
<1>1. ASSUME c \notin overlapped, NEW q \in Requests, Running(q), CharOf(q) = c
      PROVE  /\ \A s \in Requests : Running(s) /\ CharOf(s) = c => s = q
             /\ txn[q].last = lastGathered[c]
  BY <1>1 DEF OneAtATime, Under, Running
<1>2. txn \in [Requests -> Txn]
  BY DEF TypeOK
<1>3. ASSUME NEW q \in Requests, NEW k \in Calls, Resolve(q, k)
      PROVE  /\ \A s \in Requests : Running(s)' /\ CharOf(s)' = c => s = r
             /\ txn'[r].last = lastGathered'[c]
  <2>1. /\ txn'[q].call = k /\ txn'[q].last = lastGathered[k.char]
        /\ \A s \in Requests : s # q => txn'[s] = txn[s]
        /\ lastGathered' = lastGathered
        /\ overlapped' = IF Under(k.char) # {} THEN overlapped \cup {k.char} ELSE overlapped
    BY <1>2, <1>3 DEF Resolve, Txn, dbVars
  <2>2. c \notin overlapped
    BY <2>1
  <2>3. \A s \in Requests : s # q /\ Running(s)' /\ CharOf(s)' = c => Running(s) /\ CharOf(s) = c
    BY <2>1 DEF Running, CharOf
  <2>4. CASE k.char = c
    <3>1. Under(c) = {}
      BY <2>1, <2>4
    <3>2. \A s \in Requests : Running(s)' /\ CharOf(s)' = c => s = q
      BY <2>3, <3>1 DEF Under, Running
    <3>3. QED
      BY <2>1, <2>4, <3>2
  <2>5. CASE k.char # c
    <3>1. \A s \in Requests : CharOf(s)' = c => s # q
      BY <2>1, <2>5 DEF CharOf
    <3>2. Running(r) /\ CharOf(r) = c /\ txn'[r].last = txn[r].last
      BY <2>1, <2>3, <3>1
    <3>3. QED
      BY <1>1, <2>1, <2>2, <2>3, <3>1, <3>2
  <2>6. QED
    BY <2>4, <2>5
<1>4. ASSUME overlapped' = overlapped,
             \A s \in Requests : Running(s)' =>
                 Running(s) /\ txn'[s].call = txn[s].call /\ txn'[s].last = txn[s].last
      PROVE  /\ \A s \in Requests : Running(s)' /\ CharOf(s)' = c => s = r
             /\ txn'[r].last = lastGathered'[c]
  <2>1. \A s \in Requests : Running(s)' /\ CharOf(s)' = c => Running(s) /\ CharOf(s) = c
    BY <1>4 DEF CharOf
  <2>2. /\ \A s \in Requests : Running(s) /\ CharOf(s) = c => s = r
        /\ txn[r].last = lastGathered[c]
    BY <1>1, <1>4, <2>1
  <2>3. lastGathered'[c] = lastGathered[c]
    <3>1. CASE lastGathered' = lastGathered
      BY <3>1
    <3>2. ASSUME NEW q \in Requests, Running(q), ~Running(q)',
                 c # CharOf(q) => lastGathered'[c] = lastGathered[c]
          PROVE  lastGathered'[c] = lastGathered[c]
      <4>1. q # r
        BY <3>2
      <4>2. CharOf(q) # c
        BY <2>2, <3>2, <4>1
      <4>3. QED
        BY <3>2, <4>2
    <3>3. QED
      BY <3>1, <3>2, GatheredBy
  <2>4. QED
    BY <1>4, <2>1, <2>2, <2>3
<1>5. QED
  BY <1>3, <1>4, UnderWay

LEMMA RateStep == IInv /\ [Next]_vars => RatePaced'
<1> DEFINE Paced(c) ==
        IF lastGathered[c] = Never THEN Gathered(c) = 0
        ELSE /\ lastGathered[c] <= clock
             /\ Gathered(c) <= UnitsPerTick[c] * (MaxBankedTicks + lastGathered[c])
<1> SUFFICES ASSUME IInv, [Next]_vars, NEW c \in Characters, c \notin overlapped'
             PROVE  Paced(c)'
  BY DEF RatePaced
<1> USE DEF IInv
<1>1. c \notin overlapped
  BY DEF Next, vars, dbVars, lockVars, Resolve, LockCharacter, Refuse, SelectState,
         SelectNothing, InsertState, Disconnect, Tick, Rollback, Gather, GatherNothing,
         EndTransaction
<1>2. /\ clock \in Nat /\ lastGathered[c] \in Nat
      /\ UnitsPerTick[c] \in Nat /\ InitialPockets[c] \in Nat /\ pockets[c] \in Nat
      /\ MaxBankedTicks \in Nat
  BY ConstantsTyped, GatherTxnAssumption DEF TypeOK
<1>3. clock' \in Nat /\ clock <= clock'
  <2>1. clock' = clock \/ clock' = clock + 1
    BY DEF Next, vars, dbVars, lockVars, Resolve, LockCharacter, Refuse, SelectState,
           SelectNothing, InsertState, Disconnect, Tick, Rollback, Gather, GatherNothing,
           EndTransaction
  <2>2. QED
    BY <1>2, <2>1
<1>4. Paced(c)
  BY <1>1 DEF RatePaced
<1>5. ASSUME lastGathered'[c] = lastGathered[c], pockets'[c] = pockets[c] PROVE Paced(c)'
  BY <1>2, <1>3, <1>4, <1>5 DEF Gathered
<1>6. ASSUME NEW r \in Requests, Gather(r), Running(r), CharOf(r) = c PROVE Paced(c)'
  <2>1. txn[r].last = lastGathered[c]
    BY <1>1, <1>6 DEF OneAtATime, Under, Running
  <2>2. /\ txn[r].now \in Nat /\ txn[r].now <= clock /\ txn[r].now <= MaxClock
        /\ MaxClock \in Nat /\ Never \in Nat /\ Never > MaxClock
    BY <1>2, ConstantsTyped DEF TypeOK, Txn, ControlOK, ControlOf
  <2>3. /\ lastGathered'[c] = txn[r].now
        /\ pockets'[c] = pockets[c] + RoomFor(r)
        /\ RoomFor(r) > 0 /\ txn[r].pc = "work"
    BY <1>6 DEF Gather, TimeUsedUp, TypeOK
  <2>4. /\ RoomFor(r) \in Nat /\ EntitledTicks(Elapsed(r)) \in Nat
        /\ RoomFor(r) <= EntitledTicks(Elapsed(r)) * UnitsPerTick[c]
    BY <1>6, <2>3, WorkTyped
  <2>5. Gathered(c)' <= UnitsPerTick[c] * (MaxBankedTicks + txn[r].now)
    <3>1. Gathered(c)' = Gathered(c) + RoomFor(r) /\ Gathered(c) \in Int
      BY <1>2, <2>3, <2>4 DEF Gathered
    <3>2. CASE lastGathered[c] = Never
      <4>1. EntitledTicks(Elapsed(r)) <= MaxBankedTicks + txn[r].now
        BY <1>2, <2>1, <2>2, <3>2 DEF EntitledTicks, Elapsed, Lesser
      <4>2. UnitsPerTick[c] * EntitledTicks(Elapsed(r)) <=
            UnitsPerTick[c] * (MaxBankedTicks + txn[r].now)
        BY <1>2, <2>2, <2>4, <4>1, ProductGrows
      <4>3. QED
        BY <1>2, <1>4, <2>2, <2>4, <3>1, <3>2, <4>2
    <3>3. CASE lastGathered[c] # Never
      <4>1. txn[r].now > lastGathered[c]
        <5>1. SUFFICES ASSUME ~(txn[r].now > lastGathered[c]) PROVE FALSE
          OBVIOUS
        <5>2. EntitledTicks(Elapsed(r)) = 0
          BY <1>2, <2>1, <3>3, <5>1 DEF EntitledTicks, Elapsed, Lesser
        <5>3. QED
          BY <1>2, <2>3, <2>4, <5>2
      <4>2. EntitledTicks(Elapsed(r)) <= txn[r].now - lastGathered[c]
        BY <1>2, <2>1, <2>2, <3>3, <4>1 DEF EntitledTicks, Elapsed, Lesser
      <4>3. UnitsPerTick[c] * EntitledTicks(Elapsed(r)) <=
            UnitsPerTick[c] * (txn[r].now - lastGathered[c])
        BY <1>2, <2>2, <2>4, <4>1, <4>2, ProductGrows
      <4>4. UnitsPerTick[c] * (MaxBankedTicks + lastGathered[c])
                + UnitsPerTick[c] * (txn[r].now - lastGathered[c]) =
            UnitsPerTick[c] * (MaxBankedTicks + txn[r].now)
        BY <1>2, <2>2
      <4>5. QED
        BY <1>2, <1>4, <2>2, <2>4, <3>1, <3>3, <4>3, <4>4
    <3>4. QED
      BY <3>2, <3>3
  <2>6. QED
    BY <1>2, <1>3, <2>2, <2>3, <2>5
<1>7. CASE lastGathered' = lastGathered /\ pockets' = pockets
  BY <1>5, <1>7
<1>8. ASSUME NEW r \in Requests, Gather(r), Running(r),
             c # CharOf(r) => lastGathered'[c] = lastGathered[c] /\ pockets'[c] = pockets[c]
      PROVE  Paced(c)'
  BY <1>5, <1>6, <1>8
<1>9. QED
  BY <1>7, <1>8, GatheredBy

--------------------------------------------------------------------------------
LEMMA InitIInv == Init => IInv
<1> SUFFICES ASSUME Init PROVE IInv
  OBVIOUS
<1>1. "idle" \in Steps
  BY DEF Steps
<1>2. txn = [r \in Requests |-> AtRest("idle")]
  BY DEF Init
<1>3. \A r \in Requests : txn[r] \in Txn /\ txn[r].pc = "idle" /\ txn[r].now = 0
  BY <1>1, <1>2, AtRestTyped
<1>4. TypeOK
  <2>1. txn \in [Requests -> Txn]
    BY <1>2, <1>3
  <2>2. IsPartialFn(states, Deposits, State) /\ DOMAIN states = {}
    BY EmptyPartial DEF Init
  <2>3. QED
    BY <2>1, <2>2, ConstantsTyped, GatherTxnAssumption DEF Init, TypeOK
<1>5. \A d \in Deposits : Current(d) = Untouched(d)
  BY EmptyPartial DEF Init, Current
<1>6. ControlOK
  BY <1>3 DEF ControlOK, ControlOf, Running, Init
<1>7. EmptyWaits
  BY <1>4, <1>5, DepositTyped DEF EmptyWaits
<1>8. DepositsAddUp
  <2>1. SUFFICES ASSUME NEW d \in Deposits
                 PROVE  0 + QuantityMax[d[1]] = QuantityMax[d[1]] * (0 + 1)
    BY EmptyPartial DEF DepositsAddUp, Init
  <2>2. QED
    BY <1>4, DepositTyped
<1>9. OneAtATime
  BY <1>3 DEF OneAtATime, Under
<1>10. RatePaced
  BY GatherTxnAssumption DEF RatePaced, Gathered, Init
<1>11. RefillsPaced
  BY <1>4, <1>5, DepositTyped, ConstantsTyped DEF RefillsPaced, Init
<1>12. QED
  BY <1>4, <1>6, <1>7, <1>8, <1>9, <1>10, <1>11 DEF IInv

LEMMA StepIInv == IInv /\ [Next]_vars => IInv'
BY TypeStep, ControlStep, EmptyStep, DepositsStep, OneAtATimeStep, RateStep, RefillsStep
DEF IInv

(* The strengthened invariant holds of every reachable state.                *)
THEOREM GatherInvariance == Spec => []IInv
BY InitIInv, StepIInv, PTL DEF Spec

(* Every row, lock and request stays in its type; no deposit ever holds more  *)
(* than it can, and no pack more than its capacity.                          *)
THEOREM GatherTypeCorrect == Spec => []TypeOK
<1>1. IInv => TypeOK
  BY DEF IInv
<1>2. QED
  BY GatherInvariance, <1>1, PTL

(* Whoever touches a deposit first and whoever works it at once, what it held *)
(* and every refill of it has been drawn from it or is still there.          *)
THEOREM DepositsHeld == Spec => []DepositsAddUp
<1>1. IInv => DepositsAddUp
  BY DEF IInv
<1>2. QED
  BY GatherInvariance, <1>1, PTL

(* A deposit gives no more than it holds once and once more for every respawn *)
(* time, however many draw from it.                                          *)
THEOREM SupplyHeld == Spec => []SupplyKept
<1>1. ASSUME IInv PROVE SupplyKept
  <2> SUFFICES ASSUME NEW d \in Deposits, d \notin late
               PROVE  drawn[d] <= QuantityMax[d[1]] * (1 + clock \div RespawnTicks)
    BY DEF SupplyKept
  <2>1. /\ clock \in Nat /\ worked[d] \in Nat /\ refills[d] \in Nat /\ drawn[d] \in Nat
        /\ RespawnTicks \in Nat \ {0}
    BY <1>1, ConstantsTyped DEF IInv, TypeOK
  <2>2. QuantityMax[d[1]] \in Nat /\ Current(d).remaining \in Nat
    BY <1>1, DepositTyped DEF IInv, State
  <2>3. drawn[d] + Current(d).remaining = QuantityMax[d[1]] * (refills[d] + 1)
    BY <1>1 DEF IInv, DepositsAddUp, Current, Untouched
  <2>4. refills[d] * RespawnTicks <= clock
    <3>1. worked[d] <= clock /\ refills[d] * RespawnTicks <= worked[d]
      BY <1>1 DEF IInv, RefillsPaced
    <3>2. refills[d] * RespawnTicks \in Nat
      BY <2>1, ProductNat
    <3>3. QED
      BY <2>1, <3>1, <3>2
  <2>5. clock \div RespawnTicks \in Nat /\ refills[d] <= clock \div RespawnTicks
    BY <2>1, <2>4, DivisionBound
  <2>6. QuantityMax[d[1]] * (refills[d] + 1) <= QuantityMax[d[1]] * (1 + clock \div RespawnTicks)
    BY <2>1, <2>2, <2>5, ProductGrows
  <2>7. QED
    BY <2>1, <2>2, <2>3, <2>5, <2>6
<1>2. QED
  BY GatherInvariance, <1>1, PTL

(* However often a character asks, one request at a time, it gathers no more  *)
(* than the time it has waited entitles it to.                               *)
THEOREM RateHeld == Spec => []RateKept
<1>1. ASSUME IInv PROVE RateKept
  <2> SUFFICES ASSUME NEW c \in Characters, c \notin overlapped
               PROVE  Gathered(c) <= UnitsPerTick[c] * (MaxBankedTicks + clock)
    BY DEF RateKept, Entitled
  <2>1. /\ clock \in Nat /\ lastGathered[c] \in Nat
        /\ UnitsPerTick[c] \in Nat /\ MaxBankedTicks \in Nat
        /\ pockets[c] - InitialPockets[c] \in Int
    BY <1>1, ConstantsTyped, GatherTxnAssumption DEF IInv, TypeOK
  <2>2. CASE lastGathered[c] = Never
    <3>1. Gathered(c) = 0
      BY <1>1, <2>2 DEF IInv, RatePaced
    <3>2. UnitsPerTick[c] * (MaxBankedTicks + clock) \in Nat
      BY <2>1, ProductNat
    <3>3. QED
      BY <3>1, <3>2
  <2>3. CASE lastGathered[c] # Never
    <3>1. /\ lastGathered[c] <= clock
          /\ Gathered(c) <= UnitsPerTick[c] * (MaxBankedTicks + lastGathered[c])
      BY <1>1, <2>3 DEF IInv, RatePaced
    <3>2. UnitsPerTick[c] * (MaxBankedTicks + lastGathered[c]) <=
          UnitsPerTick[c] * (MaxBankedTicks + clock)
      BY <2>1, <3>1, ProductGrows
    <3>3. QED
      BY <2>1, <3>1, <3>2 DEF Gathered
  <2>4. QED
    BY <2>2, <2>3
<1>2. QED
  BY GatherInvariance, <1>1, PTL

--------------------------------------------------------------------------------
(* What is in the packs came from the deposits.                              *)

LEMMA DepositsFinite == IsFiniteSet(Characters) /\ IsFiniteSet(Deposits)
<1>1. IsFiniteSet(Characters) /\ IsFiniteSet(Nodes)
  BY GatherTxnAssumption
<1>2. IsFiniteSet(Nodes \X (Characters \cup {Everyone}))
  BY <1>1, FS_AddElement, FS_Product
<1>3. Deposits \subseteq Nodes \X (Characters \cup {Everyone})
  BY DEF Deposits, DepositOf, OwnerOf
<1> QED BY <1>1, <1>2, <1>3, FS_Subset

LEMMA ProductOfSum ==
    ASSUME NEW q \in Int, NEW a \in Int, NEW b \in Int
    PROVE  q * (a + b) = q * a + q * b
OBVIOUS

LEMMA PacksStep ==
    ASSUME IInv, PacksAddUp, [Next]_vars
    PROVE  PacksAddUp'
<1>1. CASE UNCHANGED dbVars
  BY <1>1 DEF PacksAddUp, Gathered, dbVars
<1>2. ASSUME NEW r \in Requests, GatherNothing(r) PROVE PacksAddUp'
  BY <1>2 DEF GatherNothing, PacksAddUp, Gathered
<1>3. ASSUME NEW r \in Requests, Gather(r) PROVE PacksAddUp'
  <2> DEFINE n == RoomFor(r)
             d == Deposit(r)
             b == CharOf(r)
             f == [c \in Characters |-> Gathered(c)]
             g == [c \in Characters |-> pockets'[c] - InitialPockets[c]]
  <2>1. b \in Characters /\ d \in Deposits /\ n \in Nat
    <3>1. txn[r].pc = "work"
      BY <1>3 DEF Gather
    <3>2. txn[r].call \in Calls
      BY <3>1 DEF IInv, ControlOK, ControlOf, Running
    <3> QED BY <3>1, <3>2, WorkTyped, CallTyped DEF IInv
  <2>2. /\ pockets' = [pockets EXCEPT ![b] = pockets[b] + n]
        /\ xp' = [xp EXCEPT ![b] = xp[b] + XpPerUnit * n]
        /\ drawn' = [drawn EXCEPT ![d] = drawn[d] + n]
    BY <1>3 DEF Gather, DrawnDown
  <2>3. /\ pockets \in [Characters -> Nat] /\ xp \in [Characters -> Nat]
        /\ drawn \in [Deposits -> Nat] /\ XpPerUnit \in Nat
        /\ InitialPockets \in [Characters -> Nat]
    BY ConstantsTyped, GatherTxnAssumption DEF IInv, TypeOK
  <2> HIDE DEF n, d, b
  <2>4. SumFunction(drawn') = SumFunction(drawn) + drawn'[d] - drawn[d]
    <3>1. /\ d \in DOMAIN drawn /\ DOMAIN drawn = Deposits /\ DOMAIN drawn' = DOMAIN drawn
          /\ \A e \in DOMAIN drawn : drawn[e] \in Int /\ drawn'[e] \in Int
          /\ \A e \in DOMAIN drawn : e # d => drawn'[e] = drawn[e]
      BY <2>1, <2>2, <2>3
    <3> QED BY <3>1, DepositsFinite, SumMoves
  <2>5. SumFunction(g) = SumFunction(f) + g[b] - f[b]
    <3>1. /\ DOMAIN f = Characters /\ DOMAIN g = DOMAIN f
          /\ \A c \in DOMAIN f : f[c] \in Int /\ g[c] \in Int
          /\ \A c \in DOMAIN f : c # b => g[c] = f[c]
      BY <2>1, <2>2, <2>3 DEF Gathered
    <3>2. b \in DOMAIN f
      BY <2>1
    <3> HIDE DEF f, g
    <3> QED BY <3>1, <3>2, DepositsFinite, SumMoves
  <2>6. g[b] = f[b] + n /\ f[b] \in Int /\ drawn'[d] = drawn[d] + n /\ drawn[d] \in Int
    BY <2>1, <2>2, <2>3 DEF Gathered
  <2>7. SumFunction(f) = SumFunction(drawn) /\ SumFunction(drawn) \in Int
    <3>1. SumFunction(drawn) \in Int
      BY <2>3, DepositsFinite, SumTyped
    <3> QED BY <3>1 DEF PacksAddUp
  <2>8. SumFunction(g) = SumFunction(drawn')
    <3> HIDE DEF f, g
    <3> QED BY <2>1, <2>4, <2>5, <2>6, <2>7
  <2>9. ASSUME NEW c \in Characters PROVE xp'[c] = XpPerUnit * (pockets'[c] - InitialPockets[c])
    <3>1. xp[c] = XpPerUnit * (pockets[c] - InitialPockets[c])
      BY DEF PacksAddUp, Gathered
    <3>2. CASE c # b
      BY <2>1, <2>2, <2>3, <3>1, <3>2
    <3>3. CASE c = b
      <4>1. /\ xp'[c] = xp[c] + XpPerUnit * n
            /\ pockets'[c] - InitialPockets[c] = (pockets[c] - InitialPockets[c]) + n
            /\ pockets[c] - InitialPockets[c] \in Int
        BY <2>1, <2>2, <2>3, <3>3
      <4> QED BY <2>1, <2>3, <3>1, <4>1, ProductOfSum
    <3> QED BY <3>2, <3>3
  <2> QED BY <2>8, <2>9 DEF PacksAddUp, Gathered
<1> QED BY <1>1, <1>2, <1>3, StepsSorted DEF Works

(* What left the deposits is in the packs, to the unit, and is what was       *)
(* learnt from.                                                              *)
THEOREM PacksHeld == Spec => []PacksAddUp
<1>1. ASSUME Init PROVE PacksAddUp
  <2> DEFINE f == [c \in Characters |-> Gathered(c)]
  <2>1. /\ InitialPockets \in [Characters -> Nat] /\ XpPerUnit \in Nat
    BY ConstantsTyped, GatherTxnAssumption
  <2>2. \A c \in Characters : Gathered(c) = 0
    BY <1>1, <2>1 DEF Init, Gathered
  <2>3. DOMAIN f = Characters /\ \A c \in DOMAIN f : f[c] = 0
    BY <2>2
  <2> HIDE DEF f
  <2>4. SumFunction(f) = 0
    BY <2>3, DepositsFinite, SumOfZeros DEF SumFunction
  <2>5. DOMAIN drawn = Deposits /\ \A d \in DOMAIN drawn : drawn[d] = 0
    BY <1>1 DEF Init
  <2>6. SumFunction(drawn) = 0
    BY <2>5, DepositsFinite, SumOfZeros DEF SumFunction
  <2>7. \A c \in Characters : xp[c] = XpPerUnit * Gathered(c)
    BY <1>1, <2>1, <2>2 DEF Init
  <2> QED BY <2>4, <2>6, <2>7 DEF PacksAddUp, f
<1> QED BY <1>1, InitIInv, StepIInv, PacksStep, PTL DEF Spec

================================================================================
