----------------------------- MODULE RewardTxnProofs -----------------------------
(****************************************************************************)
(* What RewardTxn's safety properties rest on, proved for every set of       *)
(* characters, requests, calls, quests and journals.                         *)
(*                                                                           *)
(* A request that records an event holds the lock of every quest row it has,  *)
(* each still under way in the database, and its copy is exact once what it   *)
(* has noted is counted.  A turn-in locks nothing, and need not: the row it   *)
(* completes had its last step done, and no event touches such a row again.   *)
(****************************************************************************)
EXTENDS RewardTxn, TransactionsProofs

Entities == UNION {[S -> CharacterQuest] : S \in SUBSET Requests}
Tracked == UNION {[S -> Counter] : S \in SUBSET Counters}

Txn ==
    [pc: Steps, call: Calls \cup {NoCall}, seenBalance: Int, event: Event \cup {NoEvent},
     cand: SUBSET Requests, todo: SUBSET Requests, entities: Entities, tracked: Tracked,
     due: Requests \cup {Nobody}, owed: Nat, paid: Nat,
     noted: [Requests -> [StepNumbers -> Nat]]]

Shape ==
    /\ balance \in [Characters -> Int] /\ ledger \in [Characters -> Int]
    /\ counters \in [Characters -> [Counters -> Nat]]
    /\ quests \in Entities
    /\ recorded \in [Requests -> [StepNumbers -> Nat]]
    /\ clock \in 0 .. MaxClock
    /\ charLock \in [Characters -> Requests \cup {Nobody}]
    /\ questLock \in [Requests -> Requests \cup {Nobody}]
    /\ counterLock \in [Characters -> [Counters -> Requests \cup {Nobody}]]
    /\ txn \in [Requests -> Txn]

Ended(t) == t.pc \in {"idle", "done"}
Records(t) == t.call.op \in {"accept", "act"}
Rewarding == {"complete", "grant", "pay"}

(* The steps of each kind of call.                                           *)
PathOf(t) ==
    CASE t.call.op = "accept" ->
             {"guardActive", "guardRepeat", "scan", "record", "save"} \cup Rewarding
      [] t.call.op = "act" -> {"lockCharacter", "scan", "record"} \cup Rewarding
      [] t.call.op = "turnIn" -> {"findReady", "save"} \cup Rewarding
      [] t.call.op = "sell" -> {"readBudget", "takeGoods", "recordGrant", "save"}

HasDone(rows, c, q) == \E o \in DOMAIN rows :
    rows[o].char = c /\ rows[o].quest = q /\ rows[o].state = "Completed"

ControlOf(t) ==
    /\ Ended(t) => t = AtRest(t.pc)
    /\ ~Ended(t) => t.call \in Calls /\ t.pc \in PathOf(t)
    /\ t.pc \in {"guardActive", "guardRepeat", "lockCharacter", "findReady", "readBudget"} =>
           DOMAIN t.entities = {} /\ DOMAIN t.tracked = {}
    /\ t.call.op = "sell" => DOMAIN t.entities = {}
    /\ t.pc = "takeGoods" => Goods \notin DOMAIN t.tracked
    /\ t.event.steppedOn => Records(t)
    /\ Records(t) /\ t.pc \in {"lockCharacter", "scan", "record"} \cup Rewarding =>
           t.event \in Event
    /\ \A o \in t.todo : o \in DOMAIN t.entities /\ t.entities[o].state = "InProgress"
    /\ t.pc \in Rewarding =>
           /\ t.due \in DOMAIN t.entities /\ t.due \notin t.todo
           /\ t.entities[t.due].state # "InProgress"

(* Past its guard, a request that accepts a quest has seen what it asks for   *)
(* done, and that is never undone.                                           *)
MayAccept(t, rows) ==
    t.call.op = "accept" /\ t.pc # "guardActive" =>
        \A q \in QuestDefs[t.call.quest].prerequisite : HasDone(rows, t.call.char, q)

SameQuest(row, other) == row.char = other.char /\ row.quest = other.quest

Sum(f, g) == [s \in StepNumbers |-> f[s] + g[s]]

RecordedRow(r, t, o, rows, units, locks) ==
    /\ locks[o] = r
    /\ IsExact(t.entities[o], Sum(units[o], t.noted[o]))
    /\ o \in DOMAIN rows =>
           /\ SameQuest(t.entities[o], rows[o])
           /\ rows[o].state = "InProgress" /\ rows[o].step <= t.entities[o].step
    /\ o \notin DOMAIN rows =>
           /\ o = r /\ t.call.op = "accept"
           /\ t.entities[o].char = t.call.char /\ t.entities[o].quest = t.call.quest

TurnedIn(t, o, rows) ==
    /\ o = t.due /\ o \in DOMAIN rows
    /\ SameQuest(t.entities[o], rows[o])
    /\ rows[o].step = t.entities[o].step /\ rows[o].progress = t.entities[o].progress
    /\ rows[o].state # "InProgress" /\ t.entities[o].state # "InProgress"
    /\ t.pc # "complete" => t.entities[o].state = "Completed"

RowsFit(r, t, rows, units, locks) ==
    /\ Records(t) => \A o \in DOMAIN t.entities : RecordedRow(r, t, o, rows, units, locks)
    /\ t.call.op = "turnIn" => \A o \in DOMAIN t.entities : TurnedIn(t, o, rows)
    /\ \A o \in Requests : \A s \in StepNumbers :
           t.noted[o][s] # 0 => Records(t) /\ o \in DOMAIN t.entities
    /\ t.cand \subseteq DOMAIN rows \cup DOMAIN t.entities

CountersFit(r, t, locks) ==
    \A c \in Characters : \A k \in Counters :
        locks[c][k] = r => ~Ended(t) /\ c = t.call.char /\ k \in DOMAIN t.tracked

ControlOK == \A r \in Requests : ControlOf(txn[r])
AcceptOK == \A r \in Requests : MayAccept(txn[r], quests)
RowsOK == \A r \in Requests : RowsFit(r, txn[r], quests, recorded, questLock)
CountersOK == \A r \in Requests : CountersFit(r, txn[r], counterLock)

(* A request's own row is there only once it has committed.                  *)
NewRowsWait ==
    \A o \in Requests :
        /\ o \in DOMAIN quests => txn[o].pc = "done"
        /\ o \notin DOMAIN quests => \A s \in StepNumbers : recorded[o][s] = 0

IInv == /\ Shape /\ ControlOK /\ AcceptOK /\ RowsOK /\ CountersOK /\ NewRowsWait
        /\ ProgressExact /\ PrerequisitesHeld

--------------------------------------------------------------------------------
(* The operators the module is built from.                                   *)

LEMMA EntitiesTyped ==
    ASSUME NEW e
    PROVE  e \in Entities <=> IsPartialFn(e, Requests, CharacterQuest)
BY DEF Entities, IsPartialFn

LEMMA TrackedTyped ==
    ASSUME NEW f
    PROVE  f \in Tracked <=> IsPartialFn(f, Counters, Counter)
BY DEF Tracked, IsPartialFn

LEMMA EmptyTyped == EmptyFn \in Entities /\ EmptyFn \in Tracked /\ DOMAIN EmptyFn = {}
BY EntitiesTyped, TrackedTyped, EmptyPartial

LEMMA EntityTyped ==
    ASSUME NEW e \in Entities
    PROVE  DOMAIN e \subseteq Requests /\ \A o \in DOMAIN e : e[o] \in CharacterQuest
BY EntitiesTyped DEF IsPartialFn

LEMMA PutEntity ==
    ASSUME NEW e \in Entities, NEW o \in Requests, NEW row \in CharacterQuest
    PROVE  /\ Put(e, o, row) \in Entities
           /\ DOMAIN Put(e, o, row) = DOMAIN e \cup {o} /\ Put(e, o, row)[o] = row
           /\ \A x \in DOMAIN e : x # o => Put(e, o, row)[x] = e[x]
<1>1. IsPartialFn(e, Requests, CharacterQuest)
  BY EntitiesTyped
<1>2. /\ IsPartialFn(Put(e, o, row), Requests, CharacterQuest)
      /\ DOMAIN Put(e, o, row) = DOMAIN e \cup {o} /\ Put(e, o, row)[o] = row
      /\ \A x \in DOMAIN e : x # o => Put(e, o, row)[x] = e[x]
  BY <1>1 DEF IsPartialFn, Put
<1>3. QED
  BY <1>2, EntitiesTyped

LEMMA SetEntity ==
    ASSUME NEW e \in Entities, NEW o \in DOMAIN e, NEW row \in CharacterQuest,
           NEW f, f = [e EXCEPT ![o] = row]
    PROVE  /\ f \in Entities /\ DOMAIN f = DOMAIN e /\ f[o] = row
           /\ \A x \in DOMAIN e : x # o => f[x] = e[x]
<1>1. IsPartialFn(e, Requests, CharacterQuest)
  BY EntitiesTyped
<1>2. IsPartialFn(f, Requests, CharacterQuest)
  BY <1>1 DEF IsPartialFn
<1>3. QED
  BY <1>1, <1>2, EntitiesTyped DEF IsPartialFn

(* A quest's definition, and what a row's step asks for.                      *)
LEMMA QuestTyped ==
    ASSUME NEW q \in Quests
    PROVE  /\ QuestDefs[q].prerequisite \subseteq Quests
           /\ QuestDefs[q].reward \in Nat /\ QuestDefs[q].xp \in Nat
           /\ QuestDefs[q].steps \in Seq([objective: Objectives, quantity: Nat \ {0}])
           /\ Len(QuestDefs[q].steps) \in Nat \ {0}
           /\ DOMAIN QuestDefs[q].steps = 1 .. Len(QuestDefs[q].steps)
           /\ DOMAIN QuestDefs[q].steps \subseteq StepNumbers
           /\ \A n \in DOMAIN QuestDefs[q].steps :
                  QuestDefs[q].steps[n] \in [objective: Objectives, quantity: Nat \ {0}]
<1>1. QuestDefs[q] \in QuestDef /\ QuestDefs[q].steps # <<>>
  BY RewardTxnAssumption
<1>2. PICK steps : steps = QuestDefs[q].steps
  OBVIOUS
<1>3. steps \in Seq([objective: Objectives, quantity: Nat \ {0}]) /\ steps # <<>>
  BY <1>1, <1>2 DEF QuestDef
<1>4. ASSUME NEW S, steps \in Seq(S)
      PROVE  /\ Len(steps) \in Nat \ {0} /\ DOMAIN steps = 1 .. Len(steps)
             /\ \A n \in DOMAIN steps : steps[n] \in S
  BY <1>3, <1>4
<1>5. DOMAIN steps \subseteq StepNumbers
  BY <1>2 DEF StepNumbers
<1>6. /\ Len(steps) \in Nat \ {0} /\ DOMAIN steps = 1 .. Len(steps)
      /\ \A n \in DOMAIN steps : steps[n] \in [objective: Objectives, quantity: Nat \ {0}]
  BY <1>3, <1>4
<1>7. QED
  BY <1>1, <1>2, <1>3, <1>5, <1>6 DEF QuestDef

LEMMA RowTyped ==
    ASSUME NEW row \in CharacterQuest
    PROVE  /\ row.char \in Characters /\ row.quest \in Quests /\ row.state \in QuestStates
           /\ row.step \in Nat \ {0} /\ row.progress \in Nat /\ row.completedAt \in Nat
BY DEF CharacterQuest

LEMMA CallTyped ==
    ASSUME NEW c \in Calls
    PROVE  /\ c.char \in Characters
           /\ c.op \in {"accept", "act", "turnIn", "sell"}
           /\ c.op \in {"accept", "turnIn"} => c.quest \in Quests
           /\ c.op = "act" => c.objective \in Objectives /\ c.quantity \in Nat \ {0}
           /\ c.op = "sell" => c.quantity \in Nat \ {0}
<1>1. c \in AcceptCall \cup ActCall \cup TurnInCall \cup SellCall
  BY RewardTxnAssumption
<1>2. CASE c \in AcceptCall
  BY <1>2 DEF AcceptCall
<1>3. CASE c \in ActCall
  BY <1>3 DEF ActCall
<1>4. CASE c \in TurnInCall
  BY <1>4 DEF TurnInCall
<1>5. CASE c \in SellCall
  BY <1>5 DEF SellCall
<1>6. QED
  BY <1>1, <1>2, <1>3, <1>4, <1>5

LEMMA NoCallFacts ==
    /\ NoCall.op = "none" /\ ~NoEvent.steppedOn
    /\ NoEvent \in Event \cup {NoEvent}
BY DEF NoCall, NoEvent

LEMMA AtRestFacts ==
    ASSUME NEW step \in {"idle", "done"}, NEW t, t = AtRest(step)
    PROVE  /\ t \in Txn /\ t.pc = step /\ t.call = NoCall /\ t.event = NoEvent
           /\ t.todo = {} /\ t.cand = {} /\ DOMAIN t.entities = {} /\ DOMAIN t.tracked = {}
           /\ \A o \in Requests : \A s \in StepNumbers : t.noted[o][s] = 0
           /\ Ended(t) /\ ControlOf(t) /\ ~Records(t) /\ t.call.op = "none"
<1>1. [o \in Requests |-> [s \in StepNumbers |-> 0]] \in [Requests -> [StepNumbers -> Nat]]
  OBVIOUS
<1>2. t \in Txn
  BY <1>1, EmptyTyped DEF AtRest, Txn, Steps
<1>3. /\ t.pc = step /\ t.call = NoCall /\ t.event = NoEvent
      /\ t.todo = {} /\ t.cand = {} /\ DOMAIN t.entities = {} /\ DOMAIN t.tracked = {}
      /\ \A o \in Requests : \A s \in StepNumbers : t.noted[o][s] = 0
  BY EmptyTyped DEF AtRest
<1>4. Ended(t) /\ ~Records(t) /\ t.call.op = "none"
  BY <1>3, NoCallFacts DEF Ended, Records
<1>5. ControlOf(t)
  BY <1>3, <1>4, NoCallFacts DEF ControlOf, Rewarding, Records
<1>6. QED
  BY <1>2, <1>3, <1>4, <1>5

LEMMA AtRestFits ==
    ASSUME NEW r, NEW t, t = AtRest("done"), NEW rows, NEW units, NEW locks
    PROVE  MayAccept(t, rows) /\ RowsFit(r, t, rows, units, locks)
BY AtRestFacts DEF MayAccept, RowsFit

(* A day of the model has its counter.                                       *)
LEMMA TodayCounted ==
    ASSUME clock \in 0 .. MaxClock
    PROVE  Today \in Counters /\ Today # Goods /\ Goods \in Counters /\ Experience \in Counters
<1>1. DayLength \in Nat \ {0} /\ MaxClock \in Nat /\ clock \in Nat /\ clock <= MaxClock
  BY RewardTxnAssumption
<1>2. clock \div DayLength \in 0 .. MaxClock \div DayLength
  BY <1>1
<1>3. QED
  BY <1>2 DEF Today, GrantedOn, Counters, Goods, Experience

LEMMA BudgetTyped ==
    ASSUME NEW n \in Nat, NEW granted \in Nat
    PROVE  Granted(n, granted) \in Nat /\ Affordable(n, granted) \in Nat
<1>1. DailyCap \in Nat /\ UnitPrice \in Nat \ {0}
  BY BudgetAssumption
<1>2. Remaining(granted) \in Nat
  BY <1>1 DEF Remaining
<1>3. Remaining(granted) \div UnitPrice \in Nat
  BY <1>1, <1>2
<1>4. QED
  BY <1>2, <1>3 DEF Granted, Affordable, Lesser

(* A payout keeps the day within its cap, whatever is asked for; a day already *)
(* over a cap that was lowered is paid nothing more.                          *)
THEOREM PayoutWithinCap ==
    ASSUME NEW requested \in Nat, NEW granted \in Nat
    PROVE  /\ Granted(requested, granted) \in 0 .. requested
           /\ granted <= DailyCap => granted + Granted(requested, granted) <= DailyCap
           /\ granted >= DailyCap => Granted(requested, granted) = 0
<1>1. DailyCap \in Nat
  BY BudgetAssumption
<1>2. QED
  BY <1>1 DEF Granted, Remaining, Lesser

(* A faction buys no unit the day's budget does not pay for in full, and stops *)
(* short of what is offered only when one more would not fit.                 *)
THEOREM SaleWithinCap ==
    ASSUME NEW quantity \in Nat, NEW granted \in Nat, granted <= DailyCap
    PROVE  /\ Affordable(quantity, granted) \in 0 .. quantity
           /\ granted + Affordable(quantity, granted) * UnitPrice <= DailyCap
           /\ Affordable(quantity, granted) < quantity =>
                  granted + (Affordable(quantity, granted) + 1) * UnitPrice > DailyCap
<1>1. UnitPrice \in Nat \ {0} /\ DailyCap \in Nat
  BY BudgetAssumption
<1>2. PICK left \in Nat : left = DailyCap - granted
  BY <1>1
<1>3. Remaining(granted) = left
  BY <1>1, <1>2 DEF Remaining
<1>4. PICK units \in Nat : units = left \div UnitPrice
  BY <1>1
<1>5. units * UnitPrice <= left /\ left < (units + 1) * UnitPrice
  BY <1>1, <1>4
<1>6. PICK bought \in 0 .. units : bought = Affordable(quantity, granted)
  BY <1>3, <1>4 DEF Affordable, Lesser
<1>7. bought <= quantity /\ (bought < quantity => bought = units)
  BY <1>3, <1>4, <1>6 DEF Affordable, Lesser
<1>8. bought * UnitPrice <= units * UnitPrice
  <2>1. UnitPrice * bought <= UnitPrice * units
    BY <1>1, <1>6, ProductGrows
  <2> QED BY <1>1, <1>6, <2>1
<1>9. QED
  BY <1>1, <1>2, <1>5, <1>6, <1>7, <1>8

--------------------------------------------------------------------------------
(* Steps of one request                                                      *)

(* What a request r may come to, and the locks with it.                       *)
Fits(r, t, locks, cLocks) ==
    /\ t \in Txn /\ ControlOf(t) /\ MayAccept(t, quests)
    /\ RowsFit(r, t, quests, recorded, locks) /\ CountersFit(r, t, cLocks)

(* Whatever r locks or frees, the others keep theirs.                         *)
LocksKept(r) ==
    /\ charLock' \in [Characters -> Requests \cup {Nobody}]
    /\ questLock' \in [Requests -> Requests \cup {Nobody}]
    /\ counterLock' \in [Characters -> [Counters -> Requests \cup {Nobody}]]
    /\ \A s \in Requests : s # r =>
           /\ \A o \in DOMAIN txn[s].entities :
                  Records(txn[s]) /\ questLock[o] = s => questLock'[o] = s
           /\ \A c \in Characters : \A k \in Counters :
                  counterLock'[c][k] = s => counterLock[c][k] = s

LEMMA OwnKeeps ==
    ASSUME IInv, NEW r \in Requests, NEW t, Fits(r, t, questLock', counterLock'),
           txn' = [txn EXCEPT ![r] = t], UNCHANGED <<dbVars, clock>>, LocksKept(r),
           t.pc = "done" \/ r \notin DOMAIN quests
    PROVE  IInv'
<1> USE DEF IInv, LocksKept
<1>1. /\ txn \in [Requests -> Txn] /\ t \in Txn
      /\ txn' \in [Requests -> Txn] /\ txn'[r] = t
      /\ \A s \in Requests : s # r => txn'[s] = txn[s]
      /\ balance' = balance /\ ledger' = ledger /\ counters' = counters
      /\ quests' = quests /\ recorded' = recorded /\ clock' = clock
  BY DEF Shape, Fits, dbVars
<1>2. Shape'
  BY <1>1 DEF Shape
<1>3. ControlOK'
  <2>1. \A s \in Requests : ControlOf(txn'[s])
    BY <1>1 DEF ControlOK, Fits
  <2>2. QED
    BY <2>1 DEF ControlOK
<1>4. AcceptOK'
  <2>1. \A s \in Requests : MayAccept(txn'[s], quests')
    BY <1>1 DEF AcceptOK, Fits
  <2>2. QED
    BY <2>1 DEF AcceptOK
<1>5. RowsOK'
  <2>1. RowsFit(r, txn'[r], quests', recorded', questLock')
    BY <1>1 DEF Fits
  <2>2. ASSUME NEW s \in Requests, s # r
        PROVE  RowsFit(s, txn'[s], quests', recorded', questLock')
    <3>1. RowsFit(s, txn[s], quests, recorded, questLock) /\ txn'[s] = txn[s]
      BY <1>1, <2>2 DEF RowsOK
    <3>2. \A o \in DOMAIN txn[s].entities : Records(txn[s]) =>
              questLock[o] = s /\ questLock'[o] = s
      BY <2>2, <3>1 DEF RowsFit, RecordedRow
    <3>3. QED
      BY <1>1, <3>1, <3>2 DEF RowsFit, RecordedRow
  <2>3. QED
    BY <2>1, <2>2 DEF RowsOK
<1>6. CountersOK'
  <2>1. CountersFit(r, txn'[r], counterLock')
    BY <1>1 DEF Fits
  <2>2. ASSUME NEW s \in Requests, s # r PROVE CountersFit(s, txn'[s], counterLock')
    <3>1. CountersFit(s, txn[s], counterLock) /\ txn'[s] = txn[s]
      BY <1>1, <2>2 DEF CountersOK
    <3>2. QED
      BY <2>2, <3>1 DEF CountersFit
  <2>3. QED
    BY <2>1, <2>2 DEF CountersOK
<1>7. NewRowsWait'
  BY <1>1 DEF NewRowsWait
<1>8. ProgressExact' /\ PrerequisitesHeld'
  BY <1>1 DEF ProgressExact, PrerequisitesHeld, RowsOf
<1>9. QED
  BY <1>2, <1>3, <1>4, <1>5, <1>6, <1>7, <1>8

LEMMA RequestTyped ==
    ASSUME IInv, NEW r \in Requests, ~Ended(txn[r])
    PROVE  /\ txn[r] \in Txn /\ txn \in [Requests -> Txn] /\ r \notin DOMAIN quests
           /\ ControlOf(txn[r]) /\ MayAccept(txn[r], quests)
           /\ RowsFit(r, txn[r], quests, recorded, questLock)
           /\ CountersFit(r, txn[r], counterLock)
           /\ txn[r].call \in Calls /\ CharOf(r) \in Characters
           /\ txn[r].pc \in PathOf(txn[r])
           /\ txn[r].call.op \in {"accept", "act", "turnIn", "sell"}
<1>1. ControlOf(txn[r])
  BY DEF IInv, ControlOK
<1>2. txn[r].call \in Calls /\ txn[r].pc \in PathOf(txn[r])
  BY <1>1 DEF ControlOf
<1>3. CharOf(r) \in Characters /\ txn[r].call.op \in {"accept", "act", "turnIn", "sell"}
  BY <1>2, CallTyped DEF CharOf
<1>4. QED
  BY <1>1, <1>2, <1>3
  DEF IInv, Shape, AcceptOK, RowsOK, CountersOK, NewRowsWait, Ended

LEMMA LocksStay ==
    ASSUME IInv, NEW r \in Requests, UNCHANGED lockVars
    PROVE  LocksKept(r)
BY DEF IInv, Shape, LocksKept, lockVars

LEMMA CharacterTaken ==
    ASSUME IInv, NEW r \in Requests, CharOf(r) \in Characters, TakeCharacter(r),
           UNCHANGED <<questLock, counterLock>>
    PROVE  LocksKept(r)
BY DEF IInv, Shape, LocksKept, TakeCharacter

LEMMA QuestTaken ==
    ASSUME IInv, NEW r \in Requests, NEW o \in Requests, Free(questLock, o, r),
           questLock' = [questLock EXCEPT ![o] = r], UNCHANGED <<charLock, counterLock>>
    PROVE  /\ LocksKept(r) /\ questLock'[o] = r
           /\ \A x \in Requests : x # o => questLock'[x] = questLock[x]
<1>1. r # Nobody
  BY RewardTxnAssumption DEF Nobody
<1>2. \A s \in Requests : s # Nobody
  BY RewardTxnAssumption DEF Nobody
<1>3. QED
  BY <1>1, <1>2 DEF IInv, Shape, LocksKept, Free

LEMMA RollbackKeeps ==
    ASSUME IInv, NEW r \in Requests, Rollback(r)
    PROVE  IInv'
<1>1. PICK t : t = AtRest("done")
  OBVIOUS
<1>2. /\ txn' = [txn EXCEPT ![r] = t] /\ UNCHANGED <<dbVars, clock>>
      /\ charLock' = Released(charLock, r) /\ questLock' = Released(questLock, r)
      /\ counterLock' = [c \in Characters |-> Released(counterLock[c], r)]
  BY <1>1 DEF Rollback, EndTransaction
<1>3. \A s \in Requests : s # Nobody
  BY RewardTxnAssumption DEF Nobody
<1>4. /\ charLock' \in [Characters -> Requests \cup {Nobody}]
      /\ questLock' \in [Requests -> Requests \cup {Nobody}]
      /\ \A o \in Requests : \A s \in Requests :
             s # r /\ questLock[o] = s => questLock'[o] = s
  <2>1. /\ charLock \in [Characters -> Requests \cup {Nobody}]
        /\ questLock \in [Requests -> Requests \cup {Nobody}]
    BY DEF IInv, Shape
  <2>2. charLock' \in [Characters -> Requests \cup {Nobody}]
    BY <1>2, <2>1, ReleasedRows
  <2>3. questLock' \in [Requests -> Requests \cup {Nobody}]
    BY <1>2, <2>1, ReleasedRows
  <2>4. QED
    BY <1>2, <2>1, <2>2, <2>3 DEF Released
<1>5. /\ counterLock' \in [Characters -> [Counters -> Requests \cup {Nobody}]]
      /\ \A c \in Characters : \A k \in Counters : \A s \in Requests :
             counterLock'[c][k] = s => s # r /\ counterLock[c][k] = s
  <2>1. ASSUME NEW c \in Characters
        PROVE  /\ Released(counterLock[c], r) \in [Counters -> Requests \cup {Nobody}]
               /\ \A k \in Counters : \A s \in Requests :
                      Released(counterLock[c], r)[k] = s => s # r /\ counterLock[c][k] = s
    <3>1. counterLock[c] \in [Counters -> Requests \cup {Nobody}]
      BY DEF IInv, Shape
    <3>2. QED
      BY <1>3, <3>1, ReleasedRows
  <2>2. QED
    BY <1>2, <2>1
<1>6. LocksKept(r)
  <2>1. \A s \in Requests : DOMAIN txn[s].entities \subseteq Requests
    BY EntityTyped DEF IInv, Shape, Txn
  <2>2. QED
    BY <1>4, <1>5, <2>1 DEF LocksKept
<1>7. CountersFit(r, t, counterLock')
  BY <1>5 DEF CountersFit
<1>8. Fits(r, t, questLock', counterLock')
  BY <1>1, <1>7, AtRestFacts, AtRestFits DEF Fits
<1>9. QED
  BY <1>1, <1>2, <1>6, <1>8, AtRestFacts, OwnKeeps

(* Steps that touch no quest row.                                            *)
LEMMA SameRows ==
    ASSUME NEW r, NEW t, NEW u, NEW rows, NEW units, NEW locks,
           RowsFit(r, t, rows, units, locks),
           u.call = t.call, u.entities = t.entities, u.noted = t.noted, u.due = t.due,
           u.cand \subseteq DOMAIN rows \cup DOMAIN t.entities,
           u.pc = "complete" \/ t.pc # "complete"
    PROVE  RowsFit(r, u, rows, units, locks)
<1>1. Records(u) <=> Records(t)
  BY DEF Records
<1>2. QED
  BY <1>1 DEF RowsFit, RecordedRow, TurnedIn

(* The counters a request has tracked stay tracked.                          *)
LEMMA SameCounters ==
    ASSUME NEW r, NEW t, NEW u, NEW locks, CountersFit(r, t, locks), ~Ended(u),
           u.call = t.call, DOMAIN t.tracked \subseteq DOMAIN u.tracked
    PROVE  CountersFit(r, u, locks)
BY DEF CountersFit

LEMMA SameGuard ==
    ASSUME NEW t, NEW u, NEW rows, MayAccept(t, rows), u.call = t.call,
           t.pc # "guardActive" \/ t.call.op # "accept"
    PROVE  MayAccept(u, rows)
BY DEF MayAccept

LEMMA AddingTyped ==
    ASSUME IInv, NEW r \in Requests, ~Ended(txn[r]), NEW k \in Counters, NEW amount \in Int,
           NEW sum \in Nat, sum = CounterOf(r, k).now + amount, NEW f, f = Adding(r, k, amount)
    PROVE  f \in Tracked /\ DOMAIN f = DOMAIN txn[r].tracked \cup {k}
<1>1. txn[r] \in Txn /\ CharOf(r) \in Characters
  BY RequestTyped
<1>2. IsPartialFn(txn[r].tracked, Counters, Counter)
  BY <1>1, TrackedTyped DEF Txn
<1>3. PICK v : v = CounterOf(r, k)
  OBVIOUS
<1>4. v \in Counter
  BY <1>1, <1>2, <1>3 DEF CounterOf, IsPartialFn, Counter, IInv, Shape
<1>5. PICK w : w = [v EXCEPT !.now = @ + amount]
  OBVIOUS
<1>6. w \in Counter
  BY <1>3, <1>4, <1>5 DEF Counter
<1>7. PICK g : g = txn[r].tracked
  OBVIOUS
<1>8. f = Put(g, k, w) /\ IsPartialFn(g, Counters, Counter)
  BY <1>2, <1>3, <1>5, <1>7 DEF Adding
<1>9. IsPartialFn(Put(g, k, w), Counters, Counter) /\ DOMAIN Put(g, k, w) = DOMAIN g \cup {k}
  BY <1>6, <1>8 DEF IsPartialFn, Put
<1>10. QED
  BY <1>7, <1>8, <1>9, TrackedTyped

LEMMA CounterTyped ==
    ASSUME IInv, NEW r \in Requests, ~Ended(txn[r]), NEW k \in Counters
    PROVE  CounterOf(r, k).now \in Nat /\ counters[CharOf(r)][k] \in Nat
<1>1. txn[r] \in Txn /\ CharOf(r) \in Characters
  BY RequestTyped
<1>2. IsPartialFn(txn[r].tracked, Counters, Counter)
  BY <1>1, TrackedTyped DEF Txn
<1>3. QED
  BY <1>1, <1>2 DEF CounterOf, IsPartialFn, Counter, IInv, Shape

--------------------------------------------------------------------------------
(* Where a request begins, and what touches no quest row                     *)

LEMMA ResolveKeeps ==
    ASSUME IInv, NEW r \in Requests, NEW c \in Calls, Resolve(r, c)
    PROVE  IInv'
<1> DEFINE event == IF c.op = "act" THEN [objective |-> c.objective, quantity |-> c.quantity,
                                          steppedOn |-> FALSE]
                    ELSE NoEvent
           step == CASE c.op = "accept" -> "guardActive"
                     [] c.op = "act" /\ c.objective \in GatherObjectives -> "lockCharacter"
                     [] c.op = "act" /\ c.objective \notin GatherObjectives -> "scan"
                     [] c.op = "turnIn" -> "findReady"
                     [] c.op = "sell" -> "readBudget"
<1>1. txn[r] = AtRest("idle") /\ txn \in [Requests -> Txn] /\ r \notin DOMAIN quests
  BY DEF Resolve, IInv, Shape, ControlOK, ControlOf, Ended, NewRowsWait
<1>2. /\ c.char \in Characters /\ c.op \in {"accept", "act", "turnIn", "sell"}
      /\ c.op = "act" => event \in Event /\ ~event.steppedOn
      /\ c.op # "act" => event = NoEvent
  BY CallTyped DEF Event
<1>3. /\ c.op = "accept" => step = "guardActive"
      /\ c.op = "act" => step \in {"lockCharacter", "scan"}
      /\ c.op = "turnIn" => step = "findReady"
      /\ c.op = "sell" => step = "readBudget"
  OBVIOUS
<1>4. PICK t : t = [txn[r] EXCEPT !.call = c, !.seenBalance = balance[c.char],
                                  !.event = event, !.pc = step]
  OBVIOUS
<1>5. /\ txn' = [txn EXCEPT ![r].call = c, ![r].seenBalance = balance[c.char],
                            ![r].event = event, ![r].pc = step]
      /\ UNCHANGED <<dbVars, clock, lockVars>>
  BY DEF Resolve
<1>6. PICK u : u = txn[r]
  OBVIOUS
<1>7. /\ u \in Txn /\ u.todo = {} /\ DOMAIN u.entities = {} /\ DOMAIN u.tracked = {}
      /\ u.cand = {}
      /\ \A o \in Requests : \A s \in StepNumbers : u.noted[o][s] = 0
      /\ Ended(u)
  BY <1>1, <1>6, AtRestFacts
<1>8. event \in Event \cup {NoEvent} /\ ~event.steppedOn /\ step \in Steps
  BY <1>2, <1>3, NoCallFacts DEF Steps
<1>9. HIDE DEF event, step
<1>10. balance[c.char] \in Int /\ txn' = [txn EXCEPT ![r] = t]
  BY <1>1, <1>2, <1>4, <1>5 DEF IInv, Shape
<1>11. /\ t \in Txn /\ t.call = c /\ t.event = event /\ t.pc = step /\ t.todo = {}
       /\ DOMAIN t.entities = {} /\ DOMAIN t.tracked = {} /\ t.noted = u.noted
       /\ t.cand = {}
  BY <1>4, <1>6, <1>7, <1>8, <1>10 DEF Txn
<1>12. ~Ended(t) /\ t.pc \in PathOf(t) /\ t.pc \notin Rewarding /\ t.pc # "takeGoods"
  BY <1>2, <1>3, <1>11 DEF Ended, PathOf, Rewarding
<1>13. ControlOf(t)
  <2>1. Records(t) /\ t.pc \in {"lockCharacter", "scan", "record"} \cup Rewarding =>
            t.event \in Event
    BY <1>2, <1>3, <1>11, <1>12 DEF Records
  <2>2. QED
    BY <1>8, <1>11, <1>12, <2>1 DEF ControlOf
<1>14. MayAccept(t, quests)
  BY <1>3, <1>11 DEF MayAccept
<1>15. RowsFit(r, t, quests, recorded, questLock)
  BY <1>7, <1>11 DEF RowsFit
<1>16. CountersFit(r, t, counterLock)
  BY <1>6, <1>7 DEF CountersFit, IInv, CountersOK
<1>17. QED
  BY <1>1, <1>5, <1>10, <1>11, <1>13, <1>14, <1>15, <1>16, LocksStay, OwnKeeps
  DEF Fits, lockVars

LEMMA GuardActiveKeeps ==
    ASSUME IInv, NEW r \in Requests, GuardActive(r)
    PROVE  IInv'
<1>1. ~Ended(txn[r]) /\ txn[r].pc = "guardActive"
  BY DEF GuardActive, Ended
<1>2. PICK u : u = txn[r]
  OBVIOUS
<1>3. /\ u \in Txn /\ ControlOf(u) /\ RowsFit(r, u, quests, recorded, questLock)
      /\ CountersFit(r, u, counterLock) /\ txn \in [Requests -> Txn] /\ r \notin DOMAIN quests
      /\ u.call \in Calls /\ u.pc \in PathOf(u)
      /\ u.call.op \in {"accept", "act", "turnIn", "sell"}
  BY <1>1, <1>2, RequestTyped
<1>4. u.call.op = "accept"
  BY <1>1, <1>2, <1>3 DEF PathOf, Rewarding
<1>5. PICK t : t = [u EXCEPT !.pc = "guardRepeat"]
  OBVIOUS
<1>6. txn' = [txn EXCEPT ![r] = t] /\ UNCHANGED <<dbVars, clock, lockVars>>
  BY <1>2, <1>3, <1>5 DEF GuardActive
<1>7. /\ t \in Txn /\ t.pc = "guardRepeat" /\ t.call = u.call /\ t.entities = u.entities
      /\ t.tracked = u.tracked /\ t.noted = u.noted /\ t.due = u.due /\ t.todo = u.todo
      /\ t.event = u.event /\ t.cand = u.cand
  BY <1>3, <1>5 DEF Txn, Steps
<1>8. t.cand \subseteq DOMAIN quests \cup DOMAIN u.entities
  BY <1>3, <1>7 DEF RowsFit
<1>9. ~Ended(t)
  BY <1>7 DEF Ended
<1>10. ControlOf(t)
  BY <1>1, <1>2, <1>3, <1>4, <1>7, <1>9 DEF ControlOf, PathOf, Rewarding, Records
<1>11. MayAccept(t, quests)
  BY <1>2, <1>4, <1>7
  DEF MayAccept, HasDone, GuardActive, PrerequisiteDone, RowsOf, QuestOf, CharOf
<1>12. RowsFit(r, t, quests, recorded, questLock) /\ CountersFit(r, t, counterLock)
  BY <1>1, <1>2, <1>3, <1>7, <1>8, <1>9, SameRows, SameCounters
<1>13. QED
  BY <1>3, <1>6, <1>7, <1>10, <1>11, <1>12, LocksStay, OwnKeeps DEF Fits, lockVars

(* A step of r to `step` that keeps its rows; what else it changes is said by *)
(* its EXCEPT.                                                               *)
Onward(r, t) ==
    /\ t \in Txn /\ t.call = txn[r].call /\ t.entities = txn[r].entities
    /\ t.noted = txn[r].noted /\ t.due = txn[r].due
    /\ t.todo = txn[r].todo /\ t.event = txn[r].event
    /\ t.cand = txn[r].cand \/ t.cand \subseteq DOMAIN quests \cup DOMAIN txn[r].entities
    /\ DOMAIN txn[r].tracked \subseteq DOMAIN t.tracked

LEMMA OnwardKeeps ==
    ASSUME IInv, NEW r \in Requests, ~Ended(txn[r]), NEW t, Onward(r, t),
           txn' = [txn EXCEPT ![r] = t], UNCHANGED <<dbVars, clock, questLock, counterLock>>,
           LocksKept(r), t.pc \in PathOf(t), ~Ended(t), txn[r].pc # "complete",
           t.pc \notin {"guardActive", "guardRepeat", "lockCharacter", "findReady", "readBudget"},
           txn[r].pc # "guardActive",
           t.pc = "takeGoods" => Goods \notin DOMAIN t.tracked,
           Records(txn[r]) => txn[r].event \in Event,
           t.pc \in Rewarding => txn[r].pc \in Rewarding
    PROVE  IInv'
<1>1. PICK u : u = txn[r]
  OBVIOUS
<1>2. /\ u \in Txn /\ ControlOf(u) /\ RowsFit(r, u, quests, recorded, questLock)
      /\ CountersFit(r, u, counterLock) /\ r \notin DOMAIN quests /\ MayAccept(u, quests)
      /\ u.call \in Calls
  BY <1>1, RequestTyped
<1>3. /\ t \in Txn /\ t.call = u.call /\ t.entities = u.entities /\ t.noted = u.noted
      /\ t.due = u.due /\ t.todo = u.todo /\ t.event = u.event
      /\ DOMAIN u.tracked \subseteq DOMAIN t.tracked
      /\ t.cand = u.cand \/ t.cand \subseteq DOMAIN quests \cup DOMAIN u.entities
  BY <1>1 DEF Onward
<1>4. Records(t) <=> Records(u)
  BY <1>3 DEF Records
<1>5. ControlOf(t)
  BY <1>1, <1>2, <1>3, <1>4 DEF ControlOf
<1>6. MayAccept(t, quests)
  BY <1>1, <1>2, <1>3, SameGuard
<1>7. t.cand \subseteq DOMAIN quests \cup DOMAIN u.entities
  BY <1>2, <1>3 DEF RowsFit
<1>8. RowsFit(r, t, quests, recorded, questLock)
  BY <1>1, <1>2, <1>3, <1>7, SameRows
<1>9. CountersFit(r, t, counterLock)
  BY <1>2, <1>3, SameCounters
<1>10. QED
  BY <1>2, <1>3, <1>5, <1>6, <1>8, <1>9, OwnKeeps DEF Fits

LEMMA LockCharacterKeeps ==
    ASSUME IInv, NEW r \in Requests, LockCharacter(r)
    PROVE  IInv'
<1>1. ~Ended(txn[r]) /\ txn[r].pc = "lockCharacter"
  BY DEF LockCharacter, Ended
<1>2. /\ txn[r] \in Txn /\ txn \in [Requests -> Txn] /\ ControlOf(txn[r])
      /\ CharOf(r) \in Characters /\ txn[r].pc \in PathOf(txn[r])
      /\ txn[r].call.op \in {"accept", "act", "turnIn", "sell"}
  BY <1>1, RequestTyped
<1>3. txn[r].call.op = "act" /\ txn[r].event \in Event
  BY <1>1, <1>2 DEF PathOf, Rewarding, ControlOf, Records
<1>4. PICK t : t = [txn[r] EXCEPT !.pc = "scan"]
  OBVIOUS
<1>5. txn' = [txn EXCEPT ![r] = t] /\ UNCHANGED <<dbVars, clock, questLock, counterLock>>
  BY <1>2, <1>4 DEF LockCharacter
<1>6. Onward(r, t) /\ t.pc = "scan"
  BY <1>2, <1>4 DEF Onward, Txn, Steps
<1>7. ~Ended(t) /\ t.pc \in PathOf(t) /\ t.pc \notin Rewarding
  BY <1>3, <1>6 DEF Onward, Ended, PathOf, Rewarding
<1>8. LocksKept(r)
  BY <1>2, CharacterTaken DEF LockCharacter
<1>9. QED
  BY <1>1, <1>3, <1>5, <1>6, <1>7, <1>8, OnwardKeeps

LEMMA ScanKeeps ==
    ASSUME IInv, NEW r \in Requests, Scan(r)
    PROVE  IInv'
<1>1. ~Ended(txn[r]) /\ txn[r].pc = "scan"
  BY DEF Scan, Ended
<1>2. /\ txn[r] \in Txn /\ txn \in [Requests -> Txn] /\ ControlOf(txn[r])
      /\ txn[r].pc \in PathOf(txn[r])
      /\ txn[r].call.op \in {"accept", "act", "turnIn", "sell"}
  BY <1>1, RequestTyped
<1>3. txn[r].call.op \in {"accept", "act"} /\ txn[r].event \in Event
  BY <1>1, <1>2 DEF PathOf, Rewarding, ControlOf, Records
<1>4. PICK cand : cand = {o \in DOMAIN quests \cup DOMAIN txn[r].entities : Active(r, o)}
  OBVIOUS
<1>5. cand \subseteq Requests
  <2>1. txn[r].entities \in Entities /\ quests \in Entities
    BY <1>2 DEF Txn, IInv, Shape
  <2>2. QED
    BY <1>4, <2>1, EntityTyped
<1>6. PICK t : t = [txn[r] EXCEPT !.cand = cand, !.pc = "record"]
  OBVIOUS
<1>7. txn' = [txn EXCEPT ![r] = t] /\ UNCHANGED <<dbVars, clock, lockVars>>
  BY <1>2, <1>4, <1>6 DEF Scan
<1>8. Onward(r, t) /\ t.pc = "record"
  BY <1>2, <1>4, <1>5, <1>6 DEF Onward, Txn, Steps
<1>9. ~Ended(t) /\ t.pc \in PathOf(t) /\ t.pc \notin Rewarding
  BY <1>3, <1>8 DEF Onward, Ended, PathOf, Rewarding
<1>10. QED
  BY <1>1, <1>3, <1>7, <1>8, <1>9, LocksStay, OnwardKeeps DEF lockVars

(* What a completed quest pays: nothing it touches is a quest row.            *)
LEMMA RewardTyped ==
    ASSUME IInv, NEW r \in Requests, txn[r].pc \in Rewarding
    PROVE  /\ ~Ended(txn[r])
           /\ txn[r].due \in DOMAIN txn[r].entities
           /\ txn[r].entities[txn[r].due] \in CharacterQuest
           /\ DefOf(r).xp \in Nat /\ DefOf(r).reward \in Nat
           /\ AfterReward(r) \in PathOf(txn[r]) /\ AfterReward(r) \in {"save", "record"}
           /\ txn[r].call.op \in {"accept", "act", "turnIn"}
           /\ Records(txn[r]) => txn[r].event \in Event
<1>1. ~Ended(txn[r])
  BY DEF Rewarding, Ended
<1>2. /\ txn[r] \in Txn /\ ControlOf(txn[r]) /\ txn[r].pc \in PathOf(txn[r])
      /\ txn[r].call.op \in {"accept", "act", "turnIn", "sell"}
  BY <1>1, RequestTyped
<1>3. txn[r].due \in DOMAIN txn[r].entities /\ txn[r].entities \in Entities
  BY <1>2 DEF ControlOf, Txn
<1>4. txn[r].entities[txn[r].due] \in CharacterQuest
  BY <1>3, EntityTyped
<1>5. DefOf(r).xp \in Nat /\ DefOf(r).reward \in Nat
  BY <1>4, RowTyped, QuestTyped DEF DefOf
<1>6. txn[r].call.op # "sell"
  BY <1>2 DEF PathOf, Rewarding
<1>7. AfterReward(r) \in PathOf(txn[r]) /\ AfterReward(r) \in {"save", "record"}
  BY <1>2, <1>6 DEF AfterReward, PathOf
<1>8. QED
  BY <1>1, <1>2, <1>3, <1>4, <1>5, <1>6, <1>7 DEF ControlOf

LEMMA GrantKeeps ==
    ASSUME IInv, NEW r \in Requests, Grant(r)
    PROVE  IInv'
<1>1. txn[r].pc = "grant" /\ txn[r].pc \in Rewarding
  BY DEF Grant, Rewarding
<1>2. /\ ~Ended(txn[r]) /\ DefOf(r).reward \in Nat
      /\ Records(txn[r]) => txn[r].event \in Event
      /\ AfterReward(r) \in PathOf(txn[r]) /\ AfterReward(r) \in {"save", "record"}
      /\ txn[r].call.op \in {"accept", "act", "turnIn"}
  BY <1>1, RewardTyped
<1>3. txn[r] \in Txn /\ txn \in [Requests -> Txn]
  BY <1>2, RequestTyped
<1>4. Today \in Counters
  BY TodayCounted DEF IInv, Shape
<1>5. GrantDue(r) \in Nat /\ CounterOf(r, Today).now \in Nat
  BY <1>2, <1>4, CounterTyped, BudgetTyped DEF GrantDue
<1>6. PICK owed : owed = GrantDue(r)
  OBVIOUS
<1>7. PICK sum : sum = CounterOf(r, Today).now + owed
  OBVIOUS
<1>8. owed \in Int /\ sum \in Nat
  BY <1>5, <1>6, <1>7
<1>9. PICK added : added = Adding(r, Today, owed)
  OBVIOUS
<1>10. added \in Tracked /\ DOMAIN added = DOMAIN txn[r].tracked \cup {Today}
  BY <1>2, <1>4, <1>7, <1>8, <1>9, AddingTyped
<1>11. PICK tracked : tracked = IF DefOf(r).sidequest THEN added ELSE txn[r].tracked
  OBVIOUS
<1>12. tracked \in Tracked /\ DOMAIN txn[r].tracked \subseteq DOMAIN tracked
  BY <1>3, <1>10, <1>11 DEF Txn
<1>13. PICK step : step = IF owed > 0 THEN "pay" ELSE AfterReward(r)
  OBVIOUS
<1>14. step \in {"pay", "save", "record"} /\ step \in PathOf(txn[r])
  BY <1>2, <1>13 DEF PathOf, Rewarding
<1>15. PICK t : t = [txn[r] EXCEPT !.owed = owed, !.tracked = tracked, !.pc = step]
  OBVIOUS
<1>16. txn' = [txn EXCEPT ![r] = t] /\ UNCHANGED <<dbVars, clock, lockVars>>
  BY <1>3, <1>6, <1>9, <1>11, <1>13, <1>15 DEF Grant
<1>17. Onward(r, t) /\ t.pc = step
  BY <1>3, <1>5, <1>6, <1>12, <1>14, <1>15 DEF Onward, Txn, Steps
<1>18. ~Ended(t) /\ t.pc \in PathOf(t)
  BY <1>14, <1>17 DEF Onward, Ended, PathOf
<1>19. QED
  BY <1>1, <1>2, <1>14, <1>16, <1>17, <1>18, LocksStay, OnwardKeeps DEF lockVars

LEMMA PayKeeps ==
    ASSUME IInv, NEW r \in Requests, Pay(r)
    PROVE  IInv'
<1>1. txn[r].pc = "pay" /\ txn[r].pc \in Rewarding
  BY DEF Pay, Rewarding
<1>2. /\ ~Ended(txn[r])
      /\ Records(txn[r]) => txn[r].event \in Event
      /\ AfterReward(r) \in PathOf(txn[r]) /\ AfterReward(r) \in {"save", "record"}
  BY <1>1, RewardTyped
<1>3. txn[r] \in Txn /\ txn \in [Requests -> Txn] /\ CharOf(r) \in Characters
  BY <1>2, RequestTyped
<1>4. PICK step : step = AfterReward(r)
  OBVIOUS
<1>5. PICK paid : paid = txn[r].paid + txn[r].owed
  OBVIOUS
<1>6. paid \in Nat
  BY <1>3, <1>5 DEF Txn
<1>7. PICK t : t = [txn[r] EXCEPT !.paid = paid, !.owed = 0, !.pc = step]
  OBVIOUS
<1>8. txn' = [txn EXCEPT ![r] = t] /\ UNCHANGED <<dbVars, clock, questLock, counterLock>>
  BY <1>3, <1>4, <1>5, <1>7 DEF Pay
<1>9. Onward(r, t) /\ t.pc = step
  BY <1>2, <1>3, <1>4, <1>6, <1>7 DEF Onward, Txn, Steps
<1>10. ~Ended(t) /\ t.pc \in PathOf(t)
  BY <1>2, <1>4, <1>9 DEF Onward, Ended, PathOf
<1>11. LocksKept(r)
  BY <1>3, CharacterTaken DEF Pay
<1>12. QED
  BY <1>1, <1>2, <1>4, <1>8, <1>9, <1>10, <1>11, OnwardKeeps

(* A sale's steps: it has no quest rows at all.                              *)
LEMMA SaleTyped ==
    ASSUME IInv, NEW r \in Requests, txn[r].pc \in {"readBudget", "takeGoods", "recordGrant"}
    PROVE  /\ ~Ended(txn[r]) /\ txn[r].call.op = "sell" /\ ~Records(txn[r])
           /\ txn[r].call.quantity \in Nat
           /\ txn[r] \in Txn /\ txn \in [Requests -> Txn]
<1>1. ~Ended(txn[r])
  BY DEF Ended
<1>2. /\ txn[r] \in Txn /\ txn \in [Requests -> Txn] /\ txn[r].pc \in PathOf(txn[r])
      /\ txn[r].call.op \in {"accept", "act", "turnIn", "sell"} /\ txn[r].call \in Calls
  BY <1>1, RequestTyped
<1>3. txn[r].call.op = "sell"
  BY <1>2 DEF PathOf, Rewarding
<1>4. QED
  BY <1>1, <1>2, <1>3, CallTyped DEF Records

LEMMA ReadBudgetKeeps ==
    ASSUME IInv, NEW r \in Requests, ReadBudget(r)
    PROVE  IInv'
<1>1. txn[r].pc = "readBudget"
  BY DEF ReadBudget
<1>2. /\ ~Ended(txn[r]) /\ txn[r].call.op = "sell" /\ ~Records(txn[r])
      /\ txn[r].call.quantity \in Nat /\ txn[r] \in Txn /\ txn \in [Requests -> Txn]
  BY <1>1, SaleTyped
<1>3. Today \in Counters /\ Today # Goods
  BY TodayCounted DEF IInv, Shape
<1>4. /\ CounterOf(r, Today).now \in Nat /\ counters[CharOf(r)][Today] \in Nat
      /\ DOMAIN txn[r].tracked = {}
  BY <1>1, <1>2, <1>3, CounterTyped, RequestTyped DEF ControlOf
<1>5. UnitPrice \in Nat
  BY BudgetAssumption
<1>6. PICK units : units = UnitsPaidFor(r)
  OBVIOUS
<1>7. units \in Nat
  BY <1>2, <1>4, <1>6, BudgetTyped DEF UnitsPaidFor
<1>8. PICK owed : owed = units * UnitPrice
  OBVIOUS
<1>9. owed \in Nat
  BY <1>5, <1>7, <1>8, ProductNat
<1>10. PICK added : added = Adding(r, Today, 0)
  OBVIOUS
<1>11. PICK sum : sum = CounterOf(r, Today).now + 0
  OBVIOUS
<1>12. sum \in Nat /\ 0 \in Int
  BY <1>4, <1>11
<1>13. added \in Tracked /\ DOMAIN added = DOMAIN txn[r].tracked \cup {Today}
  BY <1>2, <1>3, <1>10, <1>11, <1>12, AddingTyped
<1>14. added \in Tracked /\ DOMAIN added = {Today}
  BY <1>4, <1>13
<1>15. PICK tracked : tracked = IF counters[CharOf(r)][Today] > 0 THEN added ELSE txn[r].tracked
  OBVIOUS
<1>16. tracked \in Tracked /\ Goods \notin DOMAIN tracked
  BY <1>2, <1>3, <1>4, <1>14, <1>15 DEF Txn
<1>17. PICK t : t = [txn[r] EXCEPT !.owed = owed, !.tracked = tracked, !.pc = "takeGoods"]
  OBVIOUS
<1>18. txn' = [txn EXCEPT ![r] = t] /\ UNCHANGED <<dbVars, clock, lockVars>>
  BY <1>2, <1>6, <1>8, <1>10, <1>15, <1>17 DEF ReadBudget
<1>19. Onward(r, t) /\ t.pc = "takeGoods" /\ t.tracked = tracked
  BY <1>2, <1>4, <1>9, <1>16, <1>17 DEF Onward, Txn, Steps
<1>20. ~Ended(t) /\ t.pc \in PathOf(t) /\ t.pc \notin Rewarding
  BY <1>2, <1>19 DEF Onward, Ended, PathOf, Rewarding
<1>21. QED
  BY <1>1, <1>2, <1>16, <1>18, <1>19, <1>20, LocksStay, OnwardKeeps DEF lockVars

LEMMA TakeGoodsKeeps ==
    ASSUME IInv, NEW r \in Requests, TakeGoods(r)
    PROVE  IInv'
<1>1. txn[r].pc = "takeGoods"
  BY DEF TakeGoods
<1>2. /\ ~Ended(txn[r]) /\ txn[r].call.op = "sell" /\ ~Records(txn[r])
      /\ txn[r] \in Txn /\ txn \in [Requests -> Txn]
  BY <1>1, SaleTyped
<1>3. Goods \in Counters
  BY TodayCounted DEF IInv, Shape
<1>4. Goods \notin DOMAIN txn[r].tracked
  BY <1>1, <1>2, RequestTyped DEF ControlOf
<1>5. UnitsSold(r) \in Nat
  <2>1. PICK owed : owed = txn[r].owed
    OBVIOUS
  <2>2. owed \in Nat /\ UnitPrice \in Nat \ {0}
    BY <1>2, <2>1, BudgetAssumption DEF Txn
  <2>3. owed \div UnitPrice \in Nat
    BY <2>2
  <2>4. QED
    BY <2>1, <2>3 DEF UnitsSold
<1>6. PICK amount : amount = -UnitsSold(r)
  OBVIOUS
<1>7. PICK sum : sum = CounterOf(r, Goods).now + amount
  OBVIOUS
<1>8. amount \in Int /\ sum \in Nat
  BY <1>2, <1>3, <1>4, <1>5, <1>6, <1>7, CounterTyped DEF CounterOf, TakeGoods, HasGoods
<1>9. PICK tracked : tracked = Adding(r, Goods, amount)
  OBVIOUS
<1>10. tracked \in Tracked /\ DOMAIN txn[r].tracked \subseteq DOMAIN tracked
  <2>1. tracked \in Tracked /\ DOMAIN tracked = DOMAIN txn[r].tracked \cup {Goods}
    BY <1>2, <1>3, <1>7, <1>8, <1>9, AddingTyped
  <2>2. QED
    BY <2>1
<1>11. PICK t : t = [txn[r] EXCEPT !.tracked = tracked, !.pc = "recordGrant"]
  OBVIOUS
<1>12. txn' = [txn EXCEPT ![r] = t] /\ UNCHANGED <<dbVars, clock, lockVars>>
  BY <1>2, <1>6, <1>9, <1>11 DEF TakeGoods
<1>13. Onward(r, t) /\ t.pc = "recordGrant"
  BY <1>2, <1>10, <1>11 DEF Onward, Txn, Steps
<1>14. ~Ended(t) /\ t.pc \in PathOf(t) /\ t.pc \notin Rewarding
  BY <1>2, <1>13 DEF Onward, Ended, PathOf, Rewarding
<1>15. QED
  BY <1>1, <1>2, <1>12, <1>13, <1>14, LocksStay, OnwardKeeps DEF lockVars

LEMMA RecordGrantKeeps ==
    ASSUME IInv, NEW r \in Requests, RecordGrant(r)
    PROVE  IInv'
<1>1. txn[r].pc = "recordGrant"
  BY DEF RecordGrant
<1>2. /\ ~Ended(txn[r]) /\ txn[r].call.op = "sell" /\ ~Records(txn[r])
      /\ txn[r] \in Txn /\ txn \in [Requests -> Txn]
  BY <1>1, SaleTyped
<1>3. Today \in Counters
  BY TodayCounted DEF IInv, Shape
<1>4. PICK owed : owed = txn[r].owed
  OBVIOUS
<1>5. PICK sum : sum = CounterOf(r, Today).now + owed
  OBVIOUS
<1>6. owed \in Nat /\ owed \in Int /\ sum \in Nat
  BY <1>2, <1>3, <1>4, <1>5, CounterTyped DEF Txn
<1>7. PICK tracked : tracked = Adding(r, Today, owed)
  OBVIOUS
<1>8. tracked \in Tracked /\ DOMAIN txn[r].tracked \subseteq DOMAIN tracked
  <2>1. tracked \in Tracked /\ DOMAIN tracked = DOMAIN txn[r].tracked \cup {Today}
    BY <1>2, <1>3, <1>5, <1>6, <1>7, AddingTyped
  <2>2. QED
    BY <2>1
<1>9. PICK t : t = [txn[r] EXCEPT !.tracked = tracked, !.paid = owed, !.owed = 0, !.pc = "save"]
  OBVIOUS
<1>10. txn' = [txn EXCEPT ![r] = t] /\ UNCHANGED <<dbVars, clock, lockVars>>
  BY <1>2, <1>4, <1>7, <1>9 DEF RecordGrant
<1>11. Onward(r, t) /\ t.pc = "save"
  BY <1>2, <1>6, <1>8, <1>9 DEF Onward, Txn, Steps
<1>12. ~Ended(t) /\ t.pc \in PathOf(t) /\ t.pc \notin Rewarding
  BY <1>2, <1>11 DEF Onward, Ended, PathOf, Rewarding
<1>13. QED
  BY <1>1, <1>2, <1>10, <1>11, <1>12, LocksStay, OnwardKeeps DEF lockVars

--------------------------------------------------------------------------------
(* SaveChanges, row by row                                                   *)

(* A request that only takes a lock.                                         *)
LEMMA LockingKeeps ==
    ASSUME IInv, NEW r \in Requests, ~Ended(txn[r]), UNCHANGED <<dbVars, clock, txn>>,
           LocksKept(r),
           \A o \in Requests : questLock[o] = r => questLock'[o] = r,
           CountersFit(r, txn[r], counterLock')
    PROVE  IInv'
<1>1. PICK t : t = txn[r]
  OBVIOUS
<1>2. /\ t \in Txn /\ txn \in [Requests -> Txn] /\ r \notin DOMAIN quests
      /\ ControlOf(t) /\ MayAccept(t, quests) /\ RowsFit(r, t, quests, recorded, questLock)
  BY <1>1, RequestTyped
<1>3. txn' = [txn EXCEPT ![r] = t]
  BY <1>1, <1>2
<1>4. RowsFit(r, t, quests, recorded, questLock')
  <2>1. DOMAIN t.entities \subseteq Requests
    BY <1>2, EntityTyped DEF Txn
  <2>2. QED
    BY <1>2, <2>1 DEF RowsFit, RecordedRow
<1>5. QED
  BY <1>1, <1>2, <1>3, <1>4, OwnKeeps DEF Fits

LEMMA SavingTyped ==
    ASSUME IInv, NEW r \in Requests, Saving(r)
    PROVE  ~Ended(txn[r]) /\ CountersFit(r, txn[r], counterLock) /\ CharOf(r) \in Characters
<1>1. ~Ended(txn[r])
  BY DEF Saving, Ended
<1>2. QED
  BY <1>1, RequestTyped

LEMMA SaveQuestKeeps ==
    ASSUME IInv, NEW r \in Requests, NEW o \in Requests, SaveQuest(r, o)
    PROVE  IInv'
<1>1. Free(questLock, o, r) /\ Saving(r)
  BY DEF SaveQuest, Free
<1>2. LocksKept(r) /\ questLock'[o] = r /\ \A x \in Requests : x # o => questLock'[x] = questLock[x]
  BY <1>1, QuestTaken DEF SaveQuest
<1>3. QED
  BY <1>1, <1>2, SavingTyped, LockingKeeps DEF SaveQuest

LEMMA SaveBalanceKeeps ==
    ASSUME IInv, NEW r \in Requests, SaveBalance(r)
    PROVE  IInv'
BY SavingTyped, CharacterTaken, LockingKeeps DEF SaveBalance

LEMMA SaveCounterKeeps ==
    ASSUME IInv, NEW r \in Requests, NEW k \in Counters, SaveCounter(r, k)
    PROVE  IInv'
<1>1. /\ Saving(r) /\ k \in DOMAIN txn[r].tracked
      /\ counterLock[CharOf(r)][k] = Nobody
      /\ counterLock' = [counterLock EXCEPT ![CharOf(r)][k] = r]
      /\ UNCHANGED <<dbVars, clock, charLock, questLock, txn>>
  BY DEF SaveCounter, CanSave, UnsavedCounters
<1>2. /\ ~Ended(txn[r]) /\ CountersFit(r, txn[r], counterLock)
      /\ CharOf(r) \in Characters
  BY <1>1, SavingTyped
<1>3. /\ counterLock \in [Characters -> [Counters -> Requests \cup {Nobody}]]
      /\ counterLock' \in [Characters -> [Counters -> Requests \cup {Nobody}]]
      /\ \A c \in Characters : \A j \in Counters :
             counterLock'[c][j] = counterLock[c][j]
             \/ (c = CharOf(r) /\ j = k /\ counterLock'[c][j] = r)
  BY <1>1, <1>2 DEF IInv, Shape
<1>4. LocksKept(r)
  BY <1>1, <1>3 DEF LocksKept, IInv, Shape
<1>5. CountersFit(r, txn[r], counterLock')
  BY <1>1, <1>2, <1>3 DEF CountersFit, CharOf
<1>6. QED
  BY <1>1, <1>2, <1>4, <1>5, LockingKeeps

LEMMA DockTyped ==
    ASSUME NEW c \in Characters, Docked[c] # Nowhere
    PROVE  DockEvent(c) \in Event /\ ~DockEvent(c).steppedOn
BY RewardTxnAssumption DEF DockEvent, Event

LEMMA CountWhereDockedKeeps ==
    ASSUME IInv, NEW r \in Requests, CountWhereDocked(r)
    PROVE  IInv'
<1>1. Saving(r) /\ txn[r].event.steppedOn /\ Docked[CharOf(r)] # Nowhere
  BY DEF CountWhereDocked, Saved, CountsDock
<1>2. ~Ended(txn[r]) /\ CharOf(r) \in Characters /\ txn[r].pc \in {"save", "record"}
  BY <1>1, SavingTyped DEF Saving
<1>3. PICK u : u = txn[r]
  OBVIOUS
<1>4. /\ u \in Txn /\ txn \in [Requests -> Txn] /\ r \notin DOMAIN quests
      /\ ControlOf(u) /\ MayAccept(u, quests) /\ RowsFit(r, u, quests, recorded, questLock)
      /\ CountersFit(r, u, counterLock) /\ u.call \in Calls
  BY <1>2, <1>3, RequestTyped
<1>5. u.call.op \in {"accept", "act"}
  BY <1>1, <1>3, <1>4 DEF ControlOf, Records
<1>6. PICK event : event = DockEvent(CharOf(r))
  OBVIOUS
<1>7. event \in Event /\ ~event.steppedOn
  BY <1>1, <1>2, <1>6, DockTyped
<1>8. PICK t : t = [u EXCEPT !.event = event, !.pc = "scan"]
  OBVIOUS
<1>9. txn' = [txn EXCEPT ![r] = t] /\ UNCHANGED <<dbVars, clock, lockVars>>
  BY <1>3, <1>4, <1>6, <1>8 DEF CountWhereDocked
<1>10. /\ t \in Txn /\ t.pc = "scan" /\ t.call = u.call /\ t.entities = u.entities
       /\ t.tracked = u.tracked /\ t.noted = u.noted /\ t.due = u.due /\ t.todo = u.todo
       /\ t.event = event /\ t.cand = u.cand
  BY <1>4, <1>7, <1>8 DEF Txn, Steps
<1>11. ~Ended(t) /\ t.pc \in PathOf(t) /\ t.pc \notin Rewarding
  BY <1>5, <1>10 DEF Ended, PathOf, Rewarding
<1>12. ControlOf(t)
  BY <1>4, <1>5, <1>7, <1>10, <1>11 DEF ControlOf, Records
<1>13. MayAccept(t, quests)
  BY <1>2, <1>3, <1>4, <1>10, SameGuard
<1>14. RowsFit(r, t, quests, recorded, questLock)
  <2>1. t.cand \subseteq DOMAIN quests \cup DOMAIN u.entities
    BY <1>4, <1>10 DEF RowsFit
  <2>2. QED
    BY <1>2, <1>3, <1>4, <1>10, <2>1, SameRows
<1>15. CountersFit(r, t, counterLock)
  BY <1>4, <1>10, <1>11, SameCounters
<1>16. QED
  BY <1>4, <1>9, <1>10, <1>12, <1>13, <1>14, <1>15, LocksStay, OwnKeeps DEF Fits, lockVars

--------------------------------------------------------------------------------
(* Quest rows                                                                *)

LEMMA InsertQuestKeeps ==
    ASSUME IInv, NEW r \in Requests, InsertQuest(r)
    PROVE  IInv'
<1>1. ~Ended(txn[r]) /\ txn[r].pc = "guardRepeat"
  BY DEF InsertQuest, Ended
<1>2. PICK u : u = txn[r]
  OBVIOUS
<1>3. /\ u \in Txn /\ txn \in [Requests -> Txn] /\ r \notin DOMAIN quests
      /\ ControlOf(u) /\ MayAccept(u, quests) /\ RowsFit(r, u, quests, recorded, questLock)
      /\ CountersFit(r, u, counterLock) /\ u.call \in Calls /\ CharOf(r) \in Characters
      /\ u.pc \in PathOf(u) /\ u.call.op \in {"accept", "act", "turnIn", "sell"}
  BY <1>1, <1>2, RequestTyped
<1>4. u.call.op = "accept"
  BY <1>1, <1>2, <1>3 DEF PathOf, Rewarding
<1>5. /\ DOMAIN u.entities = {} /\ u.todo = {} /\ ~Records([call |-> NoCall])
      /\ \A o \in Requests : \A s \in StepNumbers : u.noted[o][s] = 0
  BY <1>1, <1>2, <1>3, NoCallFacts DEF ControlOf, RowsFit, Records
<1>6. PICK row : row = NewRow(r)
  OBVIOUS
<1>7. /\ row \in CharacterQuest
      /\ row.char = u.call.char /\ row.quest = u.call.quest /\ row.state = "InProgress"
      /\ row.step = 1 /\ row.progress = 0
  <2>1. u.call.quest \in Quests
    BY <1>3, <1>4, CallTyped
  <2>2. QED
    BY <1>2, <1>3, <1>6, <2>1 DEF NewRow, CharOf, QuestOf, CharacterQuest, QuestStates
<1>8. PICK entities : entities = Put(u.entities, r, row)
  OBVIOUS
<1>9. entities \in Entities /\ DOMAIN entities = {r} /\ entities[r] = row
  <2>1. PICK e \in Entities : e = u.entities
    BY <1>3 DEF Txn
  <2>2. entities \in Entities /\ DOMAIN entities = DOMAIN e \cup {r} /\ entities[r] = row
    BY <1>7, <1>8, <2>1, PutEntity
  <2>3. QED
    BY <1>5, <2>1, <2>2
<1>10. PICK docked \in BOOLEAN : docked = (Docked[CharOf(r)] # Nowhere)
  OBVIOUS
<1>11. PICK event : event = IF docked THEN DockEvent(CharOf(r)) ELSE u.event
  OBVIOUS
<1>12. PICK step : step = IF docked THEN "scan" ELSE "save"
  OBVIOUS
<1>13. /\ event \in Event \cup {NoEvent}
       /\ step = "scan" => event \in Event
       /\ step \in {"scan", "save"}
  <2>1. u.event \in Event \cup {NoEvent}
    BY <1>3 DEF Txn
  <2>2. docked => DockEvent(CharOf(r)) \in Event
    BY <1>3, <1>10, DockTyped
  <2>3. QED
    BY <1>11, <1>12, <2>1, <2>2
<1>14. PICK t : t = [u EXCEPT !.entities = entities, !.event = event, !.pc = step]
  OBVIOUS
<1>15. txn' = [txn EXCEPT ![r] = t]
  BY <1>2, <1>3, <1>6, <1>8, <1>10, <1>11, <1>12, <1>14 DEF InsertQuest
<1>16. /\ t \in Txn /\ t.pc = step /\ t.call = u.call /\ t.entities = entities
       /\ t.tracked = u.tracked /\ t.noted = u.noted /\ t.todo = u.todo /\ t.event = event
       /\ t.cand = u.cand
  BY <1>3, <1>9, <1>13, <1>14 DEF Txn, Steps
<1>17. /\ ~Ended(t) /\ t.pc \in PathOf(t) /\ t.pc \notin Rewarding /\ t.pc # "takeGoods"
       /\ Records(t)
  BY <1>4, <1>13, <1>16 DEF Ended, PathOf, Rewarding, Records
<1>18. ControlOf(t)
  BY <1>3, <1>4, <1>5, <1>13, <1>16, <1>17 DEF ControlOf
<1>19. MayAccept(t, quests)
  BY <1>1, <1>2, <1>3, <1>16, SameGuard
<1>20. LocksKept(r) /\ questLock'[r] = r
  <2>1. questLock' = [questLock EXCEPT ![r] = r] /\ UNCHANGED <<charLock, counterLock>>
    BY DEF InsertQuest
  <2>2. \A s \in Requests : s # r /\ Records(txn[s]) => r \notin DOMAIN txn[s].entities
    BY <1>3 DEF IInv, RowsOK, RowsFit, RecordedRow
  <2>3. QED
    BY <2>1, <2>2 DEF LocksKept, IInv, Shape
<1>21. IsExact(row, Sum(recorded[r], t.noted[r]))
  <2>1. PICK units : units = Sum(recorded[r], t.noted[r])
    OBVIOUS
  <2>2. \A s \in StepNumbers : units[s] = 0
    <3>1. \A s \in StepNumbers : recorded[r][s] = 0 /\ t.noted[r][s] = 0
      BY <1>3, <1>5, <1>16 DEF IInv, NewRowsWait
    <3>2. QED
      BY <2>1, <3>1 DEF Sum
  <2>3. PICK steps : steps = QuestDefs[row.quest].steps
    OBVIOUS
  <2>4. /\ DOMAIN steps = 1 .. Len(steps) /\ Len(steps) \in Nat \ {0}
        /\ DOMAIN steps \subseteq StepNumbers
        /\ steps[1].quantity \in Nat \ {0}
    <3>1. /\ DOMAIN steps = 1 .. Len(steps) /\ Len(steps) \in Nat \ {0}
          /\ DOMAIN steps \subseteq StepNumbers
          /\ \A n \in DOMAIN steps : steps[n] \in [objective: Objectives, quantity: Nat \ {0}]
      BY <1>7, <2>3, RowTyped, QuestTyped
    <3>2. QED
      BY <3>1
  <2>5. IsExact(row, units)
    BY <1>7, <2>2, <2>3, <2>4 DEF IsExact
  <2>6. QED
    BY <2>1, <2>5
<1>22. RowsFit(r, t, quests, recorded, questLock')
  <2>1. RecordedRow(r, t, r, quests, recorded, questLock')
    BY <1>3, <1>4, <1>7, <1>9, <1>16, <1>20, <1>21 DEF RecordedRow
  <2>2. t.cand \subseteq DOMAIN quests \cup DOMAIN t.entities
    BY <1>3, <1>5, <1>16 DEF RowsFit
  <2>3. QED
    BY <1>4, <1>5, <1>9, <1>16, <1>17, <2>1, <2>2 DEF RowsFit
<1>23. CountersFit(r, t, counterLock')
  BY <1>3, <1>16, <1>17, SameCounters DEF InsertQuest
<1>24. QED
  BY <1>3, <1>15, <1>16, <1>18, <1>19, <1>20, <1>22, <1>23, OwnKeeps DEF Fits, InsertQuest

(* Taking a row that is still under way: what r has of it is exact.           *)
LEMMA LockQuestKeeps ==
    ASSUME IInv, NEW r \in Requests, NEW o \in Requests, LockQuest(r, o)
    PROVE  IInv'
<1>1. /\ ~Ended(txn[r]) /\ txn[r].pc = "record" /\ o \in txn[r].cand /\ Free(questLock, o, r)
      /\ questLock' = [questLock EXCEPT ![o] = r]
      /\ UNCHANGED <<dbVars, clock, charLock, counterLock>>
  BY DEF LockQuest, CanLockQuest, Ended
<1>2. PICK u : u = txn[r]
  OBVIOUS
<1>3. /\ u \in Txn /\ txn \in [Requests -> Txn] /\ r \notin DOMAIN quests
      /\ ControlOf(u) /\ MayAccept(u, quests) /\ RowsFit(r, u, quests, recorded, questLock)
      /\ CountersFit(r, u, counterLock) /\ u.call \in Calls
      /\ u.pc \in PathOf(u) /\ u.call.op \in {"accept", "act", "turnIn", "sell"}
  BY <1>1, <1>2, RequestTyped
<1>4. Records(u)
  BY <1>1, <1>2, <1>3 DEF PathOf, Rewarding, Records
<1>5. PICK active \in BOOLEAN : active = Active(r, o)
  BY DEF Active
<1>6. PICK row : row = View(r, o)
  OBVIOUS
<1>7. /\ row \in CharacterQuest
      /\ active => row.state = "InProgress"
      /\ o \in DOMAIN u.entities => row = u.entities[o]
      /\ o \notin DOMAIN u.entities => o \in DOMAIN quests /\ row = quests[o]
  <2>1. quests \in Entities /\ u.entities \in Entities
    BY <1>3 DEF IInv, Shape, Txn
  <2>2. o \in DOMAIN quests \cup DOMAIN u.entities
    BY <1>1, <1>2, <1>3 DEF RowsFit
  <2>3. row = IF o \in DOMAIN u.entities THEN u.entities[o] ELSE quests[o]
    BY <1>2, <1>6 DEF View
  <2>4. active => row.state = "InProgress"
    BY <1>5, <1>6 DEF Active
  <2>5. row \in CharacterQuest
    <3>1. CASE o \in DOMAIN u.entities
      BY <2>1, <2>3, <3>1, EntityTyped
    <3>2. CASE o \notin DOMAIN u.entities
      BY <2>1, <2>2, <2>3, <3>2, EntityTyped
    <3>3. QED
      BY <3>1, <3>2
  <2>6. QED
    BY <2>2, <2>3, <2>4, <2>5
<1>8. PICK e \in Entities : e = u.entities
  BY <1>3 DEF Txn
<1>9. PICK entities : entities = IF active THEN Put(e, o, row) ELSE e
  OBVIOUS
<1>10. PICK todo : todo = IF active THEN u.todo \cup {o} ELSE u.todo
  OBVIOUS
<1>11. /\ entities \in Entities
       /\ active => DOMAIN entities = DOMAIN e \cup {o} /\ entities[o] = row
       /\ ~active => DOMAIN entities = DOMAIN e
       /\ \A x \in DOMAIN e : x # o \/ ~active => entities[x] = e[x]
  <2>1. active => entities = Put(e, o, row)
    BY <1>9
  <2>2. ~active => entities = e
    BY <1>9
  <2>3. /\ Put(e, o, row) \in Entities
        /\ DOMAIN Put(e, o, row) = DOMAIN e \cup {o} /\ Put(e, o, row)[o] = row
        /\ \A x \in DOMAIN e : x # o => Put(e, o, row)[x] = e[x]
    BY <1>7, PutEntity
  <2>4. CASE active
    BY <2>1, <2>3, <2>4
  <2>5. CASE ~active
    BY <2>2, <2>5
  <2>6. QED
    BY <2>4, <2>5
<1>12. todo \subseteq Requests /\ DOMAIN e \subseteq Requests
  BY <1>3, <1>8, <1>10, EntityTyped DEF Txn
<1>13. PICK cand : cand = u.cand \ {o}
  OBVIOUS
<1>14. PICK t : t = [u EXCEPT !.cand = cand, !.entities = entities, !.todo = todo]
  OBVIOUS
<1>15. txn' = [txn EXCEPT ![r] = t]
  <2>1. txn' = [txn EXCEPT ![r].cand = cand, ![r].entities = entities, ![r].todo = todo]
    BY <1>2, <1>3, <1>5, <1>6, <1>8, <1>9, <1>10, <1>13 DEF LockQuest
  <2>2. QED
    BY <1>2, <1>3, <1>14, <2>1
<1>16. /\ t \in Txn /\ t.pc = u.pc /\ t.call = u.call /\ t.entities = entities
       /\ t.tracked = u.tracked /\ t.noted = u.noted /\ t.todo = todo /\ t.event = u.event
       /\ t.cand = cand
  BY <1>3, <1>11, <1>12, <1>13, <1>14 DEF Txn
<1>17. ~Ended(t) /\ Records(t) /\ t.pc = "record" /\ t.pc \in PathOf(t)
  BY <1>1, <1>2, <1>3, <1>4, <1>16 DEF Ended, Records, PathOf
<1>18. ControlOf(t)
  <2>1. \A x \in t.todo : x \in DOMAIN t.entities /\ t.entities[x].state = "InProgress"
    BY <1>3, <1>7, <1>8, <1>10, <1>11, <1>16 DEF ControlOf
  <2>2. t.event \in Event
    BY <1>1, <1>2, <1>3, <1>4, <1>16 DEF ControlOf
  <2>3. QED
    BY <1>3, <1>4, <1>16, <1>17, <2>1, <2>2 DEF ControlOf, Records, Rewarding
<1>19. MayAccept(t, quests)
  BY <1>1, <1>2, <1>3, <1>16, SameGuard
<1>20. LocksKept(r) /\ questLock'[o] = r
       /\ \A x \in Requests : x # o => questLock'[x] = questLock[x]
  BY <1>1, QuestTaken
<1>21. \A x \in DOMAIN e : RecordedRow(r, u, x, quests, recorded, questLock)
  BY <1>3, <1>4, <1>8 DEF RowsFit
<1>22. ASSUME NEW x \in DOMAIN e PROVE RecordedRow(r, t, x, quests, recorded, questLock')
  BY <1>7, <1>8, <1>11, <1>12, <1>16, <1>20, <1>21 DEF RecordedRow
<1>23. ASSUME active, o \notin DOMAIN e
       PROVE  RecordedRow(r, t, o, quests, recorded, questLock')
  <2>1. IsExact(quests[o], recorded[o]) /\ recorded[o] \in [StepNumbers -> Nat]
    BY <1>7, <1>8, <1>23 DEF IInv, ProgressExact, Shape
  <2>2. \A s \in StepNumbers : t.noted[o][s] = 0
    BY <1>3, <1>8, <1>16, <1>23 DEF RowsFit
  <2>3. Sum(recorded[o], t.noted[o]) = recorded[o]
    BY <2>1, <2>2 DEF Sum
  <2>4. IsExact(t.entities[o], Sum(recorded[o], t.noted[o]))
    BY <1>7, <1>8, <1>11, <1>16, <1>23, <2>1, <2>3
  <2>5. row.step \in Nat
    BY <1>7, RowTyped
  <2>6. QED
    BY <1>7, <1>8, <1>11, <1>16, <1>20, <1>23, <2>4, <2>5 DEF RecordedRow, SameQuest
<1>24. RowsFit(r, t, quests, recorded, questLock')
  <2>1. \A x \in DOMAIN t.entities : RecordedRow(r, t, x, quests, recorded, questLock')
    BY <1>11, <1>16, <1>22, <1>23
  <2>2. \A x \in Requests : \A s \in StepNumbers :
            t.noted[x][s] # 0 => Records(t) /\ x \in DOMAIN t.entities
    BY <1>3, <1>8, <1>11, <1>16, <1>17 DEF RowsFit
  <2>3. t.cand \subseteq DOMAIN quests \cup DOMAIN t.entities
    BY <1>3, <1>8, <1>11, <1>13, <1>16 DEF RowsFit
  <2>4. QED
    BY <1>17, <2>1, <2>2, <2>3 DEF RowsFit, Records
<1>25. CountersFit(r, t, counterLock')
  BY <1>1, <1>3, <1>16, <1>17, SameCounters
<1>26. QED
  BY <1>1, <1>3, <1>15, <1>16, <1>18, <1>19, <1>20, <1>24, <1>25, OwnKeeps DEF Fits

(* A turn-in finds its row without locking anything.                         *)
LEMMA FindReadyKeeps ==
    ASSUME IInv, NEW r \in Requests, NEW o \in Requests, FindReady(r, o)
    PROVE  IInv'
<1>1. /\ ~Ended(txn[r]) /\ txn[r].pc = "findReady"
      /\ o \in DOMAIN quests /\ quests[o].state = "ReadyToTurnIn"
      /\ UNCHANGED <<dbVars, clock, lockVars>>
  BY DEF FindReady, RowsOf, Ended
<1>2. PICK u : u = txn[r]
  OBVIOUS
<1>3. /\ u \in Txn /\ txn \in [Requests -> Txn] /\ r \notin DOMAIN quests
      /\ ControlOf(u) /\ MayAccept(u, quests) /\ RowsFit(r, u, quests, recorded, questLock)
      /\ CountersFit(r, u, counterLock) /\ u.call \in Calls
      /\ u.pc \in PathOf(u) /\ u.call.op \in {"accept", "act", "turnIn", "sell"}
  BY <1>1, <1>2, RequestTyped
<1>4. u.call.op = "turnIn" /\ ~Records(u)
  BY <1>1, <1>2, <1>3 DEF PathOf, Rewarding, Records
<1>5. DOMAIN u.entities = {} /\ u.todo = {}
  BY <1>1, <1>2, <1>3 DEF ControlOf
<1>6. PICK row \in CharacterQuest : row = quests[o]
  BY <1>1, EntityTyped DEF IInv, Shape
<1>7. PICK e \in Entities : e = u.entities
  BY <1>3 DEF Txn
<1>8. PICK entities : entities = Put(e, o, row)
  OBVIOUS
<1>9. entities \in Entities /\ DOMAIN entities = {o} /\ entities[o] = row
  <2>1. entities \in Entities /\ DOMAIN entities = DOMAIN e \cup {o} /\ entities[o] = row
    BY <1>8, PutEntity
  <2>2. QED
    BY <1>5, <1>7, <2>1
<1>10. PICK t : t = [u EXCEPT !.entities = entities, !.due = o, !.pc = "complete"]
  OBVIOUS
<1>11. txn' = [txn EXCEPT ![r] = t]
  <2>1. txn' = [txn EXCEPT ![r].entities = entities, ![r].due = o, ![r].pc = "complete"]
    BY <1>2, <1>3, <1>6, <1>7, <1>8 DEF FindReady
  <2>2. QED
    BY <1>2, <1>3, <1>10, <2>1
<1>12. /\ t \in Txn /\ t.pc = "complete" /\ t.call = u.call /\ t.entities = entities
       /\ t.tracked = u.tracked /\ t.noted = u.noted /\ t.todo = u.todo /\ t.event = u.event
       /\ t.cand = u.cand /\ t.due = o
  BY <1>3, <1>9, <1>10 DEF Txn, Steps
<1>13. ~Ended(t) /\ ~Records(t) /\ t.pc \in PathOf(t)
  BY <1>4, <1>12 DEF Ended, Records, PathOf, Rewarding
<1>14. ControlOf(t)
  BY <1>1, <1>3, <1>4, <1>5, <1>6, <1>9, <1>12, <1>13 DEF ControlOf, Rewarding
<1>15. MayAccept(t, quests)
  BY <1>4, <1>12 DEF MayAccept
<1>16. RowsFit(r, t, quests, recorded, questLock)
  <2>1. TurnedIn(t, o, quests)
    BY <1>1, <1>6, <1>9, <1>12 DEF TurnedIn, SameQuest
  <2>2. \A x \in Requests : \A s \in StepNumbers : t.noted[x][s] = 0
    BY <1>3, <1>4, <1>12 DEF RowsFit
  <2>3. t.cand \subseteq DOMAIN quests \cup DOMAIN t.entities
    BY <1>3, <1>5, <1>12 DEF RowsFit
  <2>4. QED
    BY <1>9, <1>12, <1>13, <2>1, <2>2, <2>3 DEF RowsFit
<1>17. CountersFit(r, t, counterLock)
  BY <1>3, <1>12, <1>13, SameCounters
<1>18. QED
  BY <1>1, <1>3, <1>11, <1>12, <1>14, <1>15, <1>16, <1>17, LocksStay, OwnKeeps
  DEF Fits, lockVars

(* An event recorded on an exact row leaves it exact: short of the step's     *)
(* goal, at the next step, or with the last step done.                       *)
LEMMA AdvancedExact ==
    ASSUME NEW row \in CharacterQuest, row.state = "InProgress",
           NEW units \in [StepNumbers -> Nat], IsExact(row, units),
           NEW quantity \in Nat \ {0}, NEW new, new = Advanced(row, quantity),
           NEW more \in [StepNumbers -> Nat], more[row.step] = units[row.step] + quantity,
           \A s \in StepNumbers : s # row.step => more[s] = units[s]
    PROVE  /\ new \in CharacterQuest /\ SameQuest(new, row) /\ row.step <= new.step
           /\ new.state \in {"InProgress", "ReadyToTurnIn"} /\ IsExact(new, more)
<1>1. PICK steps : steps = QuestDefs[row.quest].steps
  OBVIOUS
<1>2. /\ row.quest \in Quests /\ row.step \in Nat \ {0} /\ row.progress \in Nat
      /\ Len(steps) \in Nat \ {0} /\ DOMAIN steps = 1 .. Len(steps)
      /\ DOMAIN steps \subseteq StepNumbers
      /\ \A n \in DOMAIN steps : steps[n].quantity \in Nat \ {0}
  <2>1. row.quest \in Quests /\ row.step \in Nat \ {0} /\ row.progress \in Nat
    BY RowTyped
  <2>2. /\ Len(steps) \in Nat \ {0} /\ DOMAIN steps = 1 .. Len(steps)
        /\ DOMAIN steps \subseteq StepNumbers
        /\ \A n \in DOMAIN steps : steps[n] \in [objective: Objectives, quantity: Nat \ {0}]
    BY <1>1, <2>1, QuestTyped
  <2>3. QED
    BY <2>1, <2>2
<1>3. /\ row.step \in DOMAIN steps
      /\ \A n \in DOMAIN steps : /\ n < row.step => units[n] >= steps[n].quantity
                                 /\ n > row.step => units[n] = 0
      /\ units[row.step] = row.progress /\ row.progress < steps[row.step].quantity
  BY <1>1 DEF IsExact
<1>4. PICK goal : goal = steps[row.step].quantity
  OBVIOUS
<1>5. PICK progress : progress = NewProgress(StepOf(row), row.progress, quantity)
  OBVIOUS
<1>6. /\ goal \in Nat \ {0} /\ progress \in Nat /\ progress <= goal
      /\ progress = row.progress + quantity \/ progress = goal
      /\ progress <= row.progress + quantity
  <2>1. StepOf(row).quantity = goal
    BY <1>1, <1>4 DEF StepOf
  <2>2. goal \in Nat \ {0}
    BY <1>2, <1>3, <1>4
  <2>3. progress = Lesser(row.progress + quantity, goal)
    BY <1>5, <2>1 DEF NewProgress
  <2>4. QED
    BY <1>2, <2>2, <2>3 DEF Lesser
<1>7. new = CASE ~(progress >= goal) -> [row EXCEPT !.progress = progress]
             [] progress >= goal /\ HasNextStep(row) ->
                    [row EXCEPT !.step = @ + 1, !.progress = 0]
             [] OTHER -> [row EXCEPT !.progress = progress, !.state = "ReadyToTurnIn"]
  <2>1. StepOf(row).quantity = goal
    BY <1>1, <1>4 DEF StepOf
  <2>2. QED
    BY <1>5, <2>1 DEF Advanced
<1>8. \A n \in DOMAIN steps : n # row.step => more[n] = units[n]
  BY <1>2
<1>9. more[row.step] = row.progress + quantity
  BY <1>3
<1>10. CASE progress < goal
  <2>1. new = [row EXCEPT !.progress = progress]
    BY <1>6, <1>7, <1>10
  <2>2. /\ new \in CharacterQuest /\ new.quest = row.quest /\ new.char = row.char
        /\ new.step = row.step /\ new.state = "InProgress" /\ new.progress = progress
    BY <1>6, <2>1 DEF CharacterQuest
  <2>3. IsExact(new, more)
    <3>1. steps = QuestDefs[new.quest].steps /\ new.step \in DOMAIN steps
      BY <1>1, <1>3, <2>2
    <3>2. ASSUME NEW n \in DOMAIN steps
          PROVE  /\ n < new.step => more[n] >= steps[n].quantity
                 /\ n > new.step => more[n] = 0
      <4>1. n \in Nat /\ row.step \in Nat /\ new.step = row.step
        BY <1>2, <2>2
      <4>2. CASE n = row.step
        BY <4>1, <4>2
      <4>3. CASE n # row.step
        <5>1. more[n] = units[n]
          BY <1>8, <4>3
        <5>2. QED
          BY <1>3, <4>1, <5>1
      <4>4. QED
        BY <4>2, <4>3
    <3>3. /\ new.state = "InProgress" =>
                 more[new.step] = new.progress /\ new.progress < steps[new.step].quantity
          /\ new.state # "InProgress" =>
                 /\ new.step = Len(steps)
                 /\ more[new.step] >= new.progress /\ new.progress = steps[new.step].quantity
      <4>1. progress = row.progress + quantity
        BY <1>6, <1>10
      <4>2. QED
        BY <1>4, <1>9, <1>10, <2>2, <4>1
    <3>4. QED
      BY <3>1, <3>2, <3>3 DEF IsExact
  <2>4. QED
    BY <1>2, <2>2, <2>3 DEF SameQuest
<1>11. CASE progress >= goal /\ HasNextStep(row)
  <2>1. new = [row EXCEPT !.step = @ + 1, !.progress = 0]
    BY <1>6, <1>7, <1>11
  <2>2. /\ new \in CharacterQuest /\ new.quest = row.quest /\ new.char = row.char
        /\ new.step = row.step + 1 /\ new.state = "InProgress" /\ new.progress = 0
    <3>1. PICK next : next = row.step + 1
      OBVIOUS
    <3>2. PICK none : none = 0
      OBVIOUS
    <3>3. next \in Nat \ {0} /\ none \in Nat
      BY <1>2, <3>1, <3>2
    <3>4. new = [row EXCEPT !.step = next, !.progress = none]
      BY <2>1, <3>1, <3>2
    <3>5. /\ new \in CharacterQuest /\ new.quest = row.quest /\ new.char = row.char
          /\ new.step = next /\ new.state = "InProgress" /\ new.progress = none
      BY <3>3, <3>4 DEF CharacterQuest
    <3>6. QED
      BY <3>1, <3>2, <3>5
  <2>3. new.step \in DOMAIN steps
    BY <1>1, <1>11, <2>2 DEF HasNextStep
  <2>4. IsExact(new, more)
    <3>1. steps = QuestDefs[new.quest].steps /\ new.step \in DOMAIN steps
      BY <1>1, <1>3, <2>2, <2>3
    <3>2. ASSUME NEW n \in DOMAIN steps
          PROVE  /\ n < new.step => more[n] >= steps[n].quantity
                 /\ n > new.step => more[n] = 0
      <4>1. n \in Nat /\ steps[n].quantity \in Nat /\ row.step \in Nat
        BY <1>2
      <4>2. QED
        BY <1>3, <1>4, <1>6, <1>8, <1>9, <1>11, <2>2, <2>3, <4>1
    <3>3. /\ new.state = "InProgress" =>
                 more[new.step] = new.progress /\ new.progress < steps[new.step].quantity
          /\ new.state # "InProgress" =>
                 /\ new.step = Len(steps)
                 /\ more[new.step] >= new.progress /\ new.progress = steps[new.step].quantity
      <4>1. new.step > row.step /\ new.step # row.step /\ new.state = "InProgress"
        BY <1>2, <2>2
      <4>2. more[new.step] = 0 /\ steps[new.step].quantity \in Nat \ {0}
        BY <1>2, <1>3, <1>8, <3>1, <4>1
      <4>3. QED
        BY <2>2, <4>1, <4>2
    <3>4. QED
      BY <3>1, <3>2, <3>3 DEF IsExact
  <2>5. QED
    BY <1>2, <2>2, <2>4 DEF SameQuest
<1>12. CASE progress >= goal /\ ~HasNextStep(row)
  <2>1. new = [row EXCEPT !.progress = progress, !.state = "ReadyToTurnIn"]
    BY <1>6, <1>7, <1>12
  <2>2. /\ new \in CharacterQuest /\ new.quest = row.quest /\ new.char = row.char
        /\ new.step = row.step /\ new.state = "ReadyToTurnIn" /\ new.progress = progress
    BY <1>6, <2>1 DEF CharacterQuest, QuestStates
  <2>3. new.step = Len(steps)
    <3>1. row.step + 1 \notin 1 .. Len(steps)
      BY <1>1, <1>2, <1>12 DEF HasNextStep
    <3>2. row.step \in 1 .. Len(steps) /\ Len(steps) \in Nat
      BY <1>2, <1>3
    <3>3. row.step = Len(steps)
      BY <3>1, <3>2
    <3>4. QED
      BY <2>2, <3>3
  <2>4. IsExact(new, more)
    <3>1. steps = QuestDefs[new.quest].steps /\ new.step \in DOMAIN steps
      BY <1>1, <1>3, <2>2, <2>3
    <3>2. ASSUME NEW n \in DOMAIN steps
          PROVE  /\ n < new.step => more[n] >= steps[n].quantity
                 /\ n > new.step => more[n] = 0
      <4>1. n \in Nat /\ row.step \in Nat /\ new.step = row.step
        BY <1>2, <2>2
      <4>2. CASE n = row.step
        BY <4>1, <4>2
      <4>3. CASE n # row.step
        <5>1. more[n] = units[n]
          BY <1>8, <4>3
        <5>2. QED
          BY <1>3, <4>1, <5>1
      <4>4. QED
        BY <4>2, <4>3
    <3>3. /\ new.state = "InProgress" =>
                 more[new.step] = new.progress /\ new.progress < steps[new.step].quantity
          /\ new.state # "InProgress" =>
                 /\ new.step = Len(steps)
                 /\ more[new.step] >= new.progress /\ new.progress = steps[new.step].quantity
      <4>1. progress = goal /\ more[row.step] >= progress
        BY <1>6, <1>9, <1>12, RowTyped
      <4>2. QED
        BY <1>4, <2>2, <2>3, <4>1
    <3>4. QED
      BY <3>1, <3>2, <3>3 DEF IsExact
  <2>5. QED
    BY <1>2, <2>2, <2>4 DEF SameQuest
<1>13. QED
  BY <1>6, <1>10, <1>11, <1>12

LEMMA ApplyEventKeeps ==
    ASSUME IInv, NEW r \in Requests, NEW o \in Requests, ApplyEvent(r, o)
    PROVE  IInv'
<1>1. /\ ~Ended(txn[r]) /\ txn[r].pc = "record" /\ o \in txn[r].todo
      /\ UNCHANGED <<dbVars, clock, lockVars>>
  BY DEF ApplyEvent, Ended
<1>2. PICK u : u = txn[r]
  OBVIOUS
<1>3. /\ u \in Txn /\ txn \in [Requests -> Txn] /\ r \notin DOMAIN quests
      /\ ControlOf(u) /\ MayAccept(u, quests) /\ RowsFit(r, u, quests, recorded, questLock)
      /\ CountersFit(r, u, counterLock) /\ u.call \in Calls
      /\ u.pc \in PathOf(u) /\ u.call.op \in {"accept", "act", "turnIn", "sell"}
  BY <1>1, <1>2, RequestTyped
<1>4. u.call.op \in {"accept", "act"} /\ Records(u) /\ u.event \in Event
  BY <1>1, <1>2, <1>3 DEF PathOf, Rewarding, Records, ControlOf
<1>5. o \in DOMAIN u.entities /\ u.entities[o].state = "InProgress"
  BY <1>1, <1>2, <1>3 DEF ControlOf
<1>6. PICK e \in Entities : e = u.entities
  BY <1>3 DEF Txn
<1>7. PICK row \in CharacterQuest : row = e[o]
  BY <1>5, <1>6, EntityTyped
<1>8. RecordedRow(r, u, o, quests, recorded, questLock)
  BY <1>3, <1>4, <1>5 DEF RowsFit
<1>9. PICK todo : todo = u.todo \ {o}
  OBVIOUS
<1>10. CASE ~Matches(StepOf(row), u.event)
  <2>1. PICK t : t = [u EXCEPT !.todo = todo]
    OBVIOUS
  <2>2. txn' = [txn EXCEPT ![r] = t]
    BY <1>2, <1>3, <1>6, <1>7, <1>9, <1>10, <2>1 DEF ApplyEvent
  <2>3. /\ t \in Txn /\ t.pc = u.pc /\ t.call = u.call /\ t.entities = u.entities
        /\ t.tracked = u.tracked /\ t.noted = u.noted /\ t.event = u.event
        /\ t.cand = u.cand /\ t.due = u.due /\ t.todo \subseteq u.todo
    BY <1>3, <1>9, <2>1 DEF Txn
  <2>4. ControlOf(t) /\ ~Ended(t)
    BY <1>1, <1>2, <1>3, <2>3 DEF ControlOf, Ended, PathOf, Records, Rewarding
  <2>5. MayAccept(t, quests)
    BY <1>1, <1>2, <1>3, <2>3, SameGuard
  <2>6. t.cand \subseteq DOMAIN quests \cup DOMAIN u.entities
    BY <1>3, <2>3 DEF RowsFit
  <2>7. RowsFit(r, t, quests, recorded, questLock)
    BY <1>1, <1>2, <1>3, <2>3, <2>6, SameRows
  <2>8. CountersFit(r, t, counterLock)
    BY <1>3, <2>3, <2>4, SameCounters
  <2>9. QED
    BY <1>1, <1>3, <2>2, <2>3, <2>4, <2>5, <2>7, <2>8, LocksStay, OwnKeeps DEF Fits, lockVars
<1>11. CASE Matches(StepOf(row), u.event)
  <2>1. PICK quantity \in Nat \ {0} : quantity = u.event.quantity
    BY <1>4 DEF Event
  <2>2. PICK new : new = Advanced(row, quantity)
    OBVIOUS
  <2>3. PICK noted : noted = [u.noted EXCEPT ![o][row.step] = @ + quantity]
    OBVIOUS
  <2>4. IsExact(row, Sum(recorded[o], u.noted[o])) /\ row.state = "InProgress"
    BY <1>5, <1>6, <1>7, <1>8 DEF RecordedRow
  <2>5. row.step \in StepNumbers
    <3>1. row.step \in DOMAIN QuestDefs[row.quest].steps /\ row.quest \in Quests
      BY <2>4, RowTyped DEF IsExact
    <3>2. QED
      BY <3>1, QuestTyped
  <2>6. /\ noted \in [Requests -> [StepNumbers -> Nat]]
        /\ noted[o][row.step] = u.noted[o][row.step] + quantity
        /\ \A s \in StepNumbers : s # row.step => noted[o][s] = u.noted[o][s]
        /\ \A x \in Requests : x # o => noted[x] = u.noted[x]
    <3>1. u.noted \in [Requests -> [StepNumbers -> Nat]]
      BY <1>3 DEF Txn
    <3>2. PICK more : more = u.noted[o][row.step] + quantity
      OBVIOUS
    <3>3. more \in Nat /\ noted = [u.noted EXCEPT ![o][row.step] = more]
      BY <2>3, <2>5, <3>1, <3>2
    <3>4. QED
      BY <2>5, <3>1, <3>2, <3>3
  <2>7. /\ new \in CharacterQuest /\ SameQuest(new, row) /\ row.step <= new.step
        /\ new.state \in {"InProgress", "ReadyToTurnIn"}
        /\ IsExact(new, Sum(recorded[o], noted[o]))
    <3>1. recorded[o] \in [StepNumbers -> Nat] /\ u.noted[o] \in [StepNumbers -> Nat]
      BY <1>3 DEF Txn, IInv, Shape
    <3>2. PICK units : units = Sum(recorded[o], u.noted[o])
      OBVIOUS
    <3>3. PICK more : more = Sum(recorded[o], noted[o])
      OBVIOUS
    <3>4. units \in [StepNumbers -> Nat] /\ more \in [StepNumbers -> Nat]
      BY <2>6, <3>1, <3>2, <3>3 DEF Sum
    <3>5. /\ more[row.step] = units[row.step] + quantity
          /\ \A s \in StepNumbers : s # row.step => more[s] = units[s]
      BY <2>5, <2>6, <3>1, <3>2, <3>3 DEF Sum
    <3>6. QED
      BY <2>2, <2>4, <3>2, <3>3, <3>4, <3>5, AdvancedExact
  <2>8. PICK completes \in BOOLEAN :
            completes = (new.state = "ReadyToTurnIn" /\ ~QuestDefs[row.quest].requiresTurnIn)
    OBVIOUS
  <2>9. PICK event : event = [u.event EXCEPT !.steppedOn = @ \/ new.step # row.step]
    OBVIOUS
  <2>10. event \in Event
    BY <1>4, <2>9 DEF Event
  <2>11. PICK entities : entities = [e EXCEPT ![o] = new]
    OBVIOUS
  <2>12. /\ entities \in Entities /\ DOMAIN entities = DOMAIN e /\ entities[o] = new
         /\ \A x \in DOMAIN e : x # o => entities[x] = e[x]
    BY <1>5, <1>6, <2>7, <2>11, SetEntity
  <2>13. PICK due : due = IF completes THEN o ELSE u.due
    OBVIOUS
  <2>14. PICK step : step = IF completes THEN "complete" ELSE u.pc
    OBVIOUS
  <2>15. PICK t : t = [u EXCEPT !.todo = todo, !.entities = entities, !.noted = noted,
                                !.event = event, !.due = due, !.pc = step]
    OBVIOUS
  <2>16. txn' = [txn EXCEPT ![r] = t]
    <3>1. txn' = [txn EXCEPT
              ![r].todo = @ \ {o}, ![r].entities = [@ EXCEPT ![o] = new],
              ![r].noted = noted, ![r].event = event,
              ![r].due = IF completes THEN o ELSE @,
              ![r].pc = IF completes THEN "complete" ELSE @]
      BY <1>2, <1>6, <1>7, <1>11, <2>1, <2>2, <2>3, <2>8, <2>9 DEF ApplyEvent
    <3>2. txn' = [txn EXCEPT
              ![r].todo = todo, ![r].entities = entities, ![r].noted = noted,
              ![r].event = event, ![r].due = due, ![r].pc = step]
      BY <1>2, <1>3, <1>6, <1>9, <2>11, <2>13, <2>14, <3>1
    <3>3. QED
      BY <1>2, <1>3, <2>15, <3>2
  <2>17. /\ t \in Txn /\ t.pc = step /\ t.call = u.call /\ t.entities = entities
         /\ t.tracked = u.tracked /\ t.noted = noted /\ t.event = event
         /\ t.cand = u.cand /\ t.due = due /\ t.todo = todo
    <3>1. /\ todo \in SUBSET Requests /\ due \in Requests \cup {Nobody} /\ step \in Steps
      BY <1>3, <1>9, <2>13, <2>14 DEF Txn, Steps
    <3>2. PICK v : v = [u EXCEPT !.todo = todo, !.entities = entities, !.noted = noted]
      OBVIOUS
    <3>3. /\ v \in Txn /\ v.call = u.call /\ v.entities = entities /\ v.tracked = u.tracked
          /\ v.noted = noted /\ v.cand = u.cand /\ v.todo = todo
      BY <1>3, <2>6, <2>12, <3>1, <3>2 DEF Txn
    <3>4. t = [v EXCEPT !.event = event, !.due = due, !.pc = step]
      BY <1>3, <2>15, <3>2 DEF Txn
    <3>5. QED
      BY <2>10, <3>1, <3>3, <3>4 DEF Txn
  <2>18. ~Ended(t) /\ t.pc \in PathOf(t) /\ Records(t)
    BY <1>1, <1>2, <1>4, <2>14, <2>17 DEF Ended, Records, PathOf, Rewarding
  <2>19. ControlOf(t)
    <3>1. \A x \in t.todo : x \in DOMAIN t.entities /\ t.entities[x].state = "InProgress"
      BY <1>3, <1>6, <1>9, <2>12, <2>17 DEF ControlOf
    <3>2. t.pc \in Rewarding =>
              /\ t.due \in DOMAIN t.entities /\ t.due \notin t.todo
              /\ t.entities[t.due].state # "InProgress"
      <4>1. CASE completes
        <5>1. due = o /\ o \notin todo /\ entities[o].state # "InProgress" /\ o \in DOMAIN entities
          BY <1>5, <1>6, <1>9, <2>8, <2>12, <2>13, <4>1
        <5>2. QED
          BY <2>17, <5>1
      <4>2. CASE ~completes
        <5>1. t.pc = "record"
          BY <1>1, <1>2, <2>14, <2>17, <4>2
        <5>2. QED
          BY <5>1 DEF Rewarding
      <4>3. QED
        BY <4>1, <4>2
    <3>3. t.pc \in {"record", "complete"} /\ t.call.op # "sell"
      BY <1>1, <1>2, <1>4, <2>14, <2>17
    <3>4. QED
      BY <1>3, <2>10, <2>17, <2>18, <3>1, <3>2, <3>3 DEF ControlOf
  <2>20. MayAccept(t, quests)
    BY <1>1, <1>2, <1>3, <2>17, SameGuard
  <2>21. RecordedRow(r, t, o, quests, recorded, questLock)
    <3>1. ASSUME o \in DOMAIN quests PROVE quests[o].step \in Nat
      <4>1. quests[o] \in CharacterQuest
        BY <3>1, EntityTyped DEF IInv, Shape
      <4>2. QED
        BY <4>1, RowTyped
    <3>2. row.step \in Nat /\ new.step \in Nat
      BY <2>7, RowTyped
    <3>3. QED
      BY <1>6, <1>7, <1>8, <2>7, <2>12, <2>17, <3>1, <3>2 DEF RecordedRow, SameQuest
  <2>22. ASSUME NEW x \in DOMAIN t.entities, x # o
         PROVE  RecordedRow(r, t, x, quests, recorded, questLock)
    <3>1. RecordedRow(r, u, x, quests, recorded, questLock) /\ x \in Requests
      BY <1>3, <1>4, <1>6, <2>12, <2>17, <2>22, EntityTyped DEF RowsFit
    <3>2. t.entities[x] = u.entities[x] /\ t.noted[x] = u.noted[x]
      BY <1>6, <2>6, <2>12, <2>17, <2>22, <3>1
    <3>3. QED
      BY <2>17, <3>1, <3>2 DEF RecordedRow
  <2>23. RowsFit(r, t, quests, recorded, questLock)
    <3>1. \A x \in DOMAIN t.entities : RecordedRow(r, t, x, quests, recorded, questLock)
      BY <2>21, <2>22
    <3>2. \A x \in Requests : \A s \in StepNumbers :
              t.noted[x][s] # 0 => Records(t) /\ x \in DOMAIN t.entities
      BY <1>3, <1>5, <1>6, <2>6, <2>12, <2>17, <2>18 DEF RowsFit
    <3>3. t.cand \subseteq DOMAIN quests \cup DOMAIN t.entities
      BY <1>3, <1>6, <2>12, <2>17 DEF RowsFit
    <3>4. QED
      BY <2>18, <3>1, <3>2, <3>3 DEF RowsFit, Records
  <2>24. CountersFit(r, t, counterLock)
    BY <1>3, <2>17, <2>18, SameCounters
  <2>25. QED
    BY <1>1, <1>3, <2>16, <2>17, <2>19, <2>20, <2>23, <2>24, LocksStay, OwnKeeps
    DEF Fits, lockVars
<1>12. QED
  BY <1>10, <1>11

LEMMA CompleteKeeps ==
    ASSUME IInv, NEW r \in Requests, Complete(r)
    PROVE  IInv'
<1>1. /\ txn[r].pc = "complete" /\ txn[r].pc \in Rewarding /\ ~Ended(txn[r])
      /\ UNCHANGED <<dbVars, clock, lockVars>>
  BY DEF Complete, Rewarding, Ended
<1>2. PICK u : u = txn[r]
  OBVIOUS
<1>3. /\ u \in Txn /\ txn \in [Requests -> Txn] /\ r \notin DOMAIN quests
      /\ ControlOf(u) /\ MayAccept(u, quests) /\ RowsFit(r, u, quests, recorded, questLock)
      /\ CountersFit(r, u, counterLock) /\ u.call \in Calls
  BY <1>1, <1>2, RequestTyped
<1>4. /\ DefOf(r).xp \in Nat /\ u.call.op \in {"accept", "act", "turnIn"}
      /\ AfterReward(r) \in PathOf(u) /\ AfterReward(r) \in {"save", "record"}
  BY <1>1, <1>2, RewardTyped
<1>5. PICK due : due = u.due
  OBVIOUS
<1>6. PICK e \in Entities : e = u.entities
  BY <1>3 DEF Txn
<1>7. due \in DOMAIN e /\ due \notin u.todo /\ e[due].state # "InProgress"
  BY <1>1, <1>2, <1>3, <1>5, <1>6 DEF ControlOf
<1>8. PICK row \in CharacterQuest : row = e[due]
  BY <1>7, EntityTyped
<1>9. PICK new : new = [row EXCEPT !.state = "Completed", !.completedAt = clock]
  OBVIOUS
<1>10. /\ new \in CharacterQuest /\ new.state = "Completed" /\ SameQuest(new, row)
       /\ new.step = row.step /\ new.progress = row.progress
  <2>1. clock \in Nat
    BY RewardTxnAssumption DEF IInv, Shape
  <2>2. QED
    BY <1>9, <2>1 DEF CharacterQuest, QuestStates, SameQuest
<1>11. PICK entities : entities = [e EXCEPT ![due] = new]
  OBVIOUS
<1>12. /\ entities \in Entities /\ DOMAIN entities = DOMAIN e /\ entities[due] = new
       /\ \A x \in DOMAIN e : x # due => entities[x] = e[x]
  BY <1>7, <1>10, <1>11, SetEntity
<1>13. [e EXCEPT ![due].state = "Completed", ![due].completedAt = clock] = entities
  BY <1>6, <1>7, <1>8, <1>9, <1>11, EntityTyped
<1>14. Experience \in Counters
  BY TodayCounted DEF IInv, Shape
<1>15. PICK xp : xp = DefOf(r).xp
  OBVIOUS
<1>16. PICK sum : sum = CounterOf(r, Experience).now + xp
  OBVIOUS
<1>17. xp \in Int /\ sum \in Nat
  BY <1>1, <1>4, <1>14, <1>15, <1>16, CounterTyped
<1>18. PICK added : added = Adding(r, Experience, xp)
  OBVIOUS
<1>19. added \in Tracked /\ DOMAIN added = DOMAIN txn[r].tracked \cup {Experience}
  BY <1>1, <1>14, <1>16, <1>17, <1>18, AddingTyped
<1>20. PICK tracked : tracked = IF xp > 0 THEN added ELSE u.tracked
  OBVIOUS
<1>21. tracked \in Tracked /\ DOMAIN u.tracked \subseteq DOMAIN tracked
  BY <1>2, <1>3, <1>19, <1>20 DEF Txn
<1>22. PICK step : step = IF DefOf(r).reward > 0 THEN "grant" ELSE AfterReward(r)
  OBVIOUS
<1>23. step \in PathOf(u) /\ step \in {"grant", "save", "record"}
  BY <1>4, <1>22 DEF PathOf, Rewarding
<1>24. PICK t : t = [u EXCEPT !.entities = entities, !.tracked = tracked, !.pc = step]
  OBVIOUS
<1>25. txn' = [txn EXCEPT ![r] = t]
  <2>1. txn' = [txn EXCEPT
            ![r].entities = [@ EXCEPT ![due].state = "Completed", ![due].completedAt = clock],
            ![r].tracked = IF xp > 0 THEN added ELSE @,
            ![r].pc = step]
    BY <1>2, <1>5, <1>15, <1>18, <1>22 DEF Complete
  <2>2. txn' = [txn EXCEPT ![r].entities = entities, ![r].tracked = tracked, ![r].pc = step]
    BY <1>2, <1>3, <1>6, <1>13, <1>20, <2>1
  <2>3. QED
    BY <1>2, <1>3, <1>24, <2>2
<1>26. /\ t \in Txn /\ t.pc = step /\ t.call = u.call /\ t.entities = entities
       /\ t.tracked = tracked /\ t.noted = u.noted /\ t.event = u.event
       /\ t.cand = u.cand /\ t.due = due /\ t.todo = u.todo
  BY <1>3, <1>5, <1>12, <1>21, <1>23, <1>24 DEF Txn, Steps
<1>27. ~Ended(t) /\ t.pc \in PathOf(t) /\ t.pc \in {"grant", "save", "record"}
  BY <1>23, <1>26 DEF Ended, PathOf
<1>28. Records(t) <=> Records(u)
  BY <1>26 DEF Records
<1>29. ControlOf(t)
  <2>1. \A x \in t.todo : x \in DOMAIN t.entities /\ t.entities[x].state = "InProgress"
    BY <1>3, <1>6, <1>7, <1>12, <1>26 DEF ControlOf
  <2>2. t.due \in DOMAIN t.entities /\ t.due \notin t.todo /\ t.entities[t.due].state # "InProgress"
    BY <1>7, <1>10, <1>12, <1>26
  <2>3. Records(t) => t.event \in Event
    BY <1>1, <1>2, <1>3, <1>26, <1>28 DEF ControlOf
  <2>4. QED
    BY <1>3, <1>4, <1>26, <1>27, <1>28, <2>1, <2>2, <2>3 DEF ControlOf
<1>30. MayAccept(t, quests)
  BY <1>1, <1>2, <1>3, <1>26, SameGuard
<1>31. RowsFit(r, t, quests, recorded, questLock)
  <2>1. ASSUME NEW x \in DOMAIN e, x # due
        PROVE  t.entities[x] = u.entities[x] /\ t.noted[x] = u.noted[x]
    BY <1>6, <1>12, <1>26, <2>1
  <2>2. ASSUME Records(t), NEW x \in DOMAIN t.entities
        PROVE  RecordedRow(r, t, x, quests, recorded, questLock)
    <3>1. x \in DOMAIN e /\ RecordedRow(r, u, x, quests, recorded, questLock)
      BY <1>3, <1>6, <1>12, <1>26, <1>28, <2>2 DEF RowsFit
    <3>2. CASE x # due
      BY <1>26, <2>1, <3>1, <3>2 DEF RecordedRow
    <3>3. CASE x = due
      <4>1. PICK units : units = Sum(recorded[x], t.noted[x])
        OBVIOUS
      <4>2. IsExact(row, units) /\ row.state # "InProgress"
        BY <1>6, <1>7, <1>8, <1>26, <3>1, <3>3, <4>1 DEF RecordedRow
      <4>3. IsExact(new, units)
        BY <1>10, <4>2 DEF IsExact, SameQuest
      <4>4. QED
        BY <1>6, <1>8, <1>10, <1>12, <1>26, <3>1, <3>3, <4>1, <4>3 DEF RecordedRow, SameQuest
    <3>4. QED
      BY <3>2, <3>3
  <2>3. ASSUME t.call.op = "turnIn", NEW x \in DOMAIN t.entities
        PROVE  TurnedIn(t, x, quests)
    <3>1. x = due /\ TurnedIn(u, x, quests)
      BY <1>3, <1>5, <1>6, <1>12, <1>26, <2>3 DEF RowsFit, TurnedIn
    <3>2. QED
      BY <1>6, <1>8, <1>10, <1>12, <1>26, <3>1 DEF TurnedIn, SameQuest
  <2>4. /\ \A x \in Requests : \A s \in StepNumbers :
               t.noted[x][s] # 0 => Records(t) /\ x \in DOMAIN t.entities
        /\ t.cand \subseteq DOMAIN quests \cup DOMAIN t.entities
    BY <1>3, <1>6, <1>12, <1>26, <1>28 DEF RowsFit
  <2>5. QED
    BY <2>2, <2>3, <2>4 DEF RowsFit
<1>32. CountersFit(r, t, counterLock)
  BY <1>3, <1>21, <1>26, <1>27, SameCounters
<1>33. QED
  BY <1>1, <1>3, <1>25, <1>26, <1>27, <1>29, <1>30, <1>31, <1>32, LocksStay, OwnKeeps
  DEF Fits, lockVars

--------------------------------------------------------------------------------
(* The commit                                                                *)

(* What r writes: its rows are locked, known quests of the same character go  *)
(* forward, and a row that is new is its own.                                *)
Forward(row, new) ==
    /\ SameQuest(new, row) /\ row.step <= new.step
    /\ StateRank[row.state] <= StateRank[new.state]
    /\ row.state # "InProgress" => /\ new.step = row.step /\ new.progress = row.progress
                                   /\ new.state = "Completed"

(* It writes each row it loaded, and leaves every other row as it was.       *)
LEMMA CommitMerged ==
    ASSUME IInv, NEW r \in Requests, Commit(r)
    PROVE  /\ quests' \in Entities /\ quests \in Entities /\ txn[r].entities \in Entities
           /\ DOMAIN quests' = DOMAIN quests \cup DOMAIN txn[r].entities
           /\ \A o \in DOMAIN quests' :
                  quests'[o] = IF o \in DOMAIN txn[r].entities THEN txn[r].entities[o]
                               ELSE quests[o]
<1>1. quests' = Merged(quests, txn[r].entities) /\ ~Ended(txn[r])
  BY SavingTyped DEF Commit, Saved, Saving, Ended
<1>2. PICK e \in Entities : e = txn[r].entities
  BY <1>1, RequestTyped DEF Txn
<1>3. PICK rows \in Entities : rows = quests
  BY DEF IInv, Shape
<1>4. /\ Merged(rows, e) \in Entities /\ DOMAIN Merged(rows, e) = DOMAIN rows \cup DOMAIN e
      /\ \A o \in DOMAIN Merged(rows, e) :
             Merged(rows, e)[o] = IF o \in DOMAIN e THEN e[o] ELSE rows[o]
  <2>1. /\ IsPartialFn(rows, Requests, CharacterQuest)
        /\ IsPartialFn(e, Requests, CharacterQuest)
    BY EntitiesTyped
  <2>2. IsPartialFn(Merged(rows, e), Requests, CharacterQuest)
    BY <2>1 DEF IsPartialFn, Merged
  <2>3. QED
    BY <2>2, EntitiesTyped DEF Merged
<1>5. QED
  BY <1>1, <1>2, <1>3, <1>4

LEMMA CommitWrites ==
    ASSUME IInv, NEW r \in Requests, Commit(r)
    PROVE  \A o \in DOMAIN txn[r].entities :
                  /\ questLock[o] = r
                  /\ o \in DOMAIN quests => Forward(quests[o], txn[r].entities[o])
                  /\ o \in DOMAIN quests /\ Records(txn[r]) => quests[o].state = "InProgress"
                  /\ o \notin DOMAIN quests =>
                         /\ o = r /\ txn[r].call.op = "accept" /\ txn[r].pc # "guardActive"
                         /\ txn[r].entities[o].char = txn[r].call.char
                         /\ txn[r].entities[o].quest = txn[r].call.quest
<1>1. /\ Saving(r) /\ UnsavedQuests(r) = {} /\ quests' = Merged(quests, txn[r].entities)
  BY DEF Commit, Saved
<1>2. ~Ended(txn[r]) /\ txn[r].pc \in {"save", "record"}
  BY <1>1 DEF Saving, Ended
<1>3. PICK u : u = txn[r]
  OBVIOUS
<1>4. /\ u \in Txn /\ ControlOf(u) /\ RowsFit(r, u, quests, recorded, questLock)
      /\ u.call.op \in {"accept", "act", "turnIn", "sell"}
  BY <1>2, <1>3, RequestTyped
<1>5. PICK e \in Entities : e = u.entities
  BY <1>4 DEF Txn
<1>6. PICK rows \in Entities : rows = quests
  BY DEF IInv, Shape
<1>7. ASSUME NEW o \in DOMAIN e
      PROVE  /\ questLock[o] = r
             /\ o \in DOMAIN rows => Forward(rows[o], e[o])
             /\ o \in DOMAIN rows /\ Records(u) => rows[o].state = "InProgress"
             /\ o \notin DOMAIN rows =>
                    /\ o = r /\ u.call.op = "accept"
                    /\ e[o].char = u.call.char /\ e[o].quest = u.call.quest
  <2>1. questLock[o] = r
    BY <1>1, <1>3, <1>5 DEF UnsavedQuests
  <2>2. e[o] \in CharacterQuest
    BY EntityTyped
  <2>3. u.call.op # "sell"
    BY <1>4, <1>5 DEF ControlOf
  <2>4. CASE Records(u)
    <3>1. RecordedRow(r, u, o, rows, recorded, questLock)
      BY <1>4, <1>5, <1>6, <2>4 DEF RowsFit
    <3>2. o \in DOMAIN rows => Forward(rows[o], e[o])
      BY <1>5, <2>2, <3>1 DEF RecordedRow, Forward, StateRank, CharacterQuest, QuestStates
    <3>3. QED
      BY <1>5, <2>1, <3>1, <3>2 DEF RecordedRow
  <2>5. CASE ~Records(u)
    <3>1. u.call.op = "turnIn"
      BY <1>4, <2>3, <2>5 DEF Records
    <3>2. TurnedIn(u, o, rows) /\ u.pc # "complete"
      BY <1>2, <1>3, <1>4, <1>5, <1>6, <3>1 DEF RowsFit
    <3>3. rows[o] \in CharacterQuest /\ o \in DOMAIN rows
      BY <1>6, <3>2, EntityTyped DEF TurnedIn
    <3>4. Forward(rows[o], e[o])
      BY <1>5, <3>2, <3>3
      DEF TurnedIn, Forward, StateRank, SameQuest, CharacterQuest, QuestStates
    <3>5. QED
      BY <2>1, <2>5, <3>3, <3>4
  <2>6. QED
    BY <2>4, <2>5
<1>8. u.pc # "guardActive"
  BY <1>2, <1>3
<1>9. \A o \in DOMAIN e :
              /\ questLock[o] = r
              /\ o \in DOMAIN rows => Forward(rows[o], e[o])
              /\ o \in DOMAIN rows /\ Records(u) => rows[o].state = "InProgress"
              /\ o \notin DOMAIN rows =>
                     /\ o = r /\ u.call.op = "accept" /\ u.pc # "guardActive"
                     /\ e[o].char = u.call.char /\ e[o].quest = u.call.quest
  BY <1>7, <1>8
<1>10. rows = quests /\ e = txn[r].entities /\ u = txn[r]
  BY <1>3, <1>5, <1>6
<1>11. QED
  BY <1>9, <1>10, Zenon

LEMMA CommitWritesRow ==
    ASSUME IInv, NEW r \in Requests, Commit(r), NEW o, o \in DOMAIN txn[r].entities,
           o \notin DOMAIN quests
    PROVE  /\ o = r /\ txn[r].call.op = "accept" /\ txn[r].pc # "guardActive"
           /\ txn[r].entities[o].char = txn[r].call.char
           /\ txn[r].entities[o].quest = txn[r].call.quest
BY CommitWrites

IsMerge(rows, old, changed) ==
    \A o : /\ o \in DOMAIN rows <=> o \in DOMAIN old \/ o \in DOMAIN changed
           /\ o \in DOMAIN changed => rows[o] = changed[o]
           /\ o \in DOMAIN old /\ o \notin DOMAIN changed => rows[o] = old[o]

LEMMA CommitMerges ==
    ASSUME IInv, NEW r \in Requests, Commit(r), NEW rows, rows = quests'
    PROVE  /\ rows \in Entities /\ DOMAIN rows \subseteq Requests
           /\ IsMerge(rows, quests, txn[r].entities)
<1>1. /\ rows \in Entities
      /\ DOMAIN rows = DOMAIN quests \cup DOMAIN txn[r].entities
      /\ \A o \in DOMAIN rows :
             rows[o] = IF o \in DOMAIN txn[r].entities THEN txn[r].entities[o] ELSE quests[o]
  BY CommitMerged
<1>2. DOMAIN rows \subseteq Requests
  BY <1>1, EntityTyped
<1>3. QED
  BY <1>1, <1>2 DEF IsMerge

(* What is done stays done, and no quest goes back.                          *)
LEMMA CommitForward ==
    ASSUME IInv, NEW r \in Requests, Commit(r)
    PROVE  /\ \A o \in DOMAIN quests :
                  /\ o \in DOMAIN quests' /\ SameQuest(quests'[o], quests[o])
                  /\ quests[o].step <= quests'[o].step
                  /\ StateRank[quests[o].state] <= StateRank[quests'[o].state]
                  /\ quests[o].state # "InProgress" =>
                         /\ quests'[o].step = quests[o].step
                         /\ quests'[o].progress = quests[o].progress
                         /\ quests'[o].state # "InProgress"
                  /\ quests[o].state = "Completed" => quests'[o].state = "Completed"
           /\ \A c, q : HasDone(quests, c, q) => HasDone(quests', c, q)
<1>1. PICK rows : rows = quests'
  OBVIOUS
<1>2. ASSUME NEW o \in DOMAIN quests
      PROVE  /\ o \in DOMAIN rows /\ SameQuest(rows[o], quests[o])
             /\ quests[o].step <= rows[o].step
             /\ StateRank[quests[o].state] <= StateRank[rows[o].state]
             /\ quests[o].state # "InProgress" =>
                    /\ rows[o].step = quests[o].step /\ rows[o].progress = quests[o].progress
                    /\ rows[o].state # "InProgress"
             /\ quests[o].state = "Completed" => rows[o].state = "Completed"
  <2>1. o \in DOMAIN rows
    BY <1>1, CommitMerged
  <2>2. quests[o] \in CharacterQuest
    BY CommitMerged, EntityTyped
  <2>3. CASE o \in DOMAIN txn[r].entities
    <3>1. Forward(quests[o], rows[o])
      BY <1>1, <2>1, <2>3, CommitMerged, CommitWrites
    <3>2. QED
      BY <2>1, <3>1 DEF Forward
  <2>4. CASE o \notin DOMAIN txn[r].entities
    <3>1. rows[o] = quests[o]
      BY <1>1, <2>1, <2>4, CommitMerged
    <3>2. quests[o].step \in Nat /\ quests[o].state \in QuestStates
      BY <2>2, RowTyped
    <3>3. QED
      BY <2>1, <3>1, <3>2 DEF SameQuest, StateRank, QuestStates
  <2>5. QED
    BY <2>3, <2>4
<1>3. ASSUME NEW c, NEW q, HasDone(quests, c, q) PROVE HasDone(rows, c, q)
  BY <1>2, <1>3 DEF HasDone, SameQuest
<1>4. QED
  BY <1>1, <1>2, <1>3

(* A commit puts its request at rest.                                        *)
LEMMA CommitEnds ==
    ASSUME IInv, NEW r \in Requests, Commit(r)
    PROVE  /\ txn' = [txn EXCEPT ![r] = AtRest("done")] /\ clock' = clock
           /\ txn[r] \in Txn /\ txn \in [Requests -> Txn] /\ r \notin DOMAIN quests
           /\ ~Ended(txn[r])
<1>1. /\ Saving(r)
      /\ txn' = [txn EXCEPT ![r] = AtRest("done")] /\ clock' = clock
  BY DEF Commit, Saved, EndTransaction
<1>2. ~Ended(txn[r])
  BY <1>1, SavingTyped
<1>3. QED
  BY <1>1, <1>2, RequestTyped

(* It records what the request noted, for the quests it records progress of. *)
LEMMA CommitRecords ==
    ASSUME IInv, NEW r \in Requests, Commit(r)
    PROVE  /\ recorded' \in [Requests -> [StepNumbers -> Nat]]
           /\ \A o \in Requests : recorded'[o] = Sum(recorded[o], txn[r].noted[o])
           /\ \A o \in Requests :
                  o \notin DOMAIN txn[r].entities \/ ~Records(txn[r]) => recorded'[o] = recorded[o]
<1>1. recorded' = [o \in Requests |->
                      [s \in StepNumbers |-> recorded[o][s] + txn[r].noted[o][s]]]
  BY DEF Commit, Saved
<1>2. txn[r] \in Txn /\ RowsFit(r, txn[r], quests, recorded, questLock)
  BY CommitEnds, RequestTyped
<1>3. /\ recorded \in [Requests -> [StepNumbers -> Nat]]
      /\ txn[r].noted \in [Requests -> [StepNumbers -> Nat]]
  BY <1>2 DEF Txn, IInv, Shape
<1>4. /\ recorded' \in [Requests -> [StepNumbers -> Nat]]
      /\ \A o \in Requests : recorded'[o] = Sum(recorded[o], txn[r].noted[o])
  BY <1>1, <1>3 DEF Sum
<1>5. ASSUME NEW o \in Requests, o \notin DOMAIN txn[r].entities \/ ~Records(txn[r])
      PROVE  recorded'[o] = recorded[o]
  <2>1. \A s \in StepNumbers : txn[r].noted[o][s] = 0
    BY <1>2, <1>5 DEF RowsFit
  <2>2. recorded[o] \in [StepNumbers -> Nat]
    BY <1>3
  <2>3. QED
    BY <1>4, <2>1, <2>2 DEF Sum
<1>6. QED
  BY <1>4, <1>5

(* It frees the locks of its own request, and of no other.                   *)
LEMMA CommitLocks ==
    ASSUME IInv, NEW r \in Requests, Commit(r)
    PROVE  /\ charLock' \in [Characters -> Requests \cup {Nobody}]
           /\ questLock' \in [Requests -> Requests \cup {Nobody}]
           /\ \A o \in Requests : \A s \in Requests :
                  s # r /\ questLock[o] = s => questLock'[o] = s
           /\ counterLock' \in [Characters -> [Counters -> Requests \cup {Nobody}]]
           /\ \A c \in Characters : \A k \in Counters : \A s \in Requests :
                  counterLock'[c][k] = s => s # r /\ counterLock[c][k] = s
<1>1. /\ charLock' = Released(charLock, r) /\ questLock' = Released(questLock, r)
      /\ counterLock' = [c \in Characters |-> Released(counterLock[c], r)]
  BY DEF Commit, Saved, EndTransaction
<1>2. /\ charLock \in [Characters -> Requests \cup {Nobody}]
      /\ questLock \in [Requests -> Requests \cup {Nobody}]
      /\ counterLock \in [Characters -> [Counters -> Requests \cup {Nobody}]]
  BY DEF IInv, Shape
<1>3. /\ charLock' \in [Characters -> Requests \cup {Nobody}]
      /\ questLock' \in [Requests -> Requests \cup {Nobody}]
  BY <1>1, <1>2, ReleasedRows
<1>4. \A o \in Requests : \A s \in Requests : s # r /\ questLock[o] = s => questLock'[o] = s
  BY <1>1, <1>2 DEF Released
<1>5. ASSUME NEW c \in Characters
      PROVE  /\ Released(counterLock[c], r) \in [Counters -> Requests \cup {Nobody}]
             /\ \A k \in Counters : \A s \in Requests :
                    Released(counterLock[c], r)[k] = s => s # r /\ counterLock[c][k] = s
  <2>1. counterLock[c] \in [Counters -> Requests \cup {Nobody}]
    BY <1>2
  <2>2. \A s \in Requests : s # Nobody
    BY RewardTxnAssumption DEF Nobody
  <2>3. QED
    BY <2>1, <2>2, ReleasedRows
<1>6. /\ counterLock' \in [Characters -> [Counters -> Requests \cup {Nobody}]]
      /\ \A c \in Characters : \A k \in Counters : \A s \in Requests :
             counterLock'[c][k] = s => s # r /\ counterLock[c][k] = s
  BY <1>1, <1>5
<1>7. QED
  BY <1>3, <1>4, <1>6

(* The balances and counters r writes.                                       *)
LEMMA CommitShape ==
    ASSUME IInv, NEW r \in Requests, Commit(r)
    PROVE  Shape'
<1>1. /\ ~Ended(txn[r]) /\ txn[r] \in Txn /\ CharOf(r) \in Characters
      /\ CountersFit(r, txn[r], counterLock)
  BY CommitEnds, RequestTyped
<1>2. PICK c \in Characters : c = CharOf(r)
  BY <1>1
<1>3. PICK tracked \in Tracked : tracked = txn[r].tracked
  BY <1>1 DEF Txn
<1>4. PICK paid \in Nat : paid = txn[r].paid
  BY <1>1 DEF Txn
<1>5. PICK before \in Int : before = BalanceBefore(r)
  BY <1>1 DEF Txn, BalanceBefore, IInv, Shape
<1>6. /\ balance \in [Characters -> Int] /\ ledger \in [Characters -> Int]
      /\ counters \in [Characters -> [Counters -> Nat]]
      /\ counterLock \in [Characters -> [Counters -> Requests \cup {Nobody}]]
  BY DEF IInv, Shape
<1>7. balance' \in [Characters -> Int]
  <2>1. balance' = [balance EXCEPT ![c] = before + paid]
    BY <1>2, <1>4, <1>5 DEF Commit
  <2>2. QED
    BY <1>6, <2>1
<1>8. ledger' \in [Characters -> Int]
  <2>1. ledger' = [ledger EXCEPT ![c] = @ + paid]
    BY <1>2, <1>4 DEF Commit
  <2>2. QED
    BY <1>6, <2>1
<1>9. counters' \in [Characters -> [Counters -> Nat]]
  <2>1. PICK now : now = [k \in Counters |-> IF counterLock[c][k] = r THEN tracked[k].now
                                             ELSE counters[c][k]]
    OBVIOUS
  <2>2. counters' = [counters EXCEPT ![c] = now]
    BY <1>2, <1>3, <1>6, <2>1 DEF Commit
  <2>3. IsPartialFn(tracked, Counters, Counter)
    BY TrackedTyped
  <2>4. ASSUME NEW k \in Counters PROVE now[k] \in Nat
    <3>1. counterLock[c][k] = r => k \in DOMAIN tracked
      BY <1>1, <1>3 DEF CountersFit
    <3>2. counterLock[c][k] = r => tracked[k].now \in Nat
      BY <2>3, <3>1 DEF IsPartialFn, Counter
    <3>3. QED
      BY <1>6, <2>1, <3>2
  <2>5. now \in [Counters -> Nat]
    BY <2>1, <2>4
  <2>6. QED
    BY <1>6, <2>2, <2>5
<1>10. txn' \in [Requests -> Txn]
  <2>1. PICK t : t = AtRest("done")
    OBVIOUS
  <2>2. t \in Txn
    BY <2>1, AtRestFacts
  <2>3. txn' = [txn EXCEPT ![r] = t] /\ txn \in [Requests -> Txn]
    BY <2>1, CommitEnds
  <2>4. QED
    BY <2>2, <2>3
<1>11. quests' \in Entities
  BY CommitMerged
<1>12. clock' \in 0 .. MaxClock
  BY CommitEnds DEF IInv, Shape
<1>13. QED
  BY <1>7, <1>8, <1>9, <1>10, <1>11, <1>12, CommitRecords, CommitLocks DEF Shape

(* The rows of the others: a recorder's are not r's, and what r does to a     *)
(* row another turns in is the same turn-in.                                 *)
LEMMA CommitRows ==
    ASSUME IInv, NEW r \in Requests, Commit(r), NEW s \in Requests, s # r
    PROVE  RowsFit(s, txn[s], quests', recorded', questLock')
<1>1. PICK rows : rows = quests'
  OBVIOUS
<1>2. PICK units : units = recorded'
  OBVIOUS
<1>3. PICK locks : locks = questLock'
  OBVIOUS
<1>4. IsMerge(rows, quests, txn[r].entities)
  BY <1>1, CommitMerges
<1>5. RowsFit(s, txn[s], quests, recorded, questLock)
  BY DEF IInv, RowsOK
<1>6. DOMAIN txn[s].entities \subseteq Requests
  BY EntityTyped DEF IInv, Shape, Txn
<1>7. ASSUME Records(txn[s]), NEW o \in DOMAIN txn[s].entities
      PROVE  RecordedRow(s, txn[s], o, rows, units, locks)
  <2>1. RecordedRow(s, txn[s], o, quests, recorded, questLock) /\ o \in Requests
    BY <1>5, <1>6, <1>7 DEF RowsFit
  <2>2. questLock[o] = s
    BY <2>1 DEF RecordedRow
  <2>3. o \notin DOMAIN txn[r].entities
    BY <2>2, CommitWrites
  <2>4. /\ o \in DOMAIN rows <=> o \in DOMAIN quests
        /\ o \in DOMAIN rows => rows[o] = quests[o]
    BY <1>4, <2>3 DEF IsMerge
  <2>5. units[o] = recorded[o] /\ locks[o] = s
    BY <1>2, <1>3, <2>1, <2>2, <2>3, CommitRecords, CommitLocks
  <2>6. QED
    BY <2>1, <2>4, <2>5 DEF RecordedRow
<1>8. ASSUME txn[s].call.op = "turnIn", NEW o \in DOMAIN txn[s].entities
      PROVE  TurnedIn(txn[s], o, rows)
  <2>1. TurnedIn(txn[s], o, quests)
    BY <1>5, <1>8 DEF RowsFit
  <2>2. o \in DOMAIN quests /\ quests[o].state # "InProgress"
    BY <2>1 DEF TurnedIn
  <2>3. /\ o \in DOMAIN rows /\ SameQuest(rows[o], quests[o])
        /\ rows[o].step = quests[o].step /\ rows[o].progress = quests[o].progress
        /\ rows[o].state # "InProgress"
    BY <1>1, <2>2, CommitForward
  <2>4. QED
    BY <2>1, <2>3 DEF TurnedIn, SameQuest
<1>9. txn[s].cand \subseteq DOMAIN rows \cup DOMAIN txn[s].entities
  BY <1>4, <1>5 DEF RowsFit, IsMerge
<1>10. RowsFit(s, txn[s], rows, units, locks)
  BY <1>5, <1>7, <1>8, <1>9 DEF RowsFit
<1>11. QED
  BY <1>1, <1>2, <1>3, <1>10

(* Every row's progress is still exactly what was recorded.                  *)
LEMMA CommitExact ==
    ASSUME IInv, NEW r \in Requests, Commit(r)
    PROVE  ProgressExact'
<1>1. PICK rows : rows = quests'
  OBVIOUS
<1>2. PICK units : units = recorded'
  OBVIOUS
<1>3. /\ ~Ended(txn[r]) /\ RowsFit(r, txn[r], quests, recorded, questLock)
  BY CommitEnds, RequestTyped
<1>4. IsMerge(rows, quests, txn[r].entities) /\ DOMAIN rows \subseteq Requests
  BY <1>1, CommitMerges
<1>5. ASSUME NEW o \in DOMAIN rows PROVE IsExact(rows[o], units[o])
  <2>1. o \in Requests
    BY <1>4, <1>5
  <2>2. CASE o \in DOMAIN txn[r].entities /\ Records(txn[r])
    <3>1. RecordedRow(r, txn[r], o, quests, recorded, questLock)
      BY <1>3, <2>2 DEF RowsFit
    <3>2. rows[o] = txn[r].entities[o]
      BY <1>4, <2>2 DEF IsMerge
    <3>3. units[o] = Sum(recorded[o], txn[r].noted[o])
      BY <1>2, <2>1, CommitRecords
    <3>4. QED
      BY <3>1, <3>2, <3>3 DEF RecordedRow
  <2>3. CASE o \notin DOMAIN txn[r].entities \/ ~Records(txn[r])
    <3>1. units[o] = recorded[o]
      BY <1>2, <2>1, <2>3, CommitRecords
    <3>2. o \in DOMAIN quests
      BY <1>4, <1>5, <2>3, CommitWritesRow DEF Records, IsMerge
    <3>3. IsExact(quests[o], recorded[o])
      BY <3>2 DEF IInv, ProgressExact
    <3>4. CASE o \notin DOMAIN txn[r].entities
      <4>1. rows[o] = quests[o]
        BY <1>4, <3>2, <3>4 DEF IsMerge
      <4>2. QED
        BY <3>1, <3>3, <4>1
    <3>5. CASE o \in DOMAIN txn[r].entities
      <4>1. txn[r].call.op = "turnIn"
        <5>1. ControlOf(txn[r]) /\ txn[r].call.op \in {"accept", "act", "turnIn", "sell"}
          BY <1>3, RequestTyped
        <5>2. QED
          BY <2>3, <3>5, <5>1 DEF ControlOf, Records
      <4>2. quests[o].state # "InProgress"
        BY <1>3, <3>5, <4>1 DEF RowsFit, TurnedIn
      <4>3. /\ SameQuest(rows[o], quests[o]) /\ rows[o].step = quests[o].step
            /\ rows[o].progress = quests[o].progress /\ rows[o].state # "InProgress"
        BY <1>1, <3>2, <4>2, CommitForward
      <4>4. PICK row : row = rows[o]
        OBVIOUS
      <4>5. PICK old : old = quests[o]
        OBVIOUS
      <4>6. IsExact(row, units[o])
        BY <3>1, <3>3, <4>2, <4>3, <4>4, <4>5 DEF IsExact, SameQuest
      <4>7. QED
        BY <4>4, <4>6
    <3>6. QED
      BY <3>4, <3>5
  <2>4. QED
    BY <2>2, <2>3
<1>6. QED
  BY <1>1, <1>2, <1>5 DEF ProgressExact

LEMMA CommitKeeps ==
    ASSUME IInv, NEW r \in Requests, Commit(r)
    PROVE  IInv'
<1>1. Shape'
  BY CommitShape
<1>2. /\ txn'[r] = AtRest("done") /\ txn' \in [Requests -> Txn]
      /\ \A s \in Requests : s # r => txn'[s] = txn[s]
      /\ ~Ended(txn[r]) /\ MayAccept(txn[r], quests) /\ r \notin DOMAIN quests
  BY <1>1, CommitEnds, RequestTyped DEF Shape
<1>3. PICK rows : rows = quests'
  OBVIOUS
<1>4. IsMerge(rows, quests, txn[r].entities)
  BY <1>3, CommitMerges
<1>5. ControlOK'
  <2>1. \A s \in Requests : ControlOf(txn'[s])
    BY <1>2, AtRestFacts DEF IInv, ControlOK
  <2>2. QED
    BY <2>1 DEF ControlOK
<1>6. AcceptOK'
  <2>1. \A s \in Requests : MayAccept(txn[s], quests)
    BY DEF IInv, AcceptOK
  <2>2. \A s \in Requests : MayAccept(txn[s], rows)
    BY <1>3, <2>1, CommitForward DEF MayAccept
  <2>3. MayAccept(txn'[r], rows)
    BY <1>2, AtRestFits
  <2>4. \A s \in Requests : MayAccept(txn'[s], quests')
    BY <1>2, <1>3, <2>2, <2>3
  <2>5. QED
    BY <2>4 DEF AcceptOK
<1>7. RowsOK'
  <2>1. RowsFit(r, txn'[r], quests', recorded', questLock')
    BY <1>2, AtRestFits
  <2>2. \A s \in Requests : RowsFit(s, txn'[s], quests', recorded', questLock')
    BY <1>2, <2>1, CommitRows
  <2>3. QED
    BY <2>2 DEF RowsOK
<1>8. CountersOK'
  <2>1. ASSUME NEW s \in Requests PROVE CountersFit(s, txn'[s], counterLock')
    <3>1. CountersFit(s, txn[s], counterLock)
      BY DEF IInv, CountersOK
    <3>2. \A c \in Characters : \A k \in Counters :
              counterLock'[c][k] = s => s # r /\ counterLock[c][k] = s
      BY CommitLocks
    <3>3. s # r => txn'[s] = txn[s]
      BY <1>2
    <3>4. QED
      BY <3>1, <3>2, <3>3 DEF CountersFit
  <2>2. QED
    BY <2>1 DEF CountersOK
<1>9. NewRowsWait'
  <2>1. ASSUME NEW o \in Requests, o \in DOMAIN rows PROVE txn'[o].pc = "done"
    <3>1. CASE o = r
      BY <1>2, <3>1, AtRestFacts
    <3>2. CASE o # r
      <4>1. o \in DOMAIN quests
        BY <1>4, <2>1, <3>2, CommitWritesRow DEF IsMerge
      <4>2. QED
        BY <1>2, <3>2, <4>1 DEF IInv, NewRowsWait
    <3>3. QED
      BY <3>1, <3>2
  <2>2. ASSUME NEW o \in Requests, o \notin DOMAIN rows
        PROVE  \A s \in StepNumbers : recorded'[o][s] = 0
    <3>1. o \notin DOMAIN quests /\ o \notin DOMAIN txn[r].entities
      BY <1>4, <2>2 DEF IsMerge
    <3>2. recorded'[o] = recorded[o]
      BY <3>1, CommitRecords
    <3>3. QED
      BY <3>1, <3>2 DEF IInv, NewRowsWait
  <2>3. QED
    BY <1>3, <2>1, <2>2 DEF NewRowsWait
<1>10. ProgressExact'
  BY CommitExact
<1>11. PrerequisitesHeld'
  <2>1. ASSUME NEW o \in DOMAIN rows, NEW q \in QuestDefs[rows[o].quest].prerequisite
        PROVE  HasDone(rows, rows[o].char, q)
    <3>1. CASE o \in DOMAIN quests
      <4>1. SameQuest(rows[o], quests[o])
        BY <1>3, <3>1, CommitForward
      <4>2. HasDone(quests, quests[o].char, q)
        BY <2>1, <3>1, <4>1 DEF IInv, PrerequisitesHeld, RowsOf, HasDone, SameQuest
      <4>3. QED
        BY <1>3, <4>1, <4>2, CommitForward DEF SameQuest
    <3>2. CASE o \notin DOMAIN quests
      <4>1. /\ o \in DOMAIN txn[r].entities /\ rows[o] = txn[r].entities[o]
            /\ txn[r].call.op = "accept" /\ txn[r].pc # "guardActive"
            /\ rows[o].char = txn[r].call.char /\ rows[o].quest = txn[r].call.quest
        <5>1. o \in DOMAIN txn[r].entities /\ rows[o] = txn[r].entities[o]
          BY <1>4, <2>1, <3>2 DEF IsMerge
        <5>2. /\ txn[r].call.op = "accept" /\ txn[r].pc # "guardActive"
              /\ txn[r].entities[o].char = txn[r].call.char
              /\ txn[r].entities[o].quest = txn[r].call.quest
          BY <3>2, <5>1, CommitWritesRow
        <5>3. QED
          BY <5>1, <5>2
      <4>2. HasDone(quests, rows[o].char, q)
        BY <1>2, <2>1, <4>1 DEF MayAccept
      <4>3. QED
        BY <1>3, <4>2, CommitForward
    <3>3. QED
      BY <3>1, <3>2
  <2>2. QED
    BY <1>3, <2>1 DEF PrerequisitesHeld, RowsOf, HasDone
<1>12. QED
  BY <1>1, <1>5, <1>6, <1>7, <1>8, <1>9, <1>10, <1>11 DEF IInv

--------------------------------------------------------------------------------
(* The invariant                                                             *)

LEMMA InitIInv == Init => IInv
<1> SUFFICES ASSUME Init PROVE IInv
  OBVIOUS
<1>1. PICK rows : rows = quests
  OBVIOUS
<1>2. /\ IsPartialFn(rows, Requests, CharacterQuest)
      /\ \A o \in DOMAIN rows : IsExact(rows[o], RecordedFor(rows[o]))
      /\ \A o \in DOMAIN rows : \A q \in QuestDefs[rows[o].quest].prerequisite :
             HasDone(rows, rows[o].char, q)
  BY <1>1, RewardTxnAssumption DEF Init, HasDone
<1>3. rows \in Entities
  BY <1>2, EntitiesTyped
<1>4. recorded = [o \in Requests |-> IF o \in DOMAIN rows THEN RecordedFor(rows[o])
                                     ELSE [s \in StepNumbers |-> 0]]
  BY <1>1 DEF Init
<1>5. ASSUME NEW o \in DOMAIN rows PROVE RecordedFor(rows[o]) \in [StepNumbers -> Nat]
  <2>1. PICK row \in CharacterQuest : row = rows[o]
    BY <1>3, EntityTyped
  <2>2. PICK steps : steps = QuestDefs[row.quest].steps
    OBVIOUS
  <2>3. /\ row.step \in DOMAIN steps /\ row.progress \in Nat
        /\ DOMAIN steps = 1 .. Len(steps) /\ Len(steps) \in Nat \ {0}
        /\ \A n \in DOMAIN steps : steps[n] \in [objective: Objectives, quantity: Nat \ {0}]
    <3>1. IsExact(row, RecordedFor(row))
      BY <1>2, <2>1
    <3>2. QED
      BY <2>2, <3>1, RowTyped, QuestTyped DEF IsExact
  <2>4. ASSUME NEW s \in StepNumbers, s < row.step PROVE steps[s].quantity \in Nat
    <3>1. s \in Nat \ {0}
      <4>1. PICK q \in Quests : s \in DOMAIN QuestDefs[q].steps
        BY DEF StepNumbers
      <4>2. /\ DOMAIN QuestDefs[q].steps = 1 .. Len(QuestDefs[q].steps)
            /\ Len(QuestDefs[q].steps) \in Nat
        BY QuestTyped
      <4>3. QED
        BY <4>1, <4>2
    <3>2. s \in DOMAIN steps
      BY <2>3, <2>4, <3>1
    <3>3. QED
      BY <2>3, <3>2
  <2>5. QED
    BY <2>1, <2>2, <2>3, <2>4 DEF RecordedFor
<1>6. recorded \in [Requests -> [StepNumbers -> Nat]]
  BY <1>4, <1>5
<1>7. ASSUME NEW r \in Requests
      PROVE  /\ txn[r].pc \in {"idle", "done"} /\ txn[r] = AtRest(txn[r].pc)
             /\ r \in DOMAIN rows => txn[r].pc = "done"
  <2>1. PICK step : step = IF r \in DOMAIN rows THEN "done" ELSE "idle"
    OBVIOUS
  <2>2. txn[r] = AtRest(step)
    BY <1>1, <2>1 DEF Init
  <2>3. step \in {"idle", "done"} /\ (r \in DOMAIN rows => step = "done")
    BY <2>1
  <2>4. QED
    BY <2>2, <2>3, AtRestFacts
<1>8. ASSUME NEW r \in Requests
      PROVE  /\ txn[r] \in Txn /\ ControlOf(txn[r]) /\ MayAccept(txn[r], quests)
             /\ RowsFit(r, txn[r], quests, recorded, questLock)
             /\ CountersFit(r, txn[r], counterLock)
  <2>1. txn[r].pc \in {"idle", "done"} /\ txn[r] = AtRest(txn[r].pc)
    BY <1>7
  <2>2. PICK t : t = txn[r]
    OBVIOUS
  <2>3. /\ t \in Txn /\ ControlOf(t) /\ ~Records(t) /\ t.call.op = "none"
        /\ t.cand = {} /\ \A o \in Requests : \A s \in StepNumbers : t.noted[o][s] = 0
    BY <2>1, <2>2, AtRestFacts
  <2>4. MayAccept(t, quests) /\ RowsFit(r, t, quests, recorded, questLock)
    BY <2>3 DEF MayAccept, RowsFit
  <2>5. CountersFit(r, t, counterLock)
    <3>1. r # Nobody
      BY RewardTxnAssumption DEF Nobody
    <3>2. QED
      BY <3>1 DEF CountersFit, Init
  <2>6. QED
    BY <2>2, <2>3, <2>4, <2>5
<1>9. Shape
  <2>1. clock \in 0 .. MaxClock
    BY RewardTxnAssumption DEF Init
  <2>2. balance \in [Characters -> Int] /\ ledger \in [Characters -> Int]
    BY RewardTxnAssumption DEF Init
  <2>3. counters \in [Characters -> [Counters -> Nat]]
    <3>1. \A c \in Characters : InitialGoods[c] \in Nat
      BY RewardTxnAssumption
    <3>2. QED
      BY <3>1 DEF Init
  <2>4. /\ charLock \in [Characters -> Requests \cup {Nobody}]
        /\ questLock \in [Requests -> Requests \cup {Nobody}]
        /\ counterLock \in [Characters -> [Counters -> Requests \cup {Nobody}]]
    BY DEF Init
  <2>5. txn \in [Requests -> Txn]
    <3>1. txn = [r \in Requests |-> txn[r]]
      BY DEF Init
    <3>2. QED
      BY <1>8, <3>1
  <2>6. QED
    BY <1>1, <1>3, <1>6, <2>1, <2>2, <2>3, <2>4, <2>5 DEF Shape
<1>10. ControlOK /\ AcceptOK /\ RowsOK /\ CountersOK
  BY <1>8 DEF ControlOK, AcceptOK, RowsOK, CountersOK
<1>11. NewRowsWait
  BY <1>1, <1>4, <1>7 DEF NewRowsWait
<1>12. ProgressExact
  <2>1. DOMAIN rows \subseteq Requests
    BY <1>3, EntityTyped
  <2>2. \A o \in DOMAIN rows : IsExact(rows[o], recorded[o])
    BY <1>2, <1>4, <2>1
  <2>3. QED
    BY <1>1, <2>2 DEF ProgressExact
<1>13. PrerequisitesHeld
  BY <1>1, <1>2 DEF PrerequisitesHeld, RowsOf, HasDone
<1>14. QED
  BY <1>9, <1>10, <1>11, <1>12, <1>13 DEF IInv

(* What neither a request does.                                              *)
LEMMA SameDataKeeps ==
    ASSUME IInv, UNCHANGED <<dbVars, lockVars, txn>>, clock' \in 0 .. MaxClock
    PROVE  IInv'
<1>1. /\ balance' = balance /\ ledger' = ledger /\ counters' = counters /\ quests' = quests
      /\ recorded' = recorded /\ charLock' = charLock /\ questLock' = questLock
      /\ counterLock' = counterLock /\ txn' = txn
  BY DEF dbVars, lockVars
<1>2. Shape'
  BY <1>1 DEF IInv, Shape
<1>3. ControlOK' /\ AcceptOK' /\ RowsOK' /\ CountersOK'
  <2>1. /\ \A r \in Requests : ControlOf(txn'[r]) /\ MayAccept(txn'[r], quests')
        /\ \A r \in Requests : RowsFit(r, txn'[r], quests', recorded', questLock')
        /\ \A r \in Requests : CountersFit(r, txn'[r], counterLock')
    BY <1>1 DEF IInv, ControlOK, AcceptOK, RowsOK, CountersOK
  <2>2. QED
    BY <2>1 DEF ControlOK, AcceptOK, RowsOK, CountersOK
<1>4. NewRowsWait' /\ ProgressExact' /\ PrerequisitesHeld'
  BY <1>1 DEF IInv, NewRowsWait, ProgressExact, PrerequisitesHeld, RowsOf
<1>5. QED
  BY <1>2, <1>3, <1>4 DEF IInv

LEMMA RollbackSteps ==
    ASSUME NEW r,
           RefuseAccept(r) \/ RefuseTurnIn(r) \/ RefuseGrant(r) \/ RefuseSale(r)
           \/ DeadlockVictim(r) \/ Disconnect(r) \/ \E k \in Counters : SaveFails(r, k)
    PROVE  Rollback(r)
BY DEF RefuseAccept, RefuseTurnIn, RefuseGrant, RefuseSale, DeadlockVictim, Disconnect, SaveFails

LEMMA StepIInv == IInv /\ [Next]_vars => IInv'
<1> SUFFICES ASSUME IInv, [Next]_vars PROVE IInv'
  OBVIOUS
<1>1. ASSUME NEW r \in Requests, NEW c \in Calls, Resolve(r, c) PROVE IInv'
  BY <1>1, ResolveKeeps
<1>2. ASSUME NEW r \in Requests, AcceptStep(r) PROVE IInv'
  BY <1>2, GuardActiveKeeps, InsertQuestKeeps, RollbackSteps, RollbackKeeps DEF AcceptStep
<1>3. ASSUME NEW r \in Requests, RecordStep(r) PROVE IInv'
  BY <1>3, LockCharacterKeeps, ScanKeeps, CountWhereDockedKeeps, LockQuestKeeps,
     ApplyEventKeeps
  DEF RecordStep
<1>4. ASSUME NEW r \in Requests, RewardStep(r) PROVE IInv'
  BY <1>4, FindReadyKeeps, CompleteKeeps, GrantKeeps, PayKeeps, RollbackSteps, RollbackKeeps
  DEF RewardStep
<1>5. ASSUME NEW r \in Requests, SellStep(r) PROVE IInv'
  BY <1>5, ReadBudgetKeeps, TakeGoodsKeeps, RecordGrantKeeps, RollbackSteps, RollbackKeeps
  DEF SellStep
<1>6. ASSUME NEW r \in Requests, SaveStep(r) PROVE IInv'
  <2>1. ASSUME NEW k \in Counters, SaveFails(r, k) PROVE IInv'
    BY <1>6, <2>1, RollbackSteps, RollbackKeeps
  <2>2. QED
    BY <1>6, <2>1, SaveQuestKeeps, SaveCounterKeeps, SaveBalanceKeeps, CommitKeeps
    DEF SaveStep
<1>7. ASSUME NEW r \in Requests, DeadlockVictim(r) \/ Disconnect(r) PROVE IInv'
  BY <1>7, RollbackSteps, RollbackKeeps
<1>8. ASSUME Tick PROVE IInv'
  <2>1. clock' \in 0 .. MaxClock
    BY <1>8, RewardTxnAssumption DEF Tick, IInv, Shape
  <2>2. QED
    BY <1>8, <2>1, SameDataKeeps DEF Tick
<1>9. ASSUME UNCHANGED vars PROVE IInv'
  <2>1. UNCHANGED <<dbVars, lockVars, txn>> /\ clock' \in 0 .. MaxClock
    BY <1>9 DEF vars, IInv, Shape
  <2>2. QED
    BY <2>1, SameDataKeeps
<1>10. QED
  BY <1>1, <1>2, <1>3, <1>4, <1>5, <1>6, <1>7, <1>8, <1>9 DEF Next

LEMMA RewardInvariance == Spec => []IInv
BY InitIInv, StepIInv, PTL DEF Spec

--------------------------------------------------------------------------------
LEMMA TxnTyped ==
    ASSUME NEW t \in Txn
    PROVE  TxnOK(t)
<1>1. DOMAIN t = DOMAIN AtRest("idle")
  BY DEF Txn, AtRest
<1>2. QED
  BY <1>1, EntitiesTyped, TrackedTyped DEF Txn, TxnOK

(* Every committed row, lock and request has its type: no balance, counter,   *)
(* quest row or EF context is ever anything else.                            *)
THEOREM RewardTypeCorrect == Spec => []TypeOK
<1>1. IInv => TypeOK
  <2> SUFFICES ASSUME IInv PROVE TypeOK
    OBVIOUS
  <2>1. IsPartialFn(quests, Requests, CharacterQuest)
    BY EntitiesTyped DEF IInv, Shape
  <2>2. DOMAIN txn = Requests /\ \A r \in Requests : TxnOK(txn[r])
    BY TxnTyped DEF IInv, Shape
  <2>3. QED
    BY <2>1, <2>2 DEF IInv, Shape, TypeOK
<1>2. QED
  BY <1>1, RewardInvariance, PTL

(* RecordProgressAsync loses no event and counts none twice, whatever other   *)
(* events, completions and turn-ins of the same quests run beside it.         *)
THEOREM ProgressHeld == Spec => []ProgressExact
<1>1. IInv => ProgressExact
  BY DEF IInv
<1>2. QED
  BY <1>1, RewardInvariance, PTL

(* AcceptAsync never lets a quest be under way before the quests it follows   *)
(* have been completed, though it reads them without a lock.                 *)
THEOREM PrerequisitesKept == Spec => []PrerequisitesHeld
<1>1. IInv => PrerequisitesHeld
  BY DEF IInv
<1>2. QED
  BY <1>1, RewardInvariance, PTL

(* No request that read a quest row earlier undoes a step, a finish or a      *)
(* completion that another has committed.                                    *)
THEOREM QuestsAdvance == Spec => QuestsOnlyAdvance
<1>1. IInv /\ [Next]_vars =>
          [\A o \in DOMAIN quests :
               /\ o \in DOMAIN quests'
               /\ StateRank[quests[o].state] <= StateRank[quests'[o].state]
               /\ quests[o].step <= quests'[o].step]_vars
  <2> SUFFICES ASSUME IInv, Next, NEW o \in DOMAIN quests
               PROVE  /\ o \in DOMAIN quests'
                      /\ StateRank[quests[o].state] <= StateRank[quests'[o].state]
                      /\ quests[o].step <= quests'[o].step
    OBVIOUS
  <2>1. (\E r \in Requests : Commit(r)) \/ quests' = quests
    <3>1. ASSUME NEW r \in Requests, Rollback(r) PROVE quests' = quests
      BY <3>1 DEF Rollback, dbVars
    <3>2. ASSUME NEW r \in Requests, NEW c \in Calls, Resolve(r, c) PROVE quests' = quests
      BY <3>2 DEF Resolve, dbVars
    <3>3. ASSUME NEW r \in Requests, AcceptStep(r) PROVE quests' = quests
      BY <3>1, <3>3, RollbackSteps DEF AcceptStep, GuardActive, InsertQuest, dbVars
    <3>4. ASSUME NEW r \in Requests, RecordStep(r) PROVE quests' = quests
      BY <3>4 DEF RecordStep, LockCharacter, Scan, CountWhereDocked, LockQuest, ApplyEvent, dbVars
    <3>5. ASSUME NEW r \in Requests, RewardStep(r) PROVE quests' = quests
      BY <3>1, <3>5, RollbackSteps DEF RewardStep, FindReady, Complete, Grant, Pay, dbVars
    <3>6. ASSUME NEW r \in Requests, SellStep(r) PROVE quests' = quests
      BY <3>1, <3>6, RollbackSteps DEF SellStep, ReadBudget, TakeGoods, RecordGrant, dbVars
    <3>7. ASSUME NEW r \in Requests, SaveStep(r) PROVE Commit(r) \/ quests' = quests
      BY <3>1, <3>7, RollbackSteps DEF SaveStep, SaveQuest, SaveCounter, SaveBalance, dbVars
    <3>8. ASSUME NEW r \in Requests, DeadlockVictim(r) \/ Disconnect(r) PROVE quests' = quests
      BY <3>1, <3>8, RollbackSteps
    <3>9. Tick => quests' = quests
      BY DEF Tick, dbVars
    <3>10. QED
      BY <3>2, <3>3, <3>4, <3>5, <3>6, <3>7, <3>8, <3>9 DEF Next
  <2>2. CASE \E r \in Requests : Commit(r)
    BY <2>2, CommitForward
  <2>3. CASE quests' = quests
    <3>1. quests[o] \in CharacterQuest
      BY EntityTyped DEF IInv, Shape
    <3>2. quests[o].step \in Nat /\ quests[o].state \in QuestStates
      BY <3>1, RowTyped
    <3>3. QED
      BY <2>3, <3>2 DEF StateRank, QuestStates
  <2>4. QED
    BY <2>1, <2>2, <2>3
<1>2. QED
  BY <1>1, RewardInvariance, PTL DEF Spec, QuestsOnlyAdvance

================================================================================
