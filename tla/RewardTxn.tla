-------------------------------- MODULE RewardTxn --------------------------------
(****************************************************************************)
(* Quests and faction sales as concurrent requests                           *)
(* (services/SpaceMMO.Data/Quests/QuestService.cs, Market/FactionOrderService *)
(* .cs).  Both create credits out of one daily budget, and both write the    *)
(* character's balance.  Quest progress is recorded inside the transaction   *)
(* of whatever the character did: gathering, claiming a job, docking.        *)
(*                                                                           *)
(* A row of character_quests is named by the request that accepts the quest. *)
(****************************************************************************)
EXTENDS RewardRules, Transactions, FiniteSets, Sequences

CONSTANTS Characters,
          Requests,        \* numbered in the order they arrive
          Calls,           \* the calls the requests may make
          QuestDefs,       \* the quests, as content authored them
          Objectives,      \* an action and its target
          DockObjectives,  \* those that are docking at a station
          GatherObjectives, \* those that are gathering an item
          Docked,          \* where each character is docked, or Nowhere
          Nowhere,
          InitialBalance,
          InitialGoods,    \* [Characters -> Nat], units the faction buys
          Journals,        \* what earlier requests may have accepted and done
          DayLength,
          MaxClock         \* bound on the clock

Quests == DOMAIN QuestDefs

QuestStates == {"InProgress", "ReadyToTurnIn", "Completed"}
CharacterQuest == [char: Characters, quest: Quests, state: QuestStates,
                   step: Nat \ {0}, progress: Nat, completedAt: Nat]

AcceptCall == [op: {"accept"}, char: Characters, quest: Quests]
ActCall == [op: {"act"}, char: Characters, objective: Objectives, quantity: Nat \ {0}]
TurnInCall == [op: {"turnIn"}, char: Characters, quest: Quests]
SellCall == [op: {"sell"}, char: Characters, quantity: Nat \ {0}]

QuestDef == [prerequisite: SUBSET Quests, steps: Seq([objective: Objectives, quantity: Nat \ {0}]),
             reward: Nat, xp: Nat, sidequest: BOOLEAN, cooldown: Nat, requiresTurnIn: BOOLEAN]

StepNumbers == UNION {DOMAIN QuestDefs[q].steps : q \in Quests}
StepOf(row) == QuestDefs[row.quest].steps[row.step]

(* What has been recorded toward each step of a row that progressed as it     *)
(* should: enough for the steps behind it, its progress for the one it is at. *)
RecordedFor(row) ==
    [s \in StepNumbers |->
        IF s < row.step THEN QuestDefs[row.quest].steps[s].quantity
        ELSE IF s = row.step THEN row.progress ELSE 0]

(* A row's progress is exactly what was recorded toward its steps.           *)
IsExact(row, units) ==
    LET steps == QuestDefs[row.quest].steps IN
    /\ row.step \in DOMAIN steps
    /\ \A s \in DOMAIN steps : /\ s < row.step => units[s] >= steps[s].quantity
                               /\ s > row.step => units[s] = 0
    /\ row.state = "InProgress" =>
           units[row.step] = row.progress /\ row.progress < steps[row.step].quantity
    /\ row.state # "InProgress" =>
           /\ row.step = Len(steps)
           /\ units[row.step] >= row.progress /\ row.progress = steps[row.step].quantity

ASSUME RewardTxnAssumption ==
    /\ Requests \subseteq Nat \ {0}
    /\ \A q \in Quests : /\ QuestDefs[q] \in QuestDef
                        /\ QuestDefs[q].steps # <<>>
    /\ DockObjectives \subseteq Objectives
    /\ GatherObjectives \subseteq Objectives
    /\ Docked \in [Characters -> DockObjectives \cup {Nowhere}]
    /\ InitialBalance \in [Characters -> Nat]
    /\ InitialGoods \in [Characters -> Nat]
    /\ \A rows \in Journals :
          /\ IsPartialFn(rows, Requests, CharacterQuest)
          /\ \A o \in DOMAIN rows : IsExact(rows[o], RecordedFor(rows[o]))
          /\ \A o \in DOMAIN rows : \A q \in QuestDefs[rows[o].quest].prerequisite :
                \E p \in DOMAIN rows : /\ rows[p].char = rows[o].char /\ rows[p].quest = q
                                       /\ rows[p].state = "Completed"
    /\ Calls \subseteq AcceptCall \cup ActCall \cup TurnInCall \cup SellCall
    /\ DayLength \in Nat \ {0}
    /\ MaxClock \in Nat

(* A character's counters that requests read, change in memory and write back *)
(* absolute: goods in the hangar, skill experience, credits granted in a day. *)
Goods == <<"goods", 0>>
Experience == <<"experience", 0>>
GrantedOn(day) == <<"granted", day>>
Counters == {Goods, Experience} \cup {GrantedOn(day) : day \in 0 .. MaxClock \div DayLength}

VARIABLES
    balance, ledger, counters, quests,  \* committed rows
    recorded,                           \* history: units recorded toward each row's steps
    clock,
    charLock, questLock, counterLock,   \* row locks
    txn                                 \* each request's progress and its EF context

dbVars == <<balance, ledger, counters, quests, recorded>>
lockVars == <<charLock, questLock, counterLock>>
vars == <<dbVars, clock, lockVars, txn>>

Steps == {"idle", "lockCharacter", "guardActive", "guardRepeat", "scan", "record",
          "findReady", "complete", "grant", "pay", "readBudget", "takeGoods", "recordGrant",
          "save", "done"}

NoCall == [op |-> "none"]
NoEvent == [objective |-> Nowhere, quantity |-> 0, steppedOn |-> FALSE]

(* A request that has not begun, and what is left of one when it ends.       *)
AtRest(step) ==
    [pc |-> step, call |-> NoCall,
     seenBalance |-> 0,                     \* of the character the endpoint loaded
     event |-> NoEvent,                     \* being recorded; whether a step was finished
     cand |-> {}, todo |-> {},              \* rows to lock, rows to apply the event to
     entities |-> EmptyFn, tracked |-> EmptyFn,  \* tracked quest rows and counters
     due |-> Nobody, owed |-> 0, paid |-> 0,     \* the row completed, credits to pay, paid
     noted |-> [o \in Requests |-> [s \in StepNumbers |-> 0]]]  \* history, uncommitted

Event == [objective: Objectives, quantity: Nat \ {0}, steppedOn: BOOLEAN]
Counter == [read: Nat, now: Nat]

TxnOK(t) ==
    /\ DOMAIN t = DOMAIN AtRest("idle")
    /\ t.pc \in Steps
    /\ t.call \in Calls \cup {NoCall}
    /\ t.seenBalance \in Int
    /\ t.event \in Event \cup {NoEvent}
    /\ t.cand \subseteq Requests /\ t.todo \subseteq Requests
    /\ IsPartialFn(t.entities, Requests, CharacterQuest)
    /\ IsPartialFn(t.tracked, Counters, Counter)
    /\ t.due \in Requests \cup {Nobody}
    /\ t.owed \in Nat /\ t.paid \in Nat
    /\ t.noted \in [Requests -> [StepNumbers -> Nat]]

TypeOK ==
    /\ balance \in [Characters -> Int]
    /\ ledger \in [Characters -> Int]
    /\ counters \in [Characters -> [Counters -> Nat]]
    /\ IsPartialFn(quests, Requests, CharacterQuest)
    /\ recorded \in [Requests -> [StepNumbers -> Nat]]
    /\ clock \in 0 .. MaxClock
    /\ charLock \in [Characters -> Requests \cup {Nobody}]
    /\ questLock \in [Requests -> Requests \cup {Nobody}]
    /\ counterLock \in [Characters -> [Counters -> Requests \cup {Nobody}]]
    /\ DOMAIN txn = Requests
    /\ \A r \in Requests : TxnOK(txn[r])

Init ==
    /\ balance = InitialBalance
    /\ ledger = InitialBalance
    /\ counters = [c \in Characters |-> [k \in Counters |->
                      IF k = Goods THEN InitialGoods[c] ELSE 0]]
    /\ quests \in Journals
    /\ recorded = [o \in Requests |->
                      IF o \in DOMAIN quests THEN RecordedFor(quests[o])
                      ELSE [s \in StepNumbers |-> 0]]
    /\ clock = 0
    /\ charLock = [c \in Characters |-> Nobody]
    /\ questLock = [o \in Requests |-> Nobody]
    /\ counterLock = [c \in Characters |-> [k \in Counters |-> Nobody]]
    /\ txn = [r \in Requests |-> AtRest(IF r \in DOMAIN quests THEN "done" ELSE "idle")]

--------------------------------------------------------------------------------
CharOf(r) == txn[r].call.char

(* Commit or rollback: the locks go, and so does the context.                *)
EndTransaction(r) ==
    /\ txn' = [txn EXCEPT ![r] = AtRest("done")]
    /\ charLock' = Released(charLock, r)
    /\ questLock' = Released(questLock, r)
    /\ counterLock' = [c \in Characters |-> Released(counterLock[c], r)]
    /\ UNCHANGED clock

Rollback(r) == EndTransaction(r) /\ UNCHANGED dbVars

(* The endpoint loads the caller's character, which the context tracks.      *)
Resolve(r, c) ==
    /\ txn[r].pc = "idle"
    /\ \A s \in Requests : s < r => txn[s].pc # "idle"
    /\ txn' = [txn EXCEPT
           ![r].call = c,
           ![r].seenBalance = balance[c.char],
           ![r].event = IF c.op = "act" THEN [objective |-> c.objective, quantity |-> c.quantity,
                                             steppedOn |-> FALSE]
                        ELSE NoEvent,
           ![r].pc = CASE c.op = "accept" -> "guardActive"
                       [] c.op = "act" /\ c.objective \in GatherObjectives -> "lockCharacter"
                       [] c.op = "act" /\ c.objective \notin GatherObjectives -> "scan"
                       [] c.op = "turnIn" -> "findReady"
                       [] c.op = "sell" -> "readBudget"]
    /\ UNCHANGED <<dbVars, clock, lockVars>>

--------------------------------------------------------------------------------
(* Accepting a quest: nothing is locked                                      *)

RowsOf(c, quest, state) ==
    {o \in DOMAIN quests : quests[o].char = c /\ quests[o].quest = quest
                          /\ quests[o].state = state}

QuestOf(r) == txn[r].call.quest

(* Fault: the prerequisite only has to be under way.                         *)
PrerequisiteTaken(r) ==
    \A q \in QuestDefs[QuestOf(r)].prerequisite :
        \E o \in DOMAIN quests : quests[o].char = CharOf(r) /\ quests[o].quest = q

PrerequisiteDone(r) ==
    \A q \in QuestDefs[QuestOf(r)].prerequisite : RowsOf(CharOf(r), q, "Completed") # {}

NotActive(r) == RowsOf(CharOf(r), QuestOf(r), "InProgress") = {}

(* The latest completion is a cooldown ago; a one-shot quest has none.       *)
MayRepeat(r) ==
    LET cooldown == QuestDefs[QuestOf(r)].cooldown
    IN  \A o \in RowsOf(CharOf(r), QuestOf(r), "Completed") :
            cooldown > 0 /\ clock >= quests[o].completedAt + cooldown

GuardActive(r) ==
    /\ txn[r].pc = "guardActive"
    /\ PrerequisiteDone(r)
    /\ NotActive(r)
    /\ txn' = [txn EXCEPT ![r].pc = "guardRepeat"]
    /\ UNCHANGED <<dbVars, clock, lockVars>>

NewRow(r) ==
    [char |-> CharOf(r), quest |-> QuestOf(r), state |-> "InProgress",
     step |-> 1, progress |-> 0, completedAt |-> 0]

DockEvent(c) == [objective |-> Docked[c], quantity |-> 1, steppedOn |-> FALSE]

(* The row is inserted, and where the character is docked is then counted.   *)
InsertQuest(r) ==
    LET docked == Docked[CharOf(r)] # Nowhere IN
    /\ txn[r].pc = "guardRepeat"
    /\ MayRepeat(r)
    /\ questLock' = [questLock EXCEPT ![r] = r]
    /\ txn' = [txn EXCEPT
           ![r].entities = Put(@, r, NewRow(r)),
           ![r].event = IF docked THEN DockEvent(CharOf(r)) ELSE @,
           ![r].pc = IF docked THEN "scan" ELSE "save"]
    /\ UNCHANGED <<dbVars, clock, charLock, counterLock>>

RefuseAccept(r) ==
    /\ \/ txn[r].pc = "guardActive" /\ ~(PrerequisiteDone(r) /\ NotActive(r))
       \/ txn[r].pc = "guardRepeat" /\ ~MayRepeat(r)
    /\ Rollback(r)

--------------------------------------------------------------------------------
(* RecordProgress, in the transaction of what the character did              *)

TakeCharacter(r) ==
    /\ Free(charLock, CharOf(r), r)
    /\ charLock' = [charLock EXCEPT ![CharOf(r)] = r]

(* Gathering locks the character first; claiming a job does not.             *)
LockCharacter(r) ==
    /\ txn[r].pc = "lockCharacter"
    /\ TakeCharacter(r)
    /\ txn' = [txn EXCEPT ![r].pc = "scan"]
    /\ UNCHANGED <<dbVars, clock, questLock, counterLock>>

(* A row as r's transaction sees it: its own writes before anyone's commits. *)
View(r, o) == IF o \in DOMAIN txn[r].entities THEN txn[r].entities[o] ELSE quests[o]

(* Fault: the query without its test of the state.                           *)
ActiveOrFinished(r, o) == View(r, o).char = CharOf(r)

Active(r, o) == View(r, o).char = CharOf(r) /\ View(r, o).state = "InProgress"

Scan(r) ==
    /\ txn[r].pc = "scan"
    /\ txn' = [txn EXCEPT
           ![r].cand = {o \in DOMAIN quests \cup DOMAIN txn[r].entities : Active(r, o)},
           ![r].pc = "record"]
    /\ UNCHANGED <<dbVars, clock, lockVars>>

(* Fault: the query without FOR UPDATE.                                      *)
ReadsUnlocked(r, o) == TRUE

CanLockQuest(r, o) == Free(questLock, o, r)

(* FOR UPDATE: row by row, each tested again once it is locked.              *)
LockQuest(r, o) ==
    /\ txn[r].pc = "record"
    /\ o \in txn[r].cand
    /\ CanLockQuest(r, o)
    /\ questLock' = [questLock EXCEPT ![o] = r]
    /\ txn' = [txn EXCEPT
           ![r].cand = @ \ {o},
           ![r].entities = IF Active(r, o) THEN Put(@, o, View(r, o)) ELSE @,
           ![r].todo = IF Active(r, o) THEN @ \cup {o} ELSE @]
    /\ UNCHANGED <<dbVars, clock, charLock, counterLock>>

HasNextStep(row) == row.step + 1 \in DOMAIN QuestDefs[row.quest].steps

(* A row after an event that matches its step.                               *)
Advanced(row, quantity) ==
    LET progress == NewProgress(StepOf(row), row.progress, quantity)
        finished == progress >= StepOf(row).quantity
    IN  CASE ~finished -> [row EXCEPT !.progress = progress]
          [] finished /\ HasNextStep(row) -> [row EXCEPT !.step = @ + 1, !.progress = 0]
          [] OTHER -> [row EXCEPT !.progress = progress, !.state = "ReadyToTurnIn"]

(* One active row, in any order.  With its last step done it waits to be      *)
(* turned in, or is completed at once when the quest asks for no turn-in.    *)
ApplyEvent(r, o) ==
    LET t == txn[r]
        row == t.entities[o]
        quantity == t.event.quantity
        new == Advanced(row, quantity)
        noted == [t.noted EXCEPT ![o][row.step] = @ + quantity]
        event == [t.event EXCEPT !.steppedOn = @ \/ new.step # row.step]
        completes == new.state = "ReadyToTurnIn" /\ ~QuestDefs[row.quest].requiresTurnIn
    IN  /\ txn[r].pc = "record"
        /\ txn[r].cand = {}
        /\ o \in txn[r].todo
        /\ txn' = IF Matches(StepOf(row), t.event)
                  THEN [txn EXCEPT
                           ![r].todo = @ \ {o},
                           ![r].entities = [@ EXCEPT ![o] = new],
                           ![r].noted = noted,
                           ![r].event = event,
                           ![r].due = IF completes THEN o ELSE @,
                           ![r].pc = IF completes THEN "complete" ELSE @]
                  ELSE [txn EXCEPT ![r].todo = @ \ {o}]
        /\ UNCHANGED <<dbVars, clock, lockVars>>

--------------------------------------------------------------------------------
(* Completing a quest                                                        *)

(* A ready row of the quest is found, and nothing is locked.                 *)
FindReady(r, o) ==
    /\ txn[r].pc = "findReady"
    /\ o \in RowsOf(CharOf(r), QuestOf(r), "ReadyToTurnIn")
    /\ txn' = [txn EXCEPT ![r].entities = Put(@, o, quests[o]),
                          ![r].due = o,
                          ![r].pc = "complete"]
    /\ UNCHANGED <<dbVars, clock, lockVars>>

RefuseTurnIn(r) ==
    /\ txn[r].pc = "findReady"
    /\ RowsOf(CharOf(r), QuestOf(r), "ReadyToTurnIn") = {}
    /\ Rollback(r)

(* A counter as the context has it: tracked by an earlier query, or read now, *)
(* and what it tracks once the counter has been added to.                    *)
CounterOf(r, k) ==
    IF k \in DOMAIN txn[r].tracked THEN txn[r].tracked[k]
    ELSE [read |-> counters[CharOf(r)][k], now |-> counters[CharOf(r)][k]]

Adding(r, k, amount) == Put(txn[r].tracked, k, [CounterOf(r, k) EXCEPT !.now = @ + amount])

Today == GrantedOn(clock \div DayLength)
DefOf(r) == QuestDefs[txn[r].entities[txn[r].due].quest]
AfterReward(r) == IF txn[r].call.op = "turnIn" THEN "save" ELSE "record"

Complete(r) ==
    LET due == txn[r].due IN
    /\ txn[r].pc = "complete"
    /\ txn' = [txn EXCEPT
           ![r].entities = [@ EXCEPT ![due].state = "Completed", ![due].completedAt = clock],
           ![r].tracked = IF DefOf(r).xp > 0 THEN Adding(r, Experience, DefOf(r).xp) ELSE @,
           ![r].pc = IF DefOf(r).reward > 0 THEN "grant" ELSE AfterReward(r)]
    /\ UNCHANGED <<dbVars, clock, lockVars>>

(* A day's row the request has added is not in the database before it is      *)
(* saved: the query misses it and it is added once more, which EF Core refuses. *)
AddedTwice(r) ==
    /\ DefOf(r).sidequest
    /\ Today \in DOMAIN txn[r].tracked
    /\ txn[r].tracked[Today].read = 0
    /\ counterLock[CharOf(r)][Today] # r
    /\ counters[CharOf(r)][Today] = 0

(* Only a sidequest's reward is capped.                                      *)
GrantDue(r) ==
    IF DefOf(r).sidequest THEN Granted(DefOf(r).reward, CounterOf(r, Today).now)
    ELSE DefOf(r).reward

Grant(r) ==
    /\ txn[r].pc = "grant"
    /\ ~AddedTwice(r)
    /\ txn' = [txn EXCEPT
           ![r].owed = GrantDue(r),
           ![r].tracked = IF DefOf(r).sidequest THEN Adding(r, Today, GrantDue(r)) ELSE @,
           ![r].pc = IF GrantDue(r) > 0 THEN "pay" ELSE AfterReward(r)]
    /\ UNCHANGED <<dbVars, clock, lockVars>>

RefuseGrant(r) == txn[r].pc = "grant" /\ AddedTwice(r) /\ Rollback(r)

(* A relative update, which takes the character's row; the ledger entry.     *)
Pay(r) ==
    /\ txn[r].pc = "pay"
    /\ TakeCharacter(r)
    /\ txn' = [txn EXCEPT ![r].paid = @ + txn[r].owed, ![r].owed = 0, ![r].pc = AfterReward(r)]
    /\ UNCHANGED <<dbVars, clock, questLock, counterLock>>

--------------------------------------------------------------------------------
(* Selling to a faction                                                      *)

UnitsPaidFor(r) == Affordable(txn[r].call.quantity, counters[CharOf(r)][Today])

ReadBudget(r) ==
    /\ txn[r].pc = "readBudget"
    /\ UnitsPaidFor(r) > 0
    /\ txn' = [txn EXCEPT
           ![r].owed = UnitsPaidFor(r) * UnitPrice,
           ![r].tracked = IF counters[CharOf(r)][Today] > 0 THEN Adding(r, Today, 0) ELSE @,
           ![r].pc = "takeGoods"]
    /\ UNCHANGED <<dbVars, clock, lockVars>>

UnitsSold(r) == txn[r].owed \div UnitPrice

(* Fault: sold without looking at what there is.                             *)
HasGoodsUnchecked(r) == TRUE

HasGoods(r) == counters[CharOf(r)][Goods] >= UnitsSold(r)

TakeGoods(r) ==
    /\ txn[r].pc = "takeGoods"
    /\ HasGoods(r)
    /\ txn' = [txn EXCEPT ![r].tracked = Adding(r, Goods, -UnitsSold(r)),
                          ![r].pc = "recordGrant"]
    /\ UNCHANGED <<dbVars, clock, lockVars>>

RefuseSale(r) ==
    /\ \/ txn[r].pc = "readBudget" /\ UnitsPaidFor(r) = 0
       \/ txn[r].pc = "takeGoods" /\ ~HasGoods(r)
    /\ Rollback(r)

(* The day's row is queried again: one that was not there may be by now.     *)
RecordGrant(r) ==
    /\ txn[r].pc = "recordGrant"
    /\ txn' = [txn EXCEPT ![r].tracked = Adding(r, Today, txn[r].owed),
                          ![r].paid = txn[r].owed,
                          ![r].owed = 0,
                          ![r].pc = "save"]
    /\ UNCHANGED <<dbVars, clock, lockVars>>

--------------------------------------------------------------------------------
(* SaveChanges: the rows changed are written one by one, in an order EF Core  *)
(* chooses, each once it is free.  Rows locked earlier are the context's own. *)

UnsavedQuests(r) == {o \in DOMAIN txn[r].entities : questLock[o] # r}
UnsavedCounters(r) ==
    {k \in DOMAIN txn[r].tracked : /\ txn[r].tracked[k].now # txn[r].tracked[k].read
                                  /\ counterLock[CharOf(r)][k] # r}
OwesBalance(r) == txn[r].call.op = "sell" /\ charLock[CharOf(r)] # r

Saving(r) ==
    \/ txn[r].pc = "save"
    \/ txn[r].pc = "record" /\ txn[r].cand = {} /\ txn[r].todo = {}

Saved(r) ==
    Saving(r) /\ UnsavedQuests(r) = {} /\ UnsavedCounters(r) = {} /\ ~OwesBalance(r)

SaveQuest(r, o) ==
    /\ Saving(r)
    /\ o \in UnsavedQuests(r)
    /\ questLock[o] = Nobody
    /\ questLock' = [questLock EXCEPT ![o] = r]
    /\ UNCHANGED <<dbVars, clock, charLock, counterLock, txn>>

(* An insert meets a row that is there, or an update one that is not: a row   *)
(* that counts nothing is not there.                                         *)
Conflict(r, k) == (txn[r].tracked[k].read = 0) # (counters[CharOf(r)][k] = 0)

CanSave(r, k) ==
    Saving(r) /\ k \in UnsavedCounters(r) /\ counterLock[CharOf(r)][k] = Nobody

SaveCounter(r, k) ==
    /\ CanSave(r, k)
    /\ ~Conflict(r, k)
    /\ counterLock' = [counterLock EXCEPT ![CharOf(r)][k] = r]
    /\ UNCHANGED <<dbVars, clock, charLock, questLock, txn>>

SaveFails(r, k) == CanSave(r, k) /\ Conflict(r, k) /\ Rollback(r)

SaveBalance(r) ==
    /\ Saving(r)
    /\ OwesBalance(r)
    /\ TakeCharacter(r)
    /\ UNCHANGED <<dbVars, clock, questLock, counterLock, txn>>

(* A step just reached may be docking where the character is: counted once,  *)
(* and never after an event of docking.                                      *)
CountsDock(r) ==
    /\ txn[r].event.steppedOn
    /\ txn[r].event.objective \notin DockObjectives
    /\ Docked[CharOf(r)] # Nowhere

CountWhereDocked(r) ==
    /\ Saved(r)
    /\ CountsDock(r)
    /\ txn' = [txn EXCEPT ![r].event = DockEvent(CharOf(r)), ![r].pc = "scan"]
    /\ UNCHANGED <<dbVars, clock, lockVars>>

(* A reward is added to the row's balance; a sale writes what the endpoint   *)
(* read and the price.                                                       *)
BalanceBefore(r) == IF txn[r].call.op = "sell" THEN txn[r].seenBalance ELSE balance[CharOf(r)]

Merged(rows, changed) ==
    [o \in DOMAIN rows \cup DOMAIN changed |-> IF o \in DOMAIN changed THEN changed[o] ELSE rows[o]]

Commit(r) ==
    LET c == CharOf(r) t == txn[r] IN
    /\ Saved(r)
    /\ ~CountsDock(r)
    /\ quests' = Merged(quests, t.entities)
    /\ counters' = [counters EXCEPT ![c] =
           [k \in Counters |-> IF counterLock[c][k] = r THEN t.tracked[k].now ELSE @[k]]]
    /\ balance' = [balance EXCEPT ![c] = BalanceBefore(r) + t.paid]
    /\ ledger' = [ledger EXCEPT ![c] = @ + t.paid]
    /\ recorded' = [o \in Requests |-> [s \in StepNumbers |-> recorded[o][s] + t.noted[o][s]]]
    /\ EndTransaction(r)

--------------------------------------------------------------------------------
(* Failures and time                                                         *)

(* The rows a request may lock next, each as the lock that holds it.         *)
NextLocks(r) ==
    CASE txn[r].pc \in {"lockCharacter", "pay"} -> {charLock[CharOf(r)]}
      [] txn[r].pc = "record" /\ txn[r].cand # {} -> {questLock[o] : o \in txn[r].cand}
      [] Saving(r) -> {questLock[o] : o \in UnsavedQuests(r)}
                      \cup {counterLock[CharOf(r)][k] : k \in UnsavedCounters(r)}
                      \cup (IF OwesBalance(r) THEN {charLock[CharOf(r)]} ELSE {})
      [] OTHER -> {}

(* Whom it waits for, when it can lock none of them.                         *)
WaitsFor(r) == IF NextLocks(r) \cap {Nobody, r} = {} THEN NextLocks(r) ELSE {}

Deadlocked(r) == Stuck(r, [s \in Requests |-> WaitsFor(s)])

DeadlockVictim(r) == Deadlocked(r) /\ Rollback(r)

(* The caller goes away, or the process dies.                                *)
Disconnect(r) == txn[r].pc \notin {"idle", "done"} /\ Rollback(r)

Tick ==
    /\ clock < MaxClock
    /\ clock' = clock + 1
    /\ UNCHANGED <<dbVars, lockVars, txn>>

--------------------------------------------------------------------------------
AcceptStep(r) == GuardActive(r) \/ InsertQuest(r) \/ RefuseAccept(r)

RecordStep(r) ==
    \/ LockCharacter(r) \/ Scan(r) \/ CountWhereDocked(r)
    \/ \E o \in Requests : LockQuest(r, o) \/ ApplyEvent(r, o)

RewardStep(r) ==
    \/ \E o \in Requests : FindReady(r, o)
    \/ RefuseTurnIn(r) \/ Complete(r) \/ Grant(r) \/ RefuseGrant(r) \/ Pay(r)

SellStep(r) == ReadBudget(r) \/ TakeGoods(r) \/ RefuseSale(r) \/ RecordGrant(r)

SaveStep(r) ==
    \/ \E o \in Requests : SaveQuest(r, o)
    \/ \E k \in Counters : SaveCounter(r, k) \/ SaveFails(r, k)
    \/ SaveBalance(r) \/ Commit(r)

Next ==
    \/ \E r \in Requests :
          \/ \E c \in Calls : Resolve(r, c)
          \/ AcceptStep(r) \/ RecordStep(r) \/ RewardStep(r) \/ SellStep(r) \/ SaveStep(r)
          \/ DeadlockVictim(r) \/ Disconnect(r)
    \/ Tick

Spec == Init /\ [][Next]_vars

--------------------------------------------------------------------------------
(* No event is lost or counted twice: a row's step and progress are what was *)
(* recorded toward its quest, whatever events, completions and turn-ins meet. *)
(* QuestService.cs:220-221 locks the rows for this.                          *)
ProgressExact == \A o \in DOMAIN quests : IsExact(quests[o], recorded[o])

(* A quest is only under way once its prerequisites have been completed.     *)
PrerequisitesHeld ==
    \A o \in DOMAIN quests : \A q \in QuestDefs[quests[o].quest].prerequisite :
        RowsOf(quests[o].char, q, "Completed") # {}

StateRank == [InProgress |-> 1, ReadyToTurnIn |-> 2, Completed |-> 3]

(* A quest never goes back: no request that read it earlier undoes a step, a *)
(* finish or a completion another has committed.                             *)
QuestsOnlyAdvance ==
    [][\A o \in DOMAIN quests :
          /\ o \in DOMAIN quests'
          /\ StateRank[quests[o].state] <= StateRank[quests'[o].state]
          /\ quests[o].step <= quests'[o].step]_vars

================================================================================
