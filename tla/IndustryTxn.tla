-------------------------------- MODULE IndustryTxn --------------------------------
(****************************************************************************)
(* Manufacturing jobs at a station as concurrent requests                    *)
(* (services/SpaceMMO.Data/Industry/IndustryService.cs), with the stacks of  *)
(* goods they draw on and fill (Inventories/InventoryService.cs).  A start   *)
(* locks the character; a claim and a cancel lock the job; putting goods     *)
(* into storage locks nothing.  A stack and a skill's experience are read,   *)
(* changed in memory and written back.                                       *)
(*                                                                           *)
(* A job is named by the request that starts it, and is a run of a recipe,   *)
(* in one style, that its character has the skill and the tool for.          *)
(****************************************************************************)
EXTENDS Integers, FiniteSets, FiniteSetsExt, Transactions

CONSTANTS Characters,
          Requests,        \* numbered in the order they arrive
          Calls,           \* the calls the requests may make
          Items,
          Stackable,       \* kept as stacks; of the others, each is a row
          Recipes,         \* by name: what a run uses and makes, its time and experience
          DockedHere,      \* the characters docked at the station
          Fee,
          SlotXp,          \* the experience at which a skill gains another slot
          InitialBalance, InitialXp, InitialHangar, InitialPockets,
          MaxClock         \* bound on the clock

Amounts == [Items -> Nat]
RecipeNames == DOMAIN Recipes

StartCall == [op: {"start"}, char: Characters, recipe: RecipeNames]
JobCall == [op: {"claim", "cancel"}, char: Characters, job: Requests]
StoreCall == [op: {"store"}, char: Characters, item: Stackable, quantity: Nat \ {0}]

ASSUME IndustryTxnAssumption ==
    /\ Requests \subseteq Nat \ {0} /\ IsFiniteSet(Requests)
    /\ Calls \subseteq StartCall \cup JobCall \cup StoreCall
    /\ Stackable \subseteq Items /\ DockedHere \subseteq Characters
    /\ \A k \in RecipeNames :
          /\ Recipes[k] \in [uses: Amounts, makes: Amounts, time: Nat \ {0}, xp: Nat]
          /\ \A i \in Items \ Stackable : Recipes[k].uses[i] = 0
    /\ Fee \in Nat /\ MaxClock \in Nat
    /\ SlotXp \subseteq Nat /\ IsFiniteSet(SlotXp)
    /\ InitialBalance \in [Characters -> Nat] /\ InitialXp \in [Characters -> Nat]
    /\ InitialHangar \in [Characters -> Amounts] /\ InitialPockets \in [Characters -> Amounts]

JobStates == {"Running", "Claimed", "Cancelled"}
Job == [char: Characters, recipe: RecipeNames, state: JobStates, started: Nat]

VARIABLES
    balance, xp, hangar, pockets, jobs,  \* committed rows
    returned, settled,                   \* history: each job's refund, how often it ended
    clock,
    charLock, jobLock,
    txn,
    mixed     \* history: characters with two requests at once that share no lock

dbVars == <<balance, xp, hangar, pockets, jobs, returned, settled>>
lockVars == <<charLock, jobLock>>
vars == <<dbVars, clock, lockVars, txn, mixed>>

NoCall == [op |-> "none"]
Nothing == [i \in Items |-> 0]

(* `seenBalance` is of the character the endpoint loaded; the stacks and the  *)
(* experience are as they were when the request first read them.              *)
AtRest(step) ==
    [pc |-> step, call |-> NoCall, seenBalance |-> 0, now |-> 0,
     hangar |-> Nothing, pockets |-> Nothing, xp |-> 0]

Steps == {"idle", "begin", "save", "done"}

TypeOK ==
    /\ balance \in [Characters -> Int] /\ xp \in [Characters -> Nat]
    /\ hangar \in [Characters -> Amounts] /\ pockets \in [Characters -> Amounts]
    /\ IsPartialFn(jobs, Requests, Job)
    /\ returned \in [Requests -> Amounts] /\ settled \in [Requests -> Nat]
    /\ clock \in 0 .. MaxClock
    /\ charLock \in [Characters -> Requests \cup {Nobody}]
    /\ jobLock \in [Requests -> Requests \cup {Nobody}]
    /\ mixed \subseteq Characters
    /\ txn \in [Requests ->
          [pc: Steps, call: Calls \cup {NoCall}, seenBalance: Int, now: Nat,
           hangar: Amounts, pockets: Amounts, xp: Nat]]

Init ==
    /\ balance = InitialBalance /\ xp = InitialXp
    /\ hangar = InitialHangar /\ pockets = InitialPockets
    /\ jobs = EmptyFn
    /\ returned = [j \in Requests |-> Nothing] /\ settled = [j \in Requests |-> 0]
    /\ clock = 0
    /\ charLock = [c \in Characters |-> Nobody]
    /\ jobLock = [j \in Requests |-> Nobody]
    /\ txn = [r \in Requests |-> AtRest("idle")]
    /\ mixed = {}

--------------------------------------------------------------------------------
CharOf(r) == txn[r].call.char
OpOf(r) == txn[r].call.op
JobsOf(c) == {j \in DOMAIN jobs : jobs[j].char = c}
Running(c) == {j \in JobsOf(c) : jobs[j].state = "Running"}
RecipeOf(j) == Recipes[jobs[j].recipe]

Under(c) == {r \in Requests : txn[r].pc \in {"begin", "save"} /\ CharOf(r) = c}

(* Starts wait for the character, claims and cancels of a job for the job.    *)
ShareALock(x, y) ==
    \/ x.op = "start" /\ y.op = "start"
    \/ /\ {x.op, y.op} \subseteq {"claim", "cancel"}
       /\ x.job = y.job

EndRequest(r) ==
    /\ txn' = [txn EXCEPT ![r] = AtRest("done")]
    /\ charLock' = Released(charLock, r)
    /\ jobLock' = Released(jobLock, r)
    /\ UNCHANGED <<clock, mixed>>

Rollback(r) == EndRequest(r) /\ UNCHANGED dbVars

(* The endpoint loads the caller's character, which the context tracks.       *)
Resolve(r, c) ==
    /\ txn[r].pc = "idle"
    /\ \A s \in Requests : s < r => txn[s].pc # "idle"
    /\ txn' = [txn EXCEPT ![r] = [AtRest("begin") EXCEPT
                                      !.call = c, !.seenBalance = balance[c.char]]]
    /\ mixed' = IF \A s \in Under(c.char) : ShareALock(c, txn[s].call) THEN mixed
                ELSE mixed \cup {c.char}
    /\ UNCHANGED <<dbVars, clock, lockVars>>

(* What the request will change, as it is now.                                *)
ReadRows(r) ==
    LET c == CharOf(r) IN
    [txn EXCEPT ![r].pc = "save", ![r].now = clock, ![r].xp = xp[c],
                ![r].hangar = hangar[c], ![r].pockets = pockets[c]]

--------------------------------------------------------------------------------
(* Writing back.  A change is a function of the stacks that are touched.      *)

Written(rows, before, change) ==
    [i \in Items |->
        IF i \notin DOMAIN change THEN rows[i]
        ELSE (IF i \in Stackable THEN before[i] ELSE rows[i]) + change[i]]

(* A row that is there is not inserted, one that is gone not updated.         *)
Clashes(rows, before, change) ==
    \E i \in DOMAIN change \cap Stackable : (before[i] = 0) # (rows[i] = 0)

SaveFails(r, toHangar, toPockets, earned) ==
    LET c == CharOf(r) IN
    \/ Clashes(hangar[c], txn[r].hangar, toHangar)
    \/ Clashes(pockets[c], txn[r].pockets, toPockets)
    \/ earned > 0 /\ (txn[r].xp = 0) # (xp[c] = 0)

(* Saved and committed; or the database refuses a row, and nothing is.        *)
Save(r, toHangar, toPockets, earned) ==
    LET c == CharOf(r) IN
    /\ ~SaveFails(r, toHangar, toPockets, earned)
    /\ hangar' = [hangar EXCEPT ![c] = Written(@, txn[r].hangar, toHangar)]
    /\ pockets' = [pockets EXCEPT ![c] = Written(@, txn[r].pockets, toPockets)]
    /\ xp' = IF earned > 0 THEN [xp EXCEPT ![c] = txn[r].xp + earned] ELSE xp
    /\ EndRequest(r)

--------------------------------------------------------------------------------
(* StartJobAsync                                                              *)

(* Fault: the character is read without FOR UPDATE.                           *)
CharacterUnlocked(r) == TRUE

CanLockCharacter(r) == Free(charLock, CharOf(r), r)

Slots(experience) == 1 + Cardinality({x \in SlotXp : experience >= x})

(* Fault: the job about to start is not counted.                              *)
AlmostFree(c) == Cardinality(Running(c)) <= Slots(xp[c])

SlotFree(c) == Cardinality(Running(c)) < Slots(xp[c])

UsedBy(r) == Recipes[txn[r].call.recipe].uses

(* What is missing from the hangar comes from the hands of whoever is there.  *)
TopUp(r, inHangar, inPockets, i) ==
    IF CharOf(r) \in DockedHere /\ inHangar[i] < UsedBy(r)[i]
    THEN Min({UsedBy(r)[i] - inHangar[i], inPockets[i]})
    ELSE 0

(* Fault: the stacks are drawn on without counting them.                      *)
NotCounted(r) == TRUE

HasInputs(r) ==
    LET c == CharOf(r) IN
    \A i \in Items : hangar[c][i] + TopUp(r, hangar[c], pockets[c], i) >= UsedBy(r)[i]

CanStart(r) == SlotFree(CharOf(r)) /\ txn[r].seenBalance >= Fee /\ HasInputs(r)

BeginStart(r) ==
    /\ txn[r].pc = "begin" /\ OpOf(r) = "start"
    /\ CanLockCharacter(r)
    /\ CanStart(r)
    /\ charLock' = [charLock EXCEPT ![CharOf(r)] = r]
    /\ txn' = ReadRows(r)
    /\ UNCHANGED <<dbVars, clock, jobLock, mixed>>

RefuseStart(r) ==
    /\ txn[r].pc = "begin" /\ OpOf(r) = "start"
    /\ CanLockCharacter(r)
    /\ ~CanStart(r)
    /\ Rollback(r)

(* Fault: the balance is written as the character's that was loaded.          *)
FromWhatWasSeen(r) == txn[r].seenBalance - Fee

AfterFee(r) == balance[CharOf(r)] - Fee

TopUps(r) == [i \in Items |-> TopUp(r, txn[r].hangar, txn[r].pockets, i)]

Consumed(r) == [i \in {x \in Items : UsedBy(r)[x] > 0} |-> TopUps(r)[i] - UsedBy(r)[i]]
Carried(r) == [i \in {x \in Items : TopUps(r)[x] > 0} |-> -TopUps(r)[i]]

SaveStart(r) ==
    /\ txn[r].pc = "save" /\ OpOf(r) = "start"
    /\ Save(r, Consumed(r), Carried(r), 0)
    /\ jobs' = Put(jobs, r, [char |-> CharOf(r), recipe |-> txn[r].call.recipe,
                             state |-> "Running", started |-> txn[r].now])
    /\ balance' = [balance EXCEPT ![CharOf(r)] = AfterFee(r)]
    /\ UNCHANGED <<returned, settled>>

--------------------------------------------------------------------------------
(* ClaimJobAsync and CancelJobAsync                                          *)

(* Fault: the job is read without FOR UPDATE.                                 *)
JobUnlocked(r) == TRUE

CanLockJob(r) == Free(jobLock, txn[r].call.job, r)

IsRunning(r) == txn[r].call.job \in Running(CharOf(r))

Elapsed(j, now) == now - jobs[j].started

(* The server clock is the only authority.                                    *)
IsDue(r) == Elapsed(txn[r].call.job, clock) >= RecipeOf(txn[r].call.job).time

MayEnd(r) == IsRunning(r) /\ (OpOf(r) = "claim" => IsDue(r))

BeginEnd(r) ==
    /\ txn[r].pc = "begin" /\ OpOf(r) \in {"claim", "cancel"}
    /\ CanLockJob(r)
    /\ MayEnd(r)
    /\ jobLock' = [jobLock EXCEPT ![txn[r].call.job] = r]
    /\ txn' = ReadRows(r)
    /\ UNCHANGED <<dbVars, clock, charLock, mixed>>

RefuseEnd(r) ==
    /\ txn[r].pc = "begin" /\ OpOf(r) \in {"claim", "cancel"}
    /\ CanLockJob(r)
    /\ ~MayEnd(r)
    /\ Rollback(r)

(* IndustryRefund.RefundedQuantity: the share of the time left, to the        *)
(* nearest unit.                                                              *)
RefundedQuantity(consumed, elapsed, total) ==
    LET remaining == Max({0, total - elapsed}) IN
    Min({(2 * consumed * remaining + total) \div (2 * total), consumed})
        * (IF remaining = 0 THEN 0 ELSE 1)

Refund(r) ==
    LET j == txn[r].call.job IN
    [i \in Items |-> RefundedQuantity(RecipeOf(j).uses[i], Elapsed(j, txn[r].now), RecipeOf(j).time)]

(* Of a function of the items, those that are more than none.                 *)
Some(amounts) == [i \in {x \in Items : amounts[x] > 0} |-> amounts[i]]

(* Fault: a job that is cancelled teaches, too.                               *)
EarnedAnyway(r) == RecipeOf(txn[r].call.job).xp

Earned(r) == IF OpOf(r) = "claim" THEN RecipeOf(txn[r].call.job).xp ELSE 0

SettledAs(j, state) ==
    /\ jobs' = [jobs EXCEPT ![j].state = state]
    /\ settled' = [settled EXCEPT ![j] = @ + 1]
    /\ UNCHANGED balance

SaveClaim(r) ==
    /\ txn[r].pc = "save" /\ OpOf(r) = "claim"
    /\ Save(r, Some(RecipeOf(txn[r].call.job).makes), EmptyFn, Earned(r))
    /\ SettledAs(txn[r].call.job, "Claimed")
    /\ UNCHANGED returned

SaveCancel(r) ==
    /\ txn[r].pc = "save" /\ OpOf(r) = "cancel"
    /\ Save(r, Some(Refund(r)), EmptyFn, Earned(r))
    /\ SettledAs(txn[r].call.job, "Cancelled")
    /\ returned' = [returned EXCEPT ![txn[r].call.job] = Refund(r)]

--------------------------------------------------------------------------------
(* TransferAsync, from the pockets into storage.                             *)

Stored(r) == [i \in {txn[r].call.item} |-> txn[r].call.quantity]
Unpacked(r) == [i \in {txn[r].call.item} |-> -txn[r].call.quantity]

MayStore(r) ==
    /\ CharOf(r) \in DockedHere
    /\ pockets[CharOf(r)][txn[r].call.item] >= txn[r].call.quantity

BeginStore(r) ==
    /\ txn[r].pc = "begin" /\ OpOf(r) = "store"
    /\ MayStore(r)
    /\ txn' = ReadRows(r)
    /\ UNCHANGED <<dbVars, clock, lockVars, mixed>>

RefuseStore(r) ==
    /\ txn[r].pc = "begin" /\ OpOf(r) = "store"
    /\ ~MayStore(r)
    /\ Rollback(r)

SaveStore(r) ==
    /\ txn[r].pc = "save" /\ OpOf(r) = "store"
    /\ Save(r, Stored(r), Unpacked(r), 0)
    /\ UNCHANGED <<balance, jobs, returned, settled>>

--------------------------------------------------------------------------------
(* The database refuses what is saved, the caller goes away, or the process   *)
(* dies.                                                                      *)
Abort(r) == txn[r].pc \in {"begin", "save"} /\ Rollback(r)

Tick ==
    /\ clock < MaxClock
    /\ clock' = clock + 1
    /\ UNCHANGED <<dbVars, lockVars, txn, mixed>>

Next ==
    \/ \E r \in Requests :
          \/ \E c \in Calls : Resolve(r, c)
          \/ BeginStart(r) \/ RefuseStart(r) \/ SaveStart(r)
          \/ BeginEnd(r) \/ RefuseEnd(r) \/ SaveClaim(r) \/ SaveCancel(r)
          \/ BeginStore(r) \/ RefuseStore(r) \/ SaveStore(r)
          \/ Abort(r)
    \/ Tick

Spec == Init /\ [][Next]_vars

--------------------------------------------------------------------------------
(* IndustryService.cs:82-90: a job gives what it made or what is left of its  *)
(* inputs, once, however many claims and cancels meet.                        *)
SettledOnce ==
    \A j \in Requests :
        settled[j] = IF j \in DOMAIN jobs /\ jobs[j].state # "Running" THEN 1 ELSE 0

(* IndustryService.cs:740-751: a fee is paid for every job, whatever balance   *)
(* the request had loaded.                                                    *)
FeesAddUp ==
    \A c \in Characters : balance[c] = InitialBalance[c] - Fee * Cardinality(JobsOf(c))

(* Over the jobs of a character: what of an item they took, gave back and     *)
(* made, and the experience they came to.                                     *)
TakenBy(c, i) == SumFunction([j \in JobsOf(c) |-> RecipeOf(j).uses[i]])
GivenBack(c, i) == SumFunction([j \in JobsOf(c) |-> returned[j][i]])
OnceClaimed(j, n) == IF jobs[j].state = "Claimed" THEN n ELSE 0
MadeBy(c, i) == SumFunction([j \in JobsOf(c) |-> OnceClaimed(j, RecipeOf(j).makes[i])])
TaughtBy(c) == SumFunction([j \in JobsOf(c) |-> OnceClaimed(j, RecipeOf(j).xp)])

(* IndustryServiceTests.cs:570, Crafting_ConservesMaterialsExactly: what a    *)
(* character holds is what its jobs took, gave back and made, so long as      *)
(* requests of its own that overlap wait for one another.                     *)
GoodsAddUp ==
    \A c \in Characters \ mixed, i \in Items :
        hangar[c][i] + pockets[c][i] + TakenBy(c, i)
            = InitialHangar[c][i] + InitialPockets[c][i] + GivenBack(c, i) + MadeBy(c, i)

(* IndustryService.cs:86-87: experience comes of jobs claimed, never of jobs   *)
(* begun.                                                                     *)
WorkPaid == \A c \in Characters \ mixed : xp[c] = InitialXp[c] + TaughtBy(c)

(* IndustrySlots: a character never runs more jobs than its skill allows.     *)
SlotsKept == \A c \in Characters \ mixed : Cardinality(Running(c)) <= Slots(xp[c])

================================================================================
