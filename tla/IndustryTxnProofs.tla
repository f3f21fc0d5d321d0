--------------------------- MODULE IndustryTxnProofs ---------------------------
(****************************************************************************)
(* What IndustryTxn's safety properties rest on, proved for every set of     *)
(* characters, requests, recipes, calls and initial stores.                  *)
(*                                                                           *)
(* A request that is about to save holds the row it waited for, so what it   *)
(* decided under that lock still stands (Prepared).  Requests of a character *)
(* that share locks go one after another (InTurn), and so each has read what *)
(* is there (UpToDate): that is what slots, goods and experience rest on.    *)
(****************************************************************************)
EXTENDS IndustryTxn, TransactionsProofs

Busy(t) == t.pc \in {"begin", "save"}
Ends(t) == t.call.op \in {"claim", "cancel"}

(* A request under way makes one of the calls; one that has read what it will *)
(* change holds the row it waited for, and what it decided on still stands.   *)
CallsMade == \A r \in Requests : Busy(txn[r]) => txn[r].call \in Calls

Holds(r) ==
    /\ OpOf(r) = "start" => charLock[CharOf(r)] = r
    /\ Ends(txn[r]) => jobLock[txn[r].call.job] = r

Decided(r) ==
    /\ OpOf(r) = "start" =>
          \A i \in Items :
              txn[r].hangar[i] + TopUp(r, txn[r].hangar, txn[r].pockets, i) >= UsedBy(r)[i]
    /\ Ends(txn[r]) => IsRunning(r)
    /\ OpOf(r) = "store" => txn[r].pockets[txn[r].call.item] >= txn[r].call.quantity

Prepared == \A r \in Requests : txn[r].pc = "save" => Holds(r) /\ Decided(r)

(* The job a request starts is there only once the request has ended.         *)
NotYetStarted == \A r \in Requests : txn[r].pc # "done" => r \notin DOMAIN jobs

Control == TypeOK /\ CallsMade /\ Prepared /\ NotYetStarted

OnlyCancelledGiveBack ==
    \A j \in Requests :
        returned[j] # Nothing => j \in DOMAIN jobs /\ jobs[j].state = "Cancelled"

(* Requests of a character that has not mixed them wait for one another, and  *)
(* so what one of them has read is as it is.                                  *)
InTurn ==
    \A c \in Characters \ mixed : \A r, s \in Under(c) :
        r # s => ShareALock(txn[r].call, txn[s].call)

Current(r) ==
    /\ txn[r].xp = xp[CharOf(r)]
    /\ txn[r].hangar = hangar[CharOf(r)]
    /\ txn[r].pockets = pockets[CharOf(r)]
    /\ \A c \in Characters : OpOf(r) = "start" /\ c = CharOf(r) => SlotFree(c)

UpToDate == \A r \in Requests : txn[r].pc = "save" /\ CharOf(r) \notin mixed => Current(r)

--------------------------------------------------------------------------------
LEMMA ConstantsTyped ==
    /\ Requests \subseteq Nat \ {0} /\ IsFiniteSet(Requests)
    /\ Stackable \subseteq Items
    /\ Fee \in Nat /\ MaxClock \in Nat
    /\ \A k \in RecipeNames :
          /\ Recipes[k].uses \in Amounts /\ Recipes[k].makes \in Amounts
          /\ Recipes[k].time \in Nat \ {0} /\ Recipes[k].xp \in Nat
          /\ \A i \in Items \ Stackable : Recipes[k].uses[i] = 0
BY IndustryTxnAssumption

LEMMA CallsTyped ==
    ASSUME NEW c \in Calls
    PROVE  /\ c.char \in Characters
           /\ c.op \in {"start", "claim", "cancel", "store"}
           /\ c.op = "start" => c.recipe \in RecipeNames
           /\ c.op \in {"claim", "cancel"} => c.job \in Requests
           /\ c.op = "store" => c.item \in Stackable /\ c.quantity \in Nat \ {0}
<1>1. c \in StartCall \cup JobCall \cup StoreCall
  BY IndustryTxnAssumption
<1>2. CASE c \in StartCall
  BY <1>2 DEF StartCall
<1>3. CASE c \in JobCall
  BY <1>3 DEF JobCall
<1>4. CASE c \in StoreCall
  BY <1>4 DEF StoreCall
<1> QED BY <1>1, <1>2, <1>3, <1>4

LEMMA MinOfTwo ==
    ASSUME NEW a \in Int, NEW b \in Int
    PROVE  Min({a, b}) = IF a <= b THEN a ELSE b
<1>1. \E x \in {a, b} : \A y \in {a, b} : x <= y
  OBVIOUS
<1>2. Min({a, b}) \in {a, b} /\ \A y \in {a, b} : Min({a, b}) <= y
  BY <1>1 DEF Min
<1> QED BY <1>2

LEMMA MaxOfTwo ==
    ASSUME NEW a \in Int, NEW b \in Int
    PROVE  Max({a, b}) = IF a >= b THEN a ELSE b
<1>1. \E x \in {a, b} : \A y \in {a, b} : x >= y
  OBVIOUS
<1>2. Max({a, b}) \in {a, b} /\ \A y \in {a, b} : Max({a, b}) >= y
  BY <1>1 DEF Max
<1> QED BY <1>2

(* Whoever cancels gets back some of each input, and never more than it took. *)
LEMMA RefundBounded ==
    ASSUME NEW consumed \in Nat, NEW elapsed \in Int, NEW total \in Nat \ {0}
    PROVE  RefundedQuantity(consumed, elapsed, total) \in 0 .. consumed
<1> DEFINE remaining == Max({0, total - elapsed})
           share == (2 * consumed * remaining + total) \div (2 * total)
<1>1. remaining \in Nat
  <2>1. 0 \in Int /\ total - elapsed \in Int
    OBVIOUS
  <2> QED BY <2>1, MaxOfTwo
<1>2. share \in Nat
  <2> HIDE DEF remaining
  <2>1. 2 * consumed \in Nat
    OBVIOUS
  <2>2. 2 * consumed * remaining \in Nat
    BY <1>1, <2>1, ProductNat
  <2>3. 2 * consumed * remaining + total \in Nat /\ 2 * total \in Nat \ {0}
    BY <2>2
  <2>4. 0 * (2 * total) <= 2 * consumed * remaining + total
    BY <2>3
  <2> QED BY <2>3, <2>4, DivisionBound
<1>3. Min({share, consumed}) \in 0 .. consumed
  <2> HIDE DEF share
  <2> QED BY <1>2, MinOfTwo
<1>4. RefundedQuantity(consumed, elapsed, total)
          = Min({share, consumed}) * (IF remaining = 0 THEN 0 ELSE 1)
  BY DEF RefundedQuantity
<1> HIDE DEF remaining, share
<1> QED BY <1>3, <1>4

(* What a hand adds to a hangar is what is missing, as far as it goes.        *)
LEMMA TopUpBounded ==
    ASSUME NEW r, NEW inHangar \in Amounts, NEW inPockets \in Amounts, NEW i \in Items,
           UsedBy(r) \in Amounts
    PROVE  /\ TopUp(r, inHangar, inPockets, i) \in 0 .. inPockets[i]
           /\ TopUp(r, inHangar, inPockets, i) \in 0 .. UsedBy(r)[i]
<1>1. UsedBy(r)[i] \in Nat /\ inHangar[i] \in Nat /\ inPockets[i] \in Nat
  BY DEF Amounts
<1> DEFINE missing == UsedBy(r)[i] - inHangar[i]
<1>2. missing \in Int
  BY <1>1
<1>3. Min({missing, inPockets[i]}) = IF missing <= inPockets[i] THEN missing ELSE inPockets[i]
  BY <1>1, <1>2, MinOfTwo
<1> QED BY <1>1, <1>3 DEF TopUp

LEMMA WrittenAmounts ==
    ASSUME NEW rows \in Amounts, NEW before \in Amounts, NEW change,
           \A i \in DOMAIN change \cap Items :
               /\ change[i] \in Int
               /\ (IF i \in Stackable THEN before[i] ELSE rows[i]) + change[i] >= 0
    PROVE  Written(rows, before, change) \in Amounts
<1>1. \A i \in Items : rows[i] \in Nat /\ before[i] \in Nat
  BY DEF Amounts
<1>2. \A i \in Items : Written(rows, before, change)[i] \in Nat
  BY <1>1 DEF Written
<1> QED BY <1>2 DEF Written, Amounts

--------------------------------------------------------------------------------
(* Ending a request                                                           *)

LEMMA EndsOne ==
    ASSUME TypeOK, CallsMade, NEW r \in Requests, EndRequest(r)
    PROVE  /\ txn' \in [Requests -> [pc: Steps, call: Calls \cup {NoCall}, seenBalance: Int,
                                     now: Nat, hangar: Amounts, pockets: Amounts, xp: Nat]]
           /\ charLock' \in [Characters -> Requests \cup {Nobody}]
           /\ jobLock' \in [Requests -> Requests \cup {Nobody}]
           /\ CallsMade'
           /\ txn'[r].pc = "done"
           /\ \A s \in Requests : s # r => txn'[s] = txn[s]
           /\ \A x \in Characters, s \in Requests : s # r /\ charLock[x] = s => charLock'[x] = s
           /\ \A x \in Requests, s \in Requests : s # r /\ jobLock[x] = s => jobLock'[x] = s
           /\ clock' = clock /\ mixed' = mixed
<1>1. txn' = [txn EXCEPT ![r] = AtRest("done")]
  BY DEF EndRequest
<1>2. AtRest("done") \in [pc: Steps, call: Calls \cup {NoCall}, seenBalance: Int,
                          now: Nat, hangar: Amounts, pockets: Amounts, xp: Nat]
  BY DEF AtRest, Steps, Nothing, Amounts
<1>3. txn \in [Requests -> [pc: Steps, call: Calls \cup {NoCall}, seenBalance: Int,
                            now: Nat, hangar: Amounts, pockets: Amounts, xp: Nat]]
  BY DEF TypeOK
<1>4. txn' \in [Requests -> [pc: Steps, call: Calls \cup {NoCall}, seenBalance: Int,
                             now: Nat, hangar: Amounts, pockets: Amounts, xp: Nat]]
  BY <1>1, <1>2, <1>3
<1>5. txn'[r].pc = "done" /\ \A s \in Requests : s # r => txn'[s] = txn[s]
  BY <1>1, <1>3 DEF AtRest
<1>6. CallsMade'
  BY <1>5 DEF CallsMade, Busy
<1>7. /\ charLock' \in [Characters -> Requests \cup {Nobody}]
      /\ \A x \in Characters, s \in Requests : s # r /\ charLock[x] = s => charLock'[x] = s
  <2>1. charLock \in [Characters -> Requests \cup {Nobody}]
    BY DEF TypeOK
  <2>2. charLock' = Released(charLock, r)
    BY DEF EndRequest
  <2> QED BY <2>1, <2>2, ReleasedRows
<1>8. /\ jobLock' \in [Requests -> Requests \cup {Nobody}]
      /\ \A x \in Requests, s \in Requests : s # r /\ jobLock[x] = s => jobLock'[x] = s
  <2>1. jobLock \in [Requests -> Requests \cup {Nobody}]
    BY DEF TypeOK
  <2>2. jobLock' = Released(jobLock, r)
    BY DEF EndRequest
  <2> QED BY <2>1, <2>2, ReleasedRows
<1> QED BY <1>4, <1>5, <1>6, <1>7, <1>8 DEF EndRequest


(* What a request that ends leaves to the others: their locks, and what they  *)
(* decided on so long as none of the jobs they end is touched.                *)
LEMMA EndingPrepares ==
    ASSUME TypeOK, CallsMade, Prepared, NEW r \in Requests, EndRequest(r),
           \A s \in Requests :
               /\ s # r /\ txn[s].pc = "save" /\ Ends(txn[s])
               /\ txn[s].call.job \in DOMAIN jobs
               => /\ txn[s].call.job \in DOMAIN jobs'
                  /\ jobs'[txn[s].call.job] = jobs[txn[s].call.job]
    PROVE  Prepared'
<1> SUFFICES ASSUME NEW s \in Requests, txn'[s].pc = "save"
             PROVE  Holds(s)' /\ Decided(s)'
  BY DEF Prepared
<1>1. s # r /\ txn'[s] = txn[s] /\ txn[s].pc = "save" /\ Holds(s) /\ Decided(s)
  BY EndsOne DEF Prepared
<1>2. txn[s].call \in Calls
  BY <1>1 DEF CallsMade, Busy
<1>3. Holds(s)'
  BY <1>1, <1>2, CallsTyped, EndsOne DEF Holds, OpOf, CharOf, Ends
<1>4. Decided(s)'
  <2>1. Ends(txn[s]) => IsRunning(s)'
    BY <1>1, <1>2, CallsTyped DEF Decided, IsRunning, Running, JobsOf, CharOf
  <2> QED BY <1>1, <2>1 DEF Decided, OpOf, CharOf, Ends, TopUp, UsedBy
<1> QED BY <1>3, <1>4

LEMMA RollbackControl ==
    ASSUME Control, NEW r \in Requests, Rollback(r)
    PROVE  Control'
<1>1. EndRequest(r) /\ UNCHANGED dbVars /\ TypeOK /\ CallsMade /\ Prepared /\ NotYetStarted
  BY DEF Rollback, Control
<1>2. TypeOK'
  BY <1>1, EndsOne DEF TypeOK, dbVars
<1>3. Prepared'
  BY <1>1, EndingPrepares DEF dbVars
<1>4. NotYetStarted'
  BY <1>1, EndsOne DEF NotYetStarted, dbVars
<1> QED BY <1>1, <1>2, <1>3, <1>4, EndsOne DEF Control

(* What is saved is an amount of each item, where none is overdrawn.         *)
LEMMA SaveTyped ==
    ASSUME TypeOK, NEW r \in Requests, CharOf(r) \in Characters,
           NEW toHangar, NEW toPockets, NEW earned \in Nat,
           Save(r, toHangar, toPockets, earned),
           \A i \in DOMAIN toHangar \cap Items :
               /\ toHangar[i] \in Int
               /\ (IF i \in Stackable THEN txn[r].hangar[i] ELSE hangar[CharOf(r)][i])
                      + toHangar[i] >= 0,
           \A i \in DOMAIN toPockets \cap Items :
               /\ toPockets[i] \in Int
               /\ (IF i \in Stackable THEN txn[r].pockets[i] ELSE pockets[CharOf(r)][i])
                      + toPockets[i] >= 0
    PROVE  /\ hangar' \in [Characters -> Amounts]
           /\ pockets' \in [Characters -> Amounts]
           /\ xp' \in [Characters -> Nat]
           /\ EndRequest(r)
<1> DEFINE c == CharOf(r)
<1>1. /\ hangar \in [Characters -> Amounts] /\ pockets \in [Characters -> Amounts]
      /\ xp \in [Characters -> Nat]
      /\ txn[r].hangar \in Amounts /\ txn[r].pockets \in Amounts /\ txn[r].xp \in Nat
  BY DEF TypeOK
<1>2. Written(hangar[c], txn[r].hangar, toHangar) \in Amounts
  BY <1>1, WrittenAmounts
<1>3. Written(pockets[c], txn[r].pockets, toPockets) \in Amounts
  BY <1>1, WrittenAmounts
<1>4. /\ hangar' = [hangar EXCEPT ![c] = Written(hangar[c], txn[r].hangar, toHangar)]
      /\ pockets' = [pockets EXCEPT ![c] = Written(pockets[c], txn[r].pockets, toPockets)]
      /\ xp' = IF earned > 0 THEN [xp EXCEPT ![c] = txn[r].xp + earned] ELSE xp
      /\ EndRequest(r)
  BY DEF Save
<1>5. hangar' \in [Characters -> Amounts] /\ pockets' \in [Characters -> Amounts]
  BY <1>1, <1>2, <1>3, <1>4
<1>6. xp' \in [Characters -> Nat]
  BY <1>1, <1>4
<1> QED BY <1>4, <1>5, <1>6

(* A request that reads its rows waits for no other: what others hold and     *)
(* have decided on stays.                                                     *)
LEMMA ReadingKeeps ==
    ASSUME TypeOK, CallsMade, NEW r \in Requests, txn[r].pc = "begin", txn' = ReadRows(r),
           UNCHANGED <<clock, mixed>>
    PROVE  /\ txn' \in [Requests -> [pc: Steps, call: Calls \cup {NoCall}, seenBalance: Int,
                                     now: Nat, hangar: Amounts, pockets: Amounts, xp: Nat]]
           /\ CallsMade'
           /\ txn'[r].pc = "save" /\ txn'[r].call = txn[r].call
           /\ txn'[r].hangar = hangar[CharOf(r)] /\ txn'[r].pockets = pockets[CharOf(r)]
           /\ txn'[r].xp = xp[CharOf(r)] /\ txn'[r].now = clock
           /\ \A s \in Requests : s # r => txn'[s] = txn[s]
<1> DEFINE t == [txn[r] EXCEPT !.pc = "save", !.now = clock, !.xp = xp[CharOf(r)],
                               !.hangar = hangar[CharOf(r)], !.pockets = pockets[CharOf(r)]]
<1>1. txn' = [txn EXCEPT ![r] = t]
  BY DEF ReadRows
<1>2. txn[r].call \in Calls /\ CharOf(r) \in Characters
  BY CallsTyped DEF CallsMade, Busy, CharOf
<1>3. /\ txn \in [Requests -> [pc: Steps, call: Calls \cup {NoCall}, seenBalance: Int,
                               now: Nat, hangar: Amounts, pockets: Amounts, xp: Nat]]
      /\ clock \in Nat /\ hangar[CharOf(r)] \in Amounts /\ pockets[CharOf(r)] \in Amounts
      /\ xp[CharOf(r)] \in Nat
  BY <1>2, ConstantsTyped DEF TypeOK
<1>4. t \in [pc: Steps, call: Calls \cup {NoCall}, seenBalance: Int,
             now: Nat, hangar: Amounts, pockets: Amounts, xp: Nat]
  BY <1>3 DEF Steps
<1>5. /\ t.pc = "save" /\ t.call = txn[r].call /\ t.hangar = hangar[CharOf(r)]
      /\ t.pockets = pockets[CharOf(r)] /\ t.xp = xp[CharOf(r)] /\ t.now = clock
  BY <1>3
<1> HIDE DEF t
<1>6. txn' \in [Requests -> [pc: Steps, call: Calls \cup {NoCall}, seenBalance: Int,
                             now: Nat, hangar: Amounts, pockets: Amounts, xp: Nat]]
  BY <1>1, <1>3, <1>4
<1>7. txn'[r] = t /\ \A s \in Requests : s # r => txn'[s] = txn[s]
  BY <1>1, <1>3
<1>8. CallsMade'
  BY <1>2, <1>5, <1>7 DEF CallsMade, Busy
<1> QED BY <1>5, <1>6, <1>7, <1>8

LEMMA OthersPrepared ==
    ASSUME CallsMade, Prepared, NEW r \in Requests, NEW s \in Requests, s # r,
           txn[s].pc = "save", txn'[s] = txn[s], UNCHANGED jobs,
           \A x \in Characters : charLock[x] = s => charLock'[x] = s,
           \A x \in Requests : jobLock[x] = s => jobLock'[x] = s
    PROVE  Holds(s)' /\ Decided(s)'
<1>1. Holds(s) /\ Decided(s)
  BY DEF Prepared
<1>2. txn[s].call \in Calls
  BY DEF CallsMade, Busy
<1>3. Holds(s)'
  BY <1>1, <1>2, CallsTyped DEF Holds, OpOf, CharOf, Ends
<1>4. Ends(txn[s]) => IsRunning(s)'
  BY <1>1, <1>2, CallsTyped DEF Decided, IsRunning, Running, JobsOf, CharOf
<1>5. Decided(s)'
  BY <1>1, <1>4 DEF Decided, OpOf, CharOf, Ends, TopUp, UsedBy
<1> QED BY <1>3, <1>5

LEMMA ResolveControl ==
    ASSUME Control, NEW r \in Requests, NEW c \in Calls, Resolve(r, c)
    PROVE  Control'
<1> DEFINE t == [AtRest("begin") EXCEPT !.call = c, !.seenBalance = balance[c.char]]
<1>1. /\ TypeOK /\ CallsMade /\ Prepared /\ NotYetStarted
      /\ txn[r].pc = "idle" /\ txn' = [txn EXCEPT ![r] = t]
      /\ mixed' \subseteq mixed \cup {c.char}
      /\ UNCHANGED <<dbVars, clock, lockVars>>
  BY DEF Control, Resolve
<1>2. c.char \in Characters
  BY CallsTyped
<1>3. /\ txn \in [Requests -> [pc: Steps, call: Calls \cup {NoCall}, seenBalance: Int,
                               now: Nat, hangar: Amounts, pockets: Amounts, xp: Nat]]
      /\ balance[c.char] \in Int
  BY <1>1, <1>2 DEF TypeOK
<1>4. /\ t \in [pc: Steps, call: Calls \cup {NoCall}, seenBalance: Int,
                now: Nat, hangar: Amounts, pockets: Amounts, xp: Nat]
      /\ t.pc = "begin" /\ t.call = c
  BY <1>3 DEF AtRest, Steps, Nothing, Amounts
<1> HIDE DEF t
<1>5. /\ txn' \in [Requests -> [pc: Steps, call: Calls \cup {NoCall}, seenBalance: Int,
                                now: Nat, hangar: Amounts, pockets: Amounts, xp: Nat]]
      /\ txn'[r] = t /\ \A s \in Requests : s # r => txn'[s] = txn[s]
  BY <1>1, <1>3, <1>4
<1>6. TypeOK'
  BY <1>1, <1>2, <1>5 DEF TypeOK, dbVars, lockVars
<1>7. CallsMade'
  BY <1>1, <1>4, <1>5 DEF CallsMade, Busy
<1>8. Prepared'
  <2> SUFFICES ASSUME NEW s \in Requests, txn'[s].pc = "save" PROVE Holds(s)' /\ Decided(s)'
    BY DEF Prepared
  <2>1. s # r /\ txn[s].pc = "save" /\ txn'[s] = txn[s]
    BY <1>4, <1>5
  <2> QED BY <1>1, <2>1, OthersPrepared DEF dbVars, lockVars
<1>9. NotYetStarted'
  BY <1>1, <1>4, <1>5 DEF NotYetStarted, dbVars
<1> QED BY <1>6, <1>7, <1>8, <1>9 DEF Control

(* A start decides under the lock of its character.                          *)
LEMMA BeginStartControl ==
    ASSUME Control, NEW r \in Requests, BeginStart(r)
    PROVE  Control'
<1>1. /\ TypeOK /\ CallsMade /\ Prepared /\ NotYetStarted
      /\ txn[r].pc = "begin" /\ OpOf(r) = "start" /\ CanLockCharacter(r) /\ CanStart(r)
      /\ charLock' = [charLock EXCEPT ![CharOf(r)] = r] /\ txn' = ReadRows(r)
      /\ UNCHANGED <<dbVars, clock, jobLock, mixed>>
  BY DEF Control, BeginStart
<1>2. txn[r].call \in Calls /\ CharOf(r) \in Characters
  BY <1>1, CallsTyped DEF CallsMade, Busy, CharOf
<1>3. /\ charLock' \in [Characters -> Requests \cup {Nobody}]
      /\ charLock'[CharOf(r)] = r
      /\ \A x \in Characters, s \in Requests : s # r /\ charLock[x] = s => charLock'[x] = s
  BY <1>1, <1>2, ConstantsTyped DEF TypeOK, CanLockCharacter, Free, Nobody
<1>4. TypeOK'
  BY <1>1, <1>3, ReadingKeeps DEF TypeOK, dbVars
<1>5. Prepared'
  <2> SUFFICES ASSUME NEW s \in Requests, txn'[s].pc = "save" PROVE Holds(s)' /\ Decided(s)'
    BY DEF Prepared
  <2>1. CASE s # r
    <3>1. txn[s].pc = "save" /\ txn'[s] = txn[s]
      BY <1>1, <2>1, ReadingKeeps
    <3> QED BY <1>1, <1>3, <2>1, <3>1, OthersPrepared DEF dbVars
  <2>2. CASE s = r
    <3>1. /\ txn'[r].call = txn[r].call /\ txn'[r].hangar = hangar[CharOf(r)]
          /\ txn'[r].pockets = pockets[CharOf(r)]
      BY <1>1, ReadingKeeps
    <3>2. Holds(r)'
      BY <1>1, <1>3, <3>1 DEF Holds, OpOf, CharOf, Ends
    <3>3. \A i \in Items :
             hangar[CharOf(r)][i] + TopUp(r, hangar[CharOf(r)], pockets[CharOf(r)], i)
                 >= UsedBy(r)[i]
      BY <1>1 DEF CanStart, HasInputs
    <3>4. Decided(r)'
      BY <1>1, <3>1, <3>3 DEF Decided, OpOf, CharOf, Ends, TopUp, UsedBy
    <3> QED BY <2>2, <3>2, <3>4
  <2> QED BY <2>1, <2>2
<1>6. NotYetStarted'
  BY <1>1, ReadingKeeps DEF NotYetStarted, dbVars
<1> QED BY <1>1, <1>4, <1>5, <1>6, ReadingKeeps DEF Control

(* A claim or a cancel decides under the lock of its job.                     *)
LEMMA BeginEndControl ==
    ASSUME Control, NEW r \in Requests, BeginEnd(r)
    PROVE  Control'
<1>1. /\ TypeOK /\ CallsMade /\ Prepared /\ NotYetStarted
      /\ txn[r].pc = "begin" /\ Ends(txn[r]) /\ CanLockJob(r) /\ MayEnd(r)
      /\ jobLock' = [jobLock EXCEPT ![txn[r].call.job] = r] /\ txn' = ReadRows(r)
      /\ UNCHANGED <<dbVars, clock, charLock, mixed>>
  BY DEF Control, BeginEnd, Ends, OpOf
<1>2. txn[r].call \in Calls /\ txn[r].call.job \in Requests
  BY <1>1, CallsTyped DEF CallsMade, Busy, Ends
<1>3. /\ jobLock' \in [Requests -> Requests \cup {Nobody}]
      /\ jobLock'[txn[r].call.job] = r
      /\ \A x \in Requests, s \in Requests : s # r /\ jobLock[x] = s => jobLock'[x] = s
  BY <1>1, <1>2, ConstantsTyped DEF TypeOK, CanLockJob, Free, Nobody
<1>4. TypeOK'
  BY <1>1, <1>3, ReadingKeeps DEF TypeOK, dbVars
<1>5. Prepared'
  <2> SUFFICES ASSUME NEW s \in Requests, txn'[s].pc = "save" PROVE Holds(s)' /\ Decided(s)'
    BY DEF Prepared
  <2>1. CASE s # r
    <3>1. txn[s].pc = "save" /\ txn'[s] = txn[s]
      BY <1>1, <2>1, ReadingKeeps
    <3> QED BY <1>1, <1>3, <2>1, <3>1, OthersPrepared DEF dbVars
  <2>2. CASE s = r
    <3>1. txn'[r].call = txn[r].call
      BY <1>1, ReadingKeeps
    <3>2. Holds(r)'
      BY <1>1, <1>3, <3>1 DEF Holds, OpOf, CharOf, Ends
    <3>3. IsRunning(r)'
      BY <1>1, <3>1 DEF MayEnd, IsRunning, Running, JobsOf, CharOf, dbVars
    <3>4. Decided(r)'
      BY <1>1, <3>1, <3>3 DEF Decided, OpOf, Ends
    <3> QED BY <2>2, <3>2, <3>4
  <2> QED BY <2>1, <2>2
<1>6. NotYetStarted'
  BY <1>1, ReadingKeeps DEF NotYetStarted, dbVars
<1> QED BY <1>1, <1>4, <1>5, <1>6, ReadingKeeps DEF Control

LEMMA BeginStoreControl ==
    ASSUME Control, NEW r \in Requests, BeginStore(r)
    PROVE  Control'
<1>1. /\ TypeOK /\ CallsMade /\ Prepared /\ NotYetStarted
      /\ txn[r].pc = "begin" /\ OpOf(r) = "store" /\ MayStore(r) /\ txn' = ReadRows(r)
      /\ UNCHANGED <<dbVars, clock, lockVars, mixed>>
  BY DEF Control, BeginStore
<1>2. TypeOK'
  BY <1>1, ReadingKeeps DEF TypeOK, dbVars, lockVars
<1>3. Prepared'
  <2> SUFFICES ASSUME NEW s \in Requests, txn'[s].pc = "save" PROVE Holds(s)' /\ Decided(s)'
    BY DEF Prepared
  <2>1. CASE s # r
    <3>1. txn[s].pc = "save" /\ txn'[s] = txn[s]
      BY <1>1, <2>1, ReadingKeeps
    <3> QED BY <1>1, <2>1, <3>1, OthersPrepared DEF dbVars, lockVars
  <2>2. CASE s = r
    <3>1. txn'[r].call = txn[r].call /\ txn'[r].pockets = pockets[CharOf(r)]
      BY <1>1, ReadingKeeps
    <3> QED BY <1>1, <2>2, <3>1 DEF MayStore, Holds, Decided, OpOf, CharOf, Ends
  <2> QED BY <2>1, <2>2
<1>4. NotYetStarted'
  BY <1>1, ReadingKeeps DEF NotYetStarted, dbVars
<1> QED BY <1>1, <1>2, <1>3, <1>4, ReadingKeeps DEF Control

(* What a start takes is there: from the hangar, and from the hands of whoever *)
(* is there.                                                                  *)
LEMMA StartTakes ==
    ASSUME TypeOK, NEW r \in Requests, txn[r].call \in Calls, OpOf(r) = "start", Decided(r)
    PROVE  /\ UsedBy(r) \in Amounts
           /\ \A i \in Items : TopUps(r)[i] \in 0 .. txn[r].pockets[i]
           /\ \A i \in Items : TopUps(r)[i] \in 0 .. UsedBy(r)[i]
           /\ \A i \in Items : txn[r].hangar[i] + TopUps(r)[i] - UsedBy(r)[i] >= 0
           /\ \A i \in Items \ Stackable : UsedBy(r)[i] = 0
<1>1. txn[r].call.recipe \in RecipeNames
  BY CallsTyped DEF OpOf
<1>2. UsedBy(r) \in Amounts /\ \A i \in Items \ Stackable : UsedBy(r)[i] = 0
  BY <1>1, ConstantsTyped DEF UsedBy
<1>3. txn[r].hangar \in Amounts /\ txn[r].pockets \in Amounts
  BY DEF TypeOK
<1>4. ASSUME NEW i \in Items
      PROVE  /\ TopUps(r)[i] = TopUp(r, txn[r].hangar, txn[r].pockets, i)
             /\ UsedBy(r)[i] \in Nat /\ txn[r].hangar[i] \in Nat
             /\ txn[r].hangar[i] + TopUp(r, txn[r].hangar, txn[r].pockets, i) >= UsedBy(r)[i]
             /\ TopUp(r, txn[r].hangar, txn[r].pockets, i) \in 0 .. txn[r].pockets[i]
             /\ TopUp(r, txn[r].hangar, txn[r].pockets, i) \in 0 .. UsedBy(r)[i]
  <2>1. TopUps(r)[i] = TopUp(r, txn[r].hangar, txn[r].pockets, i)
    BY DEF TopUps
  <2>2. UsedBy(r)[i] \in Nat /\ txn[r].hangar[i] \in Nat
    BY <1>2, <1>3 DEF Amounts
  <2>3. txn[r].hangar[i] + TopUp(r, txn[r].hangar, txn[r].pockets, i) >= UsedBy(r)[i]
    BY DEF Decided
  <2> QED BY <1>2, <1>3, <2>1, <2>2, <2>3, TopUpBounded
<1>5. \A i \in Items : TopUps(r)[i] \in 0 .. txn[r].pockets[i]
  BY <1>4
<1>6. \A i \in Items : TopUps(r)[i] \in 0 .. UsedBy(r)[i]
  BY <1>4
<1>7. \A i \in Items : txn[r].hangar[i] + TopUps(r)[i] - UsedBy(r)[i] >= 0
  BY <1>4
<1> QED BY <1>2, <1>5, <1>6, <1>7

LEMMA SaveStartControl ==
    ASSUME Control, NEW r \in Requests, SaveStart(r)
    PROVE  Control'
<1>1. /\ TypeOK /\ CallsMade /\ Prepared /\ NotYetStarted
      /\ txn[r].pc = "save" /\ OpOf(r) = "start" /\ Save(r, Consumed(r), Carried(r), 0)
      /\ jobs' = Put(jobs, r, [char |-> CharOf(r), recipe |-> txn[r].call.recipe,
                               state |-> "Running", started |-> txn[r].now])
      /\ balance' = [balance EXCEPT ![CharOf(r)] = AfterFee(r)]
      /\ UNCHANGED <<returned, settled>>
  BY DEF Control, SaveStart
<1>2. /\ txn[r].call \in Calls /\ CharOf(r) \in Characters
      /\ txn[r].call.recipe \in RecipeNames /\ Decided(r)
  BY <1>1, CallsTyped DEF CallsMade, Busy, CharOf, OpOf, Prepared
<1>3. /\ hangar' \in [Characters -> Amounts] /\ pockets' \in [Characters -> Amounts]
      /\ xp' \in [Characters -> Nat] /\ EndRequest(r)
  <2>1. \A i \in Items : UsedBy(r)[i] \in Nat /\ txn[r].hangar[i] \in Nat /\ txn[r].pockets[i] \in Nat
    BY <1>1, <1>2, StartTakes DEF TypeOK, Amounts
  <2>2. \A i \in DOMAIN Consumed(r) \cap Items :
            /\ Consumed(r)[i] \in Int /\ i \in Stackable
            /\ txn[r].hangar[i] + Consumed(r)[i] >= 0
    BY <1>1, <1>2, <2>1, StartTakes DEF Consumed
  <2>3. \A i \in DOMAIN Carried(r) \cap Items :
            /\ Carried(r)[i] \in Int /\ i \in Stackable
            /\ txn[r].pockets[i] + Carried(r)[i] >= 0
    BY <1>1, <1>2, <2>1, StartTakes DEF Carried
  <2> QED BY <1>1, <1>2, <2>2, <2>3, SaveTyped
<1>4. IsPartialFn(jobs', Requests, Job)
  <2>1. [char |-> CharOf(r), recipe |-> txn[r].call.recipe, state |-> "Running",
         started |-> txn[r].now] \in Job
    BY <1>1, <1>2 DEF Job, JobStates, TypeOK
  <2>2. IsPartialFn(jobs, Requests, Job)
    BY <1>1 DEF TypeOK
  <2> QED BY <1>1, <2>1, <2>2, PutPartial
<1>5. TypeOK'
  <2>1. balance' \in [Characters -> Int]
    BY <1>1, <1>2, ConstantsTyped DEF TypeOK, AfterFee
  <2> QED BY <1>1, <1>3, <1>4, <2>1, EndsOne DEF TypeOK
<1>6. Prepared'
  <2>1. \A s \in Requests : txn[s].call.job \in DOMAIN jobs =>
            /\ txn[s].call.job \in DOMAIN jobs'
            /\ jobs'[txn[s].call.job] = jobs[txn[s].call.job]
    BY <1>1 DEF Put, NotYetStarted
  <2> QED BY <1>1, <1>3, <2>1, EndingPrepares
<1>7. NotYetStarted'
  <2>1. DOMAIN jobs' = DOMAIN jobs \cup {r}
    BY <1>1 DEF Put
  <2> QED BY <1>1, <1>3, <2>1, EndsOne DEF NotYetStarted
<1> QED BY <1>1, <1>3, <1>5, <1>6, <1>7, EndsOne DEF Control

(* A job ends under its lock: whoever else waits to end one, ends another.    *)
LEMMA SettlingControl ==
    ASSUME Control, NEW r \in Requests, txn[r].pc = "save", Ends(txn[r]), EndRequest(r),
           NEW state \in JobStates, SettledAs(txn[r].call.job, state),
           hangar' \in [Characters -> Amounts], pockets' \in [Characters -> Amounts],
           xp' \in [Characters -> Nat], returned' \in [Requests -> Amounts]
    PROVE  Control'
<1> DEFINE j == txn[r].call.job
<1>1. /\ TypeOK /\ CallsMade /\ Prepared /\ NotYetStarted
      /\ jobs' = [jobs EXCEPT ![j].state = state]
      /\ settled' = [settled EXCEPT ![j] = @ + 1] /\ balance' = balance
  BY DEF Control, SettledAs
<1>2. j \in Requests /\ j \in DOMAIN jobs /\ jobLock[j] = r
  BY <1>1, CallsTyped DEF CallsMade, Busy, Ends, Prepared, Holds, Decided, IsRunning, Running, JobsOf
<1>3. /\ IsPartialFn(jobs', Requests, Job)
      /\ DOMAIN jobs' = DOMAIN jobs
      /\ \A k \in DOMAIN jobs : k # j => jobs'[k] = jobs[k]
  <2>1. IsPartialFn(jobs, Requests, Job)
    BY <1>1 DEF TypeOK
  <2>2. jobs[j] \in Job
    BY <1>2, <2>1 DEF IsPartialFn
  <2>3. [jobs[j] EXCEPT !.state = state] \in Job
    BY <2>2 DEF Job
  <2>4. jobs' = [jobs EXCEPT ![j] = [jobs[j] EXCEPT !.state = state]]
    BY <1>1
  <2> QED BY <2>1, <2>3, <2>4 DEF IsPartialFn
<1>4. settled' \in [Requests -> Nat]
  BY <1>1, <1>2 DEF TypeOK
<1>5. TypeOK'
  BY <1>1, <1>3, <1>4, EndsOne DEF TypeOK
<1>6. Prepared'
  <2> SUFFICES ASSUME NEW s \in Requests, s # r, txn[s].pc = "save", Ends(txn[s]),
                      txn[s].call.job \in DOMAIN jobs
               PROVE  /\ txn[s].call.job \in DOMAIN jobs'
                      /\ jobs'[txn[s].call.job] = jobs[txn[s].call.job]
    BY <1>1, EndingPrepares
  <2>1. jobLock[txn[s].call.job] = s
    BY <1>1 DEF Prepared, Holds
  <2> QED BY <1>2, <1>3, <2>1
<1>7. NotYetStarted'
  BY <1>1, <1>3, EndsOne DEF NotYetStarted
<1> QED BY <1>1, <1>5, <1>6, <1>7, EndsOne DEF Control

LEMMA EndedJob ==
    ASSUME Control, NEW r \in Requests, txn[r].pc = "save", Ends(txn[r])
    PROVE  /\ CharOf(r) \in Characters /\ txn[r].call.job \in Requests
           /\ IsRunning(r) /\ txn[r].call.job \in DOMAIN jobs
           /\ jobs[txn[r].call.job] \in Job
           /\ jobs[txn[r].call.job].char = CharOf(r)
           /\ jobs[txn[r].call.job].state = "Running"
           /\ jobLock[txn[r].call.job] = r
           /\ RecipeOf(txn[r].call.job).uses \in Amounts
           /\ RecipeOf(txn[r].call.job).makes \in Amounts
           /\ RecipeOf(txn[r].call.job).time \in Nat \ {0}
           /\ RecipeOf(txn[r].call.job).xp \in Nat
<1>1. txn[r].call \in Calls /\ Holds(r) /\ Decided(r)
  BY DEF Control, CallsMade, Busy, Prepared
<1>2. /\ CharOf(r) \in Characters /\ txn[r].call.job \in Requests
      /\ IsRunning(r) /\ jobLock[txn[r].call.job] = r
  BY <1>1, CallsTyped DEF CharOf, Ends, Holds, Decided
<1>3. /\ txn[r].call.job \in DOMAIN jobs
      /\ jobs[txn[r].call.job].char = CharOf(r)
      /\ jobs[txn[r].call.job].state = "Running"
  BY <1>2 DEF IsRunning, Running, JobsOf
<1>4. jobs[txn[r].call.job] \in Job
  BY <1>3 DEF Control, TypeOK, IsPartialFn
<1>5. jobs[txn[r].call.job].recipe \in RecipeNames
  BY <1>4 DEF Job
<1> QED BY <1>2, <1>3, <1>4, <1>5, ConstantsTyped DEF RecipeOf

LEMMA RefundTyped ==
    ASSUME Control, NEW r \in Requests, txn[r].pc = "save", Ends(txn[r])
    PROVE  Refund(r) \in Amounts
<1> DEFINE j == txn[r].call.job
<1>1. Elapsed(j, txn[r].now) \in Int
  BY EndedJob DEF Elapsed, Job, Control, TypeOK
<1>2. \A i \in Items : Refund(r)[i] \in Nat
  <2> SUFFICES ASSUME NEW i \in Items PROVE Refund(r)[i] \in Nat
    OBVIOUS
  <2>1. Refund(r)[i] = RefundedQuantity(RecipeOf(j).uses[i], Elapsed(j, txn[r].now), RecipeOf(j).time)
    BY DEF Refund
  <2>2. RecipeOf(j).uses[i] \in Nat /\ RecipeOf(j).time \in Nat \ {0}
    BY EndedJob DEF Amounts
  <2> QED BY <1>1, <2>1, <2>2, RefundBounded
<1> QED BY <1>2 DEF Refund, Amounts

(* Storing what a job gives back or has made overdraws nothing.               *)
LEMMA GivingTyped ==
    ASSUME TypeOK, NEW r \in Requests, CharOf(r) \in Characters,
           NEW amounts \in Amounts, NEW earned \in Nat,
           Save(r, Some(amounts), EmptyFn, earned)
    PROVE  /\ hangar' \in [Characters -> Amounts]
           /\ pockets' \in [Characters -> Amounts]
           /\ xp' \in [Characters -> Nat]
           /\ EndRequest(r)
<1>1. \A i \in Items :
          /\ amounts[i] \in Nat /\ txn[r].hangar[i] \in Nat /\ hangar[CharOf(r)][i] \in Nat
  BY DEF TypeOK, Amounts
<1>2. \A i \in DOMAIN Some(amounts) \cap Items :
          /\ Some(amounts)[i] \in Int
          /\ (IF i \in Stackable THEN txn[r].hangar[i] ELSE hangar[CharOf(r)][i])
                 + Some(amounts)[i] >= 0
  BY <1>1 DEF Some
<1>3. DOMAIN EmptyFn = {}
  BY DEF EmptyFn
<1> QED BY <1>2, <1>3, SaveTyped

LEMMA SaveClaimControl ==
    ASSUME Control, NEW r \in Requests, SaveClaim(r)
    PROVE  Control'
<1>1. /\ TypeOK /\ txn[r].pc = "save" /\ Ends(txn[r])
      /\ Save(r, Some(RecipeOf(txn[r].call.job).makes), EmptyFn, Earned(r))
      /\ SettledAs(txn[r].call.job, "Claimed")
      /\ UNCHANGED returned
  BY DEF Control, SaveClaim, Ends, OpOf
<1>2. Earned(r) \in Nat
  BY <1>1, EndedJob DEF Earned
<1>3. /\ hangar' \in [Characters -> Amounts] /\ pockets' \in [Characters -> Amounts]
      /\ xp' \in [Characters -> Nat] /\ EndRequest(r)
  BY <1>1, <1>2, EndedJob, GivingTyped
<1>4. returned' \in [Requests -> Amounts] /\ "Claimed" \in JobStates
  BY <1>1 DEF TypeOK, JobStates
<1> QED BY <1>1, <1>3, <1>4, SettlingControl

LEMMA SaveCancelControl ==
    ASSUME Control, NEW r \in Requests, SaveCancel(r)
    PROVE  Control'
<1>1. /\ TypeOK /\ txn[r].pc = "save" /\ Ends(txn[r])
      /\ Save(r, Some(Refund(r)), EmptyFn, Earned(r))
      /\ SettledAs(txn[r].call.job, "Cancelled")
      /\ returned' = [returned EXCEPT ![txn[r].call.job] = Refund(r)]
  BY DEF Control, SaveCancel, Ends, OpOf
<1>2. Earned(r) \in Nat /\ Refund(r) \in Amounts
  BY <1>1, EndedJob, RefundTyped DEF Earned
<1>3. /\ hangar' \in [Characters -> Amounts] /\ pockets' \in [Characters -> Amounts]
      /\ xp' \in [Characters -> Nat] /\ EndRequest(r)
  BY <1>1, <1>2, EndedJob, GivingTyped
<1>4. returned' \in [Requests -> Amounts] /\ "Cancelled" \in JobStates
  BY <1>1, <1>2 DEF TypeOK, JobStates
<1> QED BY <1>1, <1>3, <1>4, SettlingControl

LEMMA SaveStoreControl ==
    ASSUME Control, NEW r \in Requests, SaveStore(r)
    PROVE  Control'
<1>1. /\ TypeOK /\ CallsMade /\ Prepared /\ NotYetStarted
      /\ txn[r].pc = "save" /\ OpOf(r) = "store" /\ Save(r, Stored(r), Unpacked(r), 0)
      /\ UNCHANGED <<balance, jobs, returned, settled>>
  BY DEF Control, SaveStore
<1> DEFINE i == txn[r].call.item
           n == txn[r].call.quantity
<1>2. /\ CharOf(r) \in Characters /\ i \in Stackable /\ i \in Items /\ n \in Nat
      /\ txn[r].pockets[i] >= n
  BY <1>1, CallsTyped, ConstantsTyped DEF CallsMade, Busy, CharOf, OpOf, Prepared, Decided
<1>3. txn[r].hangar[i] \in Nat /\ txn[r].pockets[i] \in Nat
  BY <1>1, <1>2 DEF TypeOK, Amounts
<1>4. /\ hangar' \in [Characters -> Amounts] /\ pockets' \in [Characters -> Amounts]
      /\ xp' \in [Characters -> Nat] /\ EndRequest(r)
  <2>1. \A x \in DOMAIN Stored(r) \cap Items :
            Stored(r)[x] \in Int /\ x \in Stackable /\ txn[r].hangar[x] + Stored(r)[x] >= 0
    BY <1>2, <1>3 DEF Stored
  <2>2. \A x \in DOMAIN Unpacked(r) \cap Items :
            Unpacked(r)[x] \in Int /\ x \in Stackable /\ txn[r].pockets[x] + Unpacked(r)[x] >= 0
    BY <1>2, <1>3 DEF Unpacked
  <2> QED BY <1>1, <1>2, <2>1, <2>2, SaveTyped
<1>5. TypeOK'
  BY <1>1, <1>4, EndsOne DEF TypeOK
<1>6. Prepared'
  BY <1>1, <1>4, EndingPrepares
<1>7. NotYetStarted'
  BY <1>1, <1>4, EndsOne DEF NotYetStarted
<1> QED BY <1>1, <1>4, <1>5, <1>6, <1>7, EndsOne DEF Control

LEMMA IdleControl ==
    ASSUME Control, UNCHANGED <<dbVars, lockVars, txn, mixed>>, clock' \in 0 .. MaxClock
    PROVE  Control'
<1>1. TypeOK'
  BY DEF Control, TypeOK, dbVars, lockVars
<1>2. \A s \in Requests : Holds(s)' = Holds(s) /\ Decided(s)' = Decided(s)
  BY DEF Holds, Decided, OpOf, CharOf, Ends, TopUp, UsedBy, IsRunning, Running, JobsOf,
         dbVars, lockVars
<1>3. CallsMade' /\ Prepared' /\ NotYetStarted'
  BY <1>2 DEF Control, CallsMade, Prepared, NotYetStarted, dbVars
<1> QED BY <1>1, <1>3 DEF Control

LEMMA InitControl == Init => Control
<1> SUFFICES ASSUME Init PROVE Control
  OBVIOUS
<1>1. AtRest("idle") \in [pc: Steps, call: Calls \cup {NoCall}, seenBalance: Int,
                          now: Nat, hangar: Amounts, pockets: Amounts, xp: Nat]
  BY DEF AtRest, Steps, Nothing, Amounts
<1>2. TypeOK
  BY <1>1, EmptyPartial, IndustryTxnAssumption DEF Init, TypeOK, Amounts, Nothing
<1>3. CallsMade /\ Prepared /\ NotYetStarted
  BY EmptyPartial DEF Init, CallsMade, Busy, Prepared, NotYetStarted, AtRest
<1> QED BY <1>2, <1>3 DEF Control

LEMMA NextControl == Control /\ [Next]_vars => Control'
<1> SUFFICES ASSUME Control, [Next]_vars PROVE Control'
  OBVIOUS
<1>1. CASE UNCHANGED vars
  BY <1>1, IdleControl DEF vars, Control, TypeOK
<1>2. CASE Tick
  <2>1. clock' \in 0 .. MaxClock
    BY <1>2, ConstantsTyped DEF Tick, Control, TypeOK
  <2> QED BY <1>2, <2>1, IdleControl DEF Tick
<1>3. ASSUME NEW r \in Requests,
             RefuseStart(r) \/ RefuseEnd(r) \/ RefuseStore(r) \/ Abort(r)
      PROVE  Control'
  BY <1>3, RollbackControl DEF RefuseStart, RefuseEnd, RefuseStore, Abort
<1> QED
  BY <1>1, <1>2, <1>3, ResolveControl, BeginStartControl, BeginEndControl, BeginStoreControl,
     SaveStartControl, SaveClaimControl, SaveCancelControl, SaveStoreControl DEF Next

(* Stacks and balances keep their types: whatever starts, claims, cancels and *)
(* deliveries interleave, no stack is ever written negative.                  *)
THEOREM TypesKept == Spec => []TypeOK
<1>1. Control => TypeOK
  BY DEF Control
<1> QED BY <1>1, InitControl, NextControl, PTL DEF Spec

--------------------------------------------------------------------------------
(* How the jobs change                                                        *)

LEMMA RowSteps ==
    ASSUME [Next]_vars
    PROVE  \/ UNCHANGED dbVars
           \/ \E r \in Requests : SaveStart(r) \/ SaveClaim(r) \/ SaveCancel(r) \/ SaveStore(r)
<1>1. CASE UNCHANGED vars
  BY <1>1 DEF vars
<1>2. CASE Tick
  BY <1>2 DEF Tick
<1>3. ASSUME NEW r \in Requests, NEW c \in Calls, Resolve(r, c) PROVE UNCHANGED dbVars
  BY <1>3 DEF Resolve
<1>4. ASSUME NEW r \in Requests, BeginStart(r) \/ BeginEnd(r) \/ BeginStore(r)
      PROVE  UNCHANGED dbVars
  BY <1>4 DEF BeginStart, BeginEnd, BeginStore
<1>5. ASSUME NEW r \in Requests,
             RefuseStart(r) \/ RefuseEnd(r) \/ RefuseStore(r) \/ Abort(r)
      PROVE  UNCHANGED dbVars
  BY <1>5 DEF RefuseStart, RefuseEnd, RefuseStore, Abort, Rollback
<1> QED BY <1>1, <1>2, <1>3, <1>4, <1>5 DEF Next

LEMMA JobsFinite ==
    ASSUME TypeOK
    PROVE  /\ DOMAIN jobs \subseteq Requests /\ IsFiniteSet(DOMAIN jobs)
           /\ \A c : IsFiniteSet(JobsOf(c)) /\ IsFiniteSet(Running(c))
           /\ \A j \in DOMAIN jobs : jobs[j] \in Job
<1>1. DOMAIN jobs \subseteq Requests /\ \A j \in DOMAIN jobs : jobs[j] \in Job
  BY DEF TypeOK, IsPartialFn
<1>2. IsFiniteSet(DOMAIN jobs)
  BY <1>1, ConstantsTyped, FS_Subset
<1>3. \A c : JobsOf(c) \subseteq DOMAIN jobs /\ Running(c) \subseteq DOMAIN jobs
  BY DEF JobsOf, Running
<1> QED BY <1>1, <1>2, <1>3, FS_Subset

LEMMA JobStarted ==
    ASSUME Control, NEW r \in Requests, SaveStart(r)
    PROVE  /\ CharOf(r) \in Characters /\ txn[r].call.recipe \in RecipeNames
           /\ r \notin DOMAIN jobs /\ DOMAIN jobs' = DOMAIN jobs \cup {r}
           /\ jobs'[r].char = CharOf(r) /\ jobs'[r].recipe = txn[r].call.recipe
           /\ jobs'[r].state = "Running"
           /\ \A j \in DOMAIN jobs : jobs'[j] = jobs[j]
           /\ \A c : /\ JobsOf(c)' = IF c = CharOf(r) THEN JobsOf(c) \cup {r} ELSE JobsOf(c)
                   /\ Running(c)' = IF c = CharOf(r) THEN Running(c) \cup {r} ELSE Running(c)
           /\ balance' = [balance EXCEPT ![CharOf(r)] = AfterFee(r)]
           /\ UNCHANGED <<returned, settled>>
<1> DEFINE job == [char |-> CharOf(r), recipe |-> txn[r].call.recipe,
                   state |-> "Running", started |-> txn[r].now]
<1>1. /\ txn[r].pc = "save" /\ OpOf(r) = "start" /\ jobs' = Put(jobs, r, job)
      /\ balance' = [balance EXCEPT ![CharOf(r)] = AfterFee(r)]
      /\ UNCHANGED <<returned, settled>>
  BY DEF SaveStart
<1>2. CharOf(r) \in Characters /\ txn[r].call.recipe \in RecipeNames
  BY <1>1, CallsTyped DEF Control, CallsMade, Busy, CharOf, OpOf
<1>3. r \notin DOMAIN jobs
  BY <1>1 DEF Control, NotYetStarted
<1>4. /\ DOMAIN jobs' = DOMAIN jobs \cup {r} /\ jobs'[r] = job
      /\ \A j \in DOMAIN jobs : jobs'[j] = jobs[j]
  BY <1>1, <1>3 DEF Put
<1>5. \A c : /\ JobsOf(c)' = {j \in DOMAIN jobs' : jobs'[j].char = c}
             /\ Running(c)' = {j \in JobsOf(c)' : jobs'[j].state = "Running"}
  BY DEF JobsOf, Running
<1>6. \A c : /\ JobsOf(c) = {j \in DOMAIN jobs : jobs[j].char = c}
             /\ Running(c) = {j \in JobsOf(c) : jobs[j].state = "Running"}
  BY DEF JobsOf, Running
<1>7. ASSUME NEW c
      PROVE  /\ JobsOf(c)' = IF c = CharOf(r) THEN JobsOf(c) \cup {r} ELSE JobsOf(c)
             /\ Running(c)' = IF c = CharOf(r) THEN Running(c) \cup {r} ELSE Running(c)
  <2>1. /\ c = CharOf(r) => JobsOf(c)' = JobsOf(c) \cup {r}
        /\ c # CharOf(r) => JobsOf(c)' = JobsOf(c)
    BY <1>3, <1>4, <1>5, <1>6
  <2>2. \A j \in JobsOf(c) : j \in DOMAIN jobs /\ jobs'[j] = jobs[j]
    BY <1>4, <1>6
  <2>3. Running(c)' = {j \in JobsOf(c)' : jobs'[j].state = "Running"}
    BY <1>5
  <2>4. Running(c) = {j \in JobsOf(c) : jobs[j].state = "Running"}
    BY <1>6
  <2>5. CASE c = CharOf(r)
    <3>1. JobsOf(c)' = JobsOf(c) \cup {r} /\ jobs'[r].state = "Running"
      BY <1>4, <2>1, <2>5
    <3>2. Running(c)' = Running(c) \cup {r}
      BY <2>2, <2>3, <2>4, <3>1
    <3> QED BY <2>5, <3>1, <3>2
  <2>6. CASE c # CharOf(r)
    <3>1. JobsOf(c)' = JobsOf(c)
      BY <2>1, <2>6
    <3>2. Running(c)' = Running(c)
      BY <2>2, <2>3, <2>4, <3>1
    <3> QED BY <2>6, <3>1, <3>2
  <2> QED BY <2>5, <2>6
<1> QED BY <1>1, <1>2, <1>3, <1>4, <1>7

LEMMA JobSettled ==
    ASSUME Control, NEW r \in Requests, txn[r].pc = "save", Ends(txn[r]),
           NEW state \in {"Claimed", "Cancelled"}, SettledAs(txn[r].call.job, state)
    PROVE  /\ DOMAIN jobs' = DOMAIN jobs
           /\ jobs'[txn[r].call.job].state = state
           /\ \A j \in DOMAIN jobs :
                 /\ jobs'[j].char = jobs[j].char /\ jobs'[j].recipe = jobs[j].recipe
                 /\ j # txn[r].call.job => jobs'[j] = jobs[j]
           /\ \A c : JobsOf(c)' = JobsOf(c)
           /\ \A c : Running(c)' = Running(c) \ {txn[r].call.job}
           /\ settled' = [settled EXCEPT ![txn[r].call.job] = settled[txn[r].call.job] + 1]
           /\ balance' = balance
<1> DEFINE j == txn[r].call.job
<1>1. /\ jobs' = [jobs EXCEPT ![j] = [jobs[j] EXCEPT !.state = state]]
      /\ settled' = [settled EXCEPT ![j] = settled[j] + 1] /\ balance' = balance
  BY DEF SettledAs
<1>2. j \in DOMAIN jobs /\ jobs[j] \in Job /\ jobs[j].char = CharOf(r)
  BY EndedJob
<1>3. PICK job : job = [jobs[j] EXCEPT !.state = state]
  OBVIOUS
<1>4. job.char = jobs[j].char /\ job.recipe = jobs[j].recipe /\ job.state = state
  BY <1>2, <1>3 DEF Job
<1>5. /\ DOMAIN jobs' = DOMAIN jobs /\ jobs'[j] = job
      /\ \A k \in DOMAIN jobs : k # j => jobs'[k] = jobs[k]
  BY <1>1, <1>2, <1>3
<1>6. \A k \in DOMAIN jobs : jobs'[k].char = jobs[k].char /\ jobs'[k].recipe = jobs[k].recipe
  BY <1>4, <1>5
<1>7. \A c : /\ JobsOf(c)' = {k \in DOMAIN jobs' : jobs'[k].char = c}
             /\ Running(c)' = {k \in JobsOf(c)' : jobs'[k].state = "Running"}
  BY DEF JobsOf, Running
<1>8. \A c : /\ JobsOf(c) = {k \in DOMAIN jobs : jobs[k].char = c}
             /\ Running(c) = {k \in JobsOf(c) : jobs[k].state = "Running"}
  BY DEF JobsOf, Running
<1>9. \A c : JobsOf(c)' = JobsOf(c)
  BY <1>5, <1>6, <1>7, <1>8
<1>10. \A c : Running(c)' = Running(c) \ {j}
  <2>1. \A c : \A k \in JobsOf(c) : k \in DOMAIN jobs
    BY <1>8
  <2> QED BY <1>4, <1>5, <1>7, <1>8, <1>9, <2>1
<1> QED BY <1>1, <1>4, <1>5, <1>6, <1>9, <1>10

LEMMA ClaimSettles ==
    ASSUME Control, NEW r \in Requests, SaveClaim(r)
    PROVE  /\ txn[r].pc = "save" /\ Ends(txn[r])
           /\ SettledAs(txn[r].call.job, "Claimed") /\ UNCHANGED returned
BY DEF SaveClaim, Ends, OpOf

LEMMA CancelSettles ==
    ASSUME Control, NEW r \in Requests, SaveCancel(r)
    PROVE  /\ txn[r].pc = "save" /\ Ends(txn[r])
           /\ SettledAs(txn[r].call.job, "Cancelled")
           /\ returned' = [returned EXCEPT ![txn[r].call.job] = Refund(r)]
BY DEF SaveCancel, Ends, OpOf

--------------------------------------------------------------------------------
LEMMA NextSettled ==
    ASSUME Control, SettledOnce, [Next]_vars
    PROVE  SettledOnce'
<1>1. CASE UNCHANGED dbVars
  BY <1>1 DEF SettledOnce, dbVars
<1>2. ASSUME NEW r \in Requests, SaveStart(r) PROVE SettledOnce'
  BY <1>2, JobStarted DEF SettledOnce
<1>3. ASSUME NEW r \in Requests, NEW state \in {"Claimed", "Cancelled"}, txn[r].pc = "save",
             Ends(txn[r]), SettledAs(txn[r].call.job, state)
      PROVE  SettledOnce'
  <2> DEFINE j == txn[r].call.job
  <2>1. j \in DOMAIN jobs /\ j \in Requests /\ jobs[j].state = "Running"
    BY <1>3, EndedJob
  <2>2. settled \in [Requests -> Nat]
    BY DEF Control, TypeOK
  <2>3. /\ DOMAIN jobs' = DOMAIN jobs /\ jobs'[j].state = state
        /\ \A k \in DOMAIN jobs : k # j => jobs'[k] = jobs[k]
        /\ settled' = [settled EXCEPT ![j] = settled[j] + 1]
    BY <1>3, JobSettled
  <2> QED BY <1>3, <2>1, <2>2, <2>3 DEF SettledOnce
<1>4. ASSUME NEW r \in Requests, SaveStore(r) PROVE SettledOnce'
  BY <1>4 DEF SaveStore, SettledOnce
<1> QED BY <1>1, <1>2, <1>3, <1>4, RowSteps, ClaimSettles, CancelSettles

(* A job is claimed or cancelled, never both and never twice, whoever asks.   *)
THEOREM JobsSettleOnce == Spec => []SettledOnce
<1>1. Init => SettledOnce
  BY EmptyPartial DEF Init, SettledOnce
<1> QED BY <1>1, InitControl, NextControl, NextSettled, PTL DEF Spec

--------------------------------------------------------------------------------
LEMMA OneMoreTime ==
    ASSUME NEW n \in Int, NEW k \in Int
    PROVE  n * (k + 1) = n * k + n
OBVIOUS

LEMMA NextFees ==
    ASSUME Control, FeesAddUp, [Next]_vars
    PROVE  FeesAddUp'
<1>1. CASE UNCHANGED dbVars
  BY <1>1 DEF FeesAddUp, dbVars, JobsOf
<1>2. ASSUME NEW r \in Requests, SaveStart(r) PROVE FeesAddUp'
  <2> SUFFICES ASSUME NEW c \in Characters
               PROVE  balance'[c] = InitialBalance[c] - Fee * Cardinality(JobsOf(c)')
    BY DEF FeesAddUp
  <2>1. balance[c] = InitialBalance[c] - Fee * Cardinality(JobsOf(c))
    BY DEF FeesAddUp
  <2>2. balance \in [Characters -> Int] /\ Fee \in Nat /\ InitialBalance[c] \in Int
    BY IndustryTxnAssumption DEF Control, TypeOK
  <2>3. CASE c = CharOf(r)
    <3>0. JobsOf(c)' = JobsOf(c) \cup {r}
      BY <1>2, <2>3, JobStarted
    <3>1. JobsOf(c)' = JobsOf(c) \cup {r} /\ r \notin JobsOf(c)
      BY <1>2, <3>0, JobStarted DEF JobsOf
    <3>2. IsFiniteSet(JobsOf(c))
      BY JobsFinite DEF Control
    <3>3. Cardinality(JobsOf(c)) \in Nat /\ Cardinality(JobsOf(c)') = Cardinality(JobsOf(c)) + 1
      BY <3>1, <3>2, FS_AddElement, FS_CardinalityType
    <3>4. balance'[c] = balance[c] - Fee
      BY <1>2, <2>2, <2>3, JobStarted DEF AfterFee
    <3>5. PICK n \in Nat : n = Cardinality(JobsOf(c))
      BY <3>3
    <3>6. Fee * (n + 1) = Fee * n + Fee /\ Fee * n \in Int
      BY <2>2, OneMoreTime
    <3> QED BY <2>1, <2>2, <3>3, <3>4, <3>5, <3>6
  <2>4. CASE c # CharOf(r)
    BY <1>2, <2>1, <2>2, <2>4, JobStarted
  <2> QED BY <2>3, <2>4
<1>3. ASSUME NEW r \in Requests, NEW state \in {"Claimed", "Cancelled"}, txn[r].pc = "save",
             Ends(txn[r]), SettledAs(txn[r].call.job, state)
      PROVE  FeesAddUp'
  BY <1>3, JobSettled DEF FeesAddUp
<1>4. ASSUME NEW r \in Requests, SaveStore(r) PROVE FeesAddUp'
  BY <1>4 DEF SaveStore, FeesAddUp, JobsOf
<1> QED BY <1>1, <1>2, <1>3, <1>4, RowSteps, ClaimSettles, CancelSettles

(* A balance is short of exactly the fees of the jobs started from it: none   *)
(* is charged twice, and none escapes.                                       *)
THEOREM FeesPaid == Spec => []FeesAddUp
<1>1. Init => FeesAddUp
  <2> SUFFICES ASSUME Init, NEW c \in Characters
               PROVE  balance[c] = InitialBalance[c] - Fee * Cardinality(JobsOf(c))
    BY DEF FeesAddUp
  <2>1. JobsOf(c) = {}
    BY EmptyPartial DEF Init, JobsOf
  <2>2. Fee * 0 = 0 /\ InitialBalance[c] \in Int
    BY IndustryTxnAssumption
  <2> QED BY <2>1, <2>2, FS_EmptySet DEF Init
<1> QED BY <1>1, InitControl, NextControl, NextFees, PTL DEF Spec

--------------------------------------------------------------------------------
(* Requests in turn                                                           *)

LEMMA TxnSteps ==
    ASSUME [Next]_vars
    PROVE  \/ UNCHANGED <<txn, mixed>>
           \/ \E r \in Requests :
                 \/ \E c \in Calls : Resolve(r, c)
                 \/ BeginStart(r) \/ BeginEnd(r) \/ BeginStore(r)
                 \/ EndRequest(r)
<1>1. CASE UNCHANGED vars
  BY <1>1 DEF vars
<1>2. CASE Tick
  BY <1>2 DEF Tick
<1>3. ASSUME NEW r \in Requests, SaveStart(r) \/ SaveClaim(r) \/ SaveCancel(r) \/ SaveStore(r)
      PROVE  EndRequest(r)
  BY <1>3 DEF SaveStart, SaveClaim, SaveCancel, SaveStore, Save
<1>4. ASSUME NEW r \in Requests,
             RefuseStart(r) \/ RefuseEnd(r) \/ RefuseStore(r) \/ Abort(r)
      PROVE  EndRequest(r)
  BY <1>4 DEF RefuseStart, RefuseEnd, RefuseStore, Abort, Rollback
<1> QED BY <1>1, <1>2, <1>3, <1>4 DEF Next

LEMMA SharingIsMutual == \A x, y : ShareALock(x, y) => ShareALock(y, x)
BY DEF ShareALock

LEMMA StaysInTurn ==
    ASSUME InTurn, mixed \subseteq mixed',
           \A s \in Requests : Busy(txn'[s]) => Busy(txn[s]) /\ txn'[s].call = txn[s].call
    PROVE  InTurn'
BY DEF InTurn, Under, Busy, CharOf

LEMMA NextInTurn ==
    ASSUME Control, InTurn, [Next]_vars
    PROVE  InTurn' /\ mixed \subseteq mixed'
<1>0. TypeOK /\ CallsMade
  BY DEF Control
<1>1. CASE UNCHANGED <<txn, mixed>>
  BY <1>1, StaysInTurn
<1>2. ASSUME NEW r \in Requests, BeginStart(r) \/ BeginEnd(r) \/ BeginStore(r)
      PROVE  InTurn' /\ mixed \subseteq mixed'
  <2>1. txn[r].pc = "begin" /\ txn' = ReadRows(r) /\ UNCHANGED <<clock, mixed>>
    BY <1>2 DEF BeginStart, BeginEnd, BeginStore
  <2> QED BY <1>0, <2>1, ReadingKeeps, StaysInTurn DEF Busy
<1>3. ASSUME NEW r \in Requests, EndRequest(r) PROVE InTurn' /\ mixed \subseteq mixed'
  BY <1>0, <1>3, EndsOne, StaysInTurn DEF Busy
<1>4. ASSUME NEW r \in Requests, NEW c \in Calls, Resolve(r, c)
      PROVE  InTurn' /\ mixed \subseteq mixed'
  <2> DEFINE t == [AtRest("begin") EXCEPT !.call = c, !.seenBalance = balance[c.char]]
  <2>1. /\ txn[r].pc = "idle" /\ txn' = [txn EXCEPT ![r] = t]
        /\ mixed' = IF \A s \in Under(c.char) : ShareALock(c, txn[s].call) THEN mixed
                    ELSE mixed \cup {c.char}
    BY <1>4 DEF Resolve
  <2>2. t.call = c
    BY DEF AtRest
  <2> HIDE DEF t
  <2>3. txn'[r].call = c /\ \A s \in Requests : s # r => txn'[s] = txn[s]
    BY <1>0, <2>1, <2>2 DEF TypeOK
  <2>4. mixed \subseteq mixed'
    BY <2>1
  <2>5. ASSUME NEW d \in Characters \ mixed', NEW p \in Under(d)', NEW q \in Under(d)', p # q
        PROVE  ShareALock(txn'[p].call, txn'[q].call)
    <3>1. /\ p \in Requests /\ q \in Requests /\ txn'[p].call.char = d /\ txn'[q].call.char = d
          /\ p # r => p \in Under(d) /\ txn'[p] = txn[p]
          /\ q # r => q \in Under(d) /\ txn'[q] = txn[q]
      BY <2>3 DEF Under, CharOf
    <3>2. CASE p # r /\ q # r
      BY <2>4, <2>5, <3>1, <3>2 DEF InTurn
    <3>3. CASE p = r \/ q = r
      <4>1. c.char = d
        BY <2>3, <3>1, <3>3
      <4>2. \A s \in Under(d) : ShareALock(c, txn[s].call)
        BY <2>1, <2>5, <4>1
      <4> QED BY <2>3, <2>5, <3>1, <3>3, <4>2, SharingIsMutual
    <3> QED BY <3>2, <3>3
  <2> QED BY <2>4, <2>5 DEF InTurn
<1> QED BY <1>1, <1>2, <1>3, <1>4, TxnSteps

(* No two requests that wait for one another have both decided.               *)
LEMMA AloneToSave ==
    ASSUME Control, InTurn, NEW r \in Requests, NEW s \in Requests,
           txn[r].pc = "save", txn[s].pc = "save",
           CharOf(r) = CharOf(s), CharOf(r) \notin mixed
    PROVE  r = s
<1> SUFFICES ASSUME r # s PROVE FALSE
  OBVIOUS
<1>1. CharOf(r) \in Characters
  BY CallsTyped DEF Control, CallsMade, Busy, CharOf
<1>2. r \in Under(CharOf(r)) /\ s \in Under(CharOf(r))
  BY DEF Under
<1>3. ShareALock(txn[r].call, txn[s].call)
  BY <1>1, <1>2 DEF InTurn
<1>4. Holds(r) /\ Holds(s)
  BY DEF Control, Prepared
<1>5. CASE txn[r].call.op = "start" /\ txn[s].call.op = "start"
  BY <1>4, <1>5 DEF Holds, OpOf
<1>6. CASE /\ {txn[r].call.op, txn[s].call.op} \subseteq {"claim", "cancel"}
           /\ txn[r].call.job = txn[s].call.job
  BY <1>4, <1>6 DEF Holds, Ends
<1> QED BY <1>3, <1>5, <1>6 DEF ShareALock

(* What is saved, where nothing has changed since it was read.               *)
Gain(change, i) == IF i \in DOMAIN change THEN change[i] ELSE 0

LEMMA SavesWhatIs ==
    ASSUME Control, UpToDate, NEW r \in Requests, txn[r].pc = "save",
           NEW toHangar, NEW toPockets, NEW earned \in Nat,
           Save(r, toHangar, toPockets, earned)
    PROVE  /\ \A c \in Characters : c # CharOf(r) =>
                 hangar'[c] = hangar[c] /\ pockets'[c] = pockets[c] /\ xp'[c] = xp[c]
           /\ CharOf(r) \in Characters
           /\ CharOf(r) \notin mixed =>
                 /\ xp'[CharOf(r)] = xp[CharOf(r)] + earned
                 /\ \A i \in Items :
                       /\ hangar'[CharOf(r)][i] = hangar[CharOf(r)][i] + Gain(toHangar, i)
                       /\ pockets'[CharOf(r)][i] = pockets[CharOf(r)][i] + Gain(toPockets, i)
<1> DEFINE c == CharOf(r)
<1>1. c \in Characters
  BY CallsTyped DEF Control, CallsMade, Busy, CharOf
<1>2. /\ hangar' = [hangar EXCEPT ![c] = Written(hangar[c], txn[r].hangar, toHangar)]
      /\ pockets' = [pockets EXCEPT ![c] = Written(pockets[c], txn[r].pockets, toPockets)]
      /\ xp' = IF earned > 0 THEN [xp EXCEPT ![c] = txn[r].xp + earned] ELSE xp
  BY DEF Save
<1>3. /\ hangar \in [Characters -> Amounts] /\ pockets \in [Characters -> Amounts]
      /\ xp \in [Characters -> Nat]
  BY DEF Control, TypeOK
<1>4. /\ hangar'[c] = Written(hangar[c], txn[r].hangar, toHangar)
      /\ pockets'[c] = Written(pockets[c], txn[r].pockets, toPockets)
      /\ xp'[c] = IF earned > 0 THEN txn[r].xp + earned ELSE xp[c]
  BY <1>1, <1>2, <1>3
<1>5. \A d \in Characters : d # c =>
          hangar'[d] = hangar[d] /\ pockets'[d] = pockets[d] /\ xp'[d] = xp[d]
  BY <1>2, <1>3
<1>6. ASSUME c \notin mixed
      PROVE  /\ xp'[c] = xp[c] + earned
             /\ \A i \in Items :
                   /\ hangar'[c][i] = hangar[c][i] + Gain(toHangar, i)
                   /\ pockets'[c][i] = pockets[c][i] + Gain(toPockets, i)
  <2>1. txn[r].hangar = hangar[c] /\ txn[r].pockets = pockets[c] /\ txn[r].xp = xp[c]
    BY <1>6 DEF UpToDate, Current
  <2>2. xp'[c] = xp[c] + earned
    BY <1>1, <1>3, <1>4, <2>1
  <2>3. \A i \in Items : hangar[c][i] \in Nat /\ pockets[c][i] \in Nat
    BY <1>1, <1>3 DEF Amounts
  <2>4. \A i \in Items : hangar'[c][i] = hangar[c][i] + Gain(toHangar, i)
    BY <1>4, <2>1, <2>3 DEF Written, Gain
  <2>5. \A i \in Items : pockets'[c][i] = pockets[c][i] + Gain(toPockets, i)
    BY <1>4, <2>1, <2>3 DEF Written, Gain
  <2> QED BY <2>2, <2>4, <2>5
<1> QED BY <1>1, <1>5, <1>6

LEMMA StaysCurrent ==
    ASSUME NEW s \in Requests, Current(s), txn'[s] = txn[s],
           hangar'[CharOf(s)] = hangar[CharOf(s)], pockets'[CharOf(s)] = pockets[CharOf(s)],
           xp'[CharOf(s)] = xp[CharOf(s)],
           \A c \in Characters : Running(c)' # Running(c) => c # CharOf(s)
    PROVE  Current(s)'
<1>1. CharOf(s)' = CharOf(s) /\ OpOf(s)' = OpOf(s)
  BY DEF CharOf, OpOf
<1>2. ASSUME NEW c \in Characters, OpOf(s)' = "start", c = CharOf(s)' PROVE SlotFree(c)'
  <2>1. SlotFree(c) /\ c = CharOf(s)
    BY <1>1, <1>2 DEF Current
  <2>2. Running(c)' = Running(c) /\ xp'[c] = xp[c]
    BY <2>1
  <2> QED BY <2>1, <2>2 DEF SlotFree, Slots
<1> QED BY <1>1, <1>2 DEF Current

LEMMA NextUpToDate ==
    ASSUME Control, InTurn, UpToDate, [Next]_vars
    PROVE  UpToDate'
<1> SUFFICES ASSUME NEW s \in Requests, txn'[s].pc = "save", CharOf(s)' \notin mixed'
             PROVE  Current(s)'
  BY DEF UpToDate
<1>0. TypeOK /\ CallsMade /\ mixed \subseteq mixed'
  BY NextInTurn DEF Control
<1>1. ASSUME txn[s].pc = "save", txn'[s] = txn[s] PROVE Current(s)'
  <2>1. CharOf(s) = CharOf(s)' /\ Current(s) /\ CharOf(s) \notin mixed
    BY <1>0, <1>1 DEF UpToDate, CharOf
  <2>2. CharOf(s) \in Characters
    BY <1>0, <1>1, CallsTyped DEF CallsMade, Busy, CharOf
  <2>3. CASE UNCHANGED dbVars
    BY <1>1, <2>1, <2>3, StaysCurrent DEF dbVars, Running, JobsOf
  <2>4. ASSUME NEW r \in Requests, NEW toHangar, NEW toPockets, NEW earned \in Nat,
               txn[r].pc = "save", Save(r, toHangar, toPockets, earned),
               \A c : c # CharOf(r) => Running(c)' = Running(c)
        PROVE  Current(s)'
    <3>1. s # r
      BY <1>0, <1>1, <2>4, EndsOne DEF Save
    <3>2. CharOf(s) # CharOf(r)
      BY <1>1, <2>1, <2>4, <3>1, AloneToSave
    <3>3. /\ hangar'[CharOf(s)] = hangar[CharOf(s)] /\ pockets'[CharOf(s)] = pockets[CharOf(s)]
          /\ xp'[CharOf(s)] = xp[CharOf(s)]
      BY <2>2, <2>4, <3>2, SavesWhatIs
    <3>4. \A c \in Characters : Running(c)' # Running(c) => c # CharOf(s)
      BY <2>4, <3>2
    <3> QED BY <1>1, <2>1, <3>3, <3>4, StaysCurrent
  <2>5. ASSUME NEW r \in Requests, SaveStart(r) PROVE Current(s)'
    <3>1. txn[r].pc = "save" /\ Save(r, Consumed(r), Carried(r), 0)
      BY <2>5 DEF SaveStart
    <3> QED BY <2>4, <2>5, <3>1, JobStarted
  <2>6. ASSUME NEW r \in Requests, NEW state \in {"Claimed", "Cancelled"},
               NEW amounts \in Amounts, txn[r].pc = "save", Ends(txn[r]),
               Save(r, Some(amounts), EmptyFn, Earned(r)), SettledAs(txn[r].call.job, state)
        PROVE  Current(s)'
    <3>1. Earned(r) \in Nat
      BY <2>6, EndedJob DEF Earned
    <3>2. jobs[txn[r].call.job].char = CharOf(r)
      BY <2>6, EndedJob
    <3>3. \A c : c # CharOf(r) => Running(c)' = Running(c)
      <4>1. \A c : Running(c)' = Running(c) \ {txn[r].call.job}
        BY <2>6, JobSettled
      <4>2. \A c : c # CharOf(r) => txn[r].call.job \notin Running(c)
        BY <3>2 DEF Running, JobsOf
      <4> QED BY <4>1, <4>2
    <3> QED BY <2>4, <2>6, <3>1, <3>3
  <2>7. ASSUME NEW r \in Requests, SaveClaim(r) PROVE Current(s)'
    <3>1. RecipeOf(txn[r].call.job).makes \in Amounts
      BY <2>7, ClaimSettles, EndedJob
    <3> QED BY <2>6, <2>7, <3>1, ClaimSettles DEF SaveClaim
  <2>8. ASSUME NEW r \in Requests, SaveCancel(r) PROVE Current(s)'
    <3>1. Refund(r) \in Amounts
      BY <2>8, CancelSettles, RefundTyped
    <3> QED BY <2>6, <2>8, <3>1, CancelSettles DEF SaveCancel
  <2>9. ASSUME NEW r \in Requests, SaveStore(r) PROVE Current(s)'
    <3>1. /\ txn[r].pc = "save" /\ Save(r, Stored(r), Unpacked(r), 0)
          /\ \A c : Running(c)' = Running(c)
      BY <2>9 DEF SaveStore, Running, JobsOf
    <3> QED BY <2>4, <3>1
  <2> QED BY <2>3, <2>5, <2>7, <2>8, <2>9, RowSteps
<1>2. ASSUME NEW r \in Requests, BeginStart(r) \/ BeginEnd(r) \/ BeginStore(r)
      PROVE  Current(s)'
  <2>1. txn[r].pc = "begin" /\ txn' = ReadRows(r) /\ UNCHANGED <<dbVars, clock, mixed>>
    BY <1>2 DEF BeginStart, BeginEnd, BeginStore
  <2>2. CASE s # r
    BY <1>0, <1>1, <2>1, <2>2, ReadingKeeps
  <2>3. CASE s = r
    <3>1. /\ txn'[r].call = txn[r].call /\ txn'[r].hangar = hangar[CharOf(r)]
          /\ txn'[r].pockets = pockets[CharOf(r)] /\ txn'[r].xp = xp[CharOf(r)]
      BY <1>0, <2>1, ReadingKeeps
    <3>2. CharOf(r)' = CharOf(r) /\ OpOf(r)' = OpOf(r)
      BY <3>1 DEF CharOf, OpOf
    <3>3. \A c \in Characters : OpOf(r) = "start" /\ c = CharOf(r) => SlotFree(c)
      BY <1>2 DEF BeginStart, BeginEnd, BeginStore, CanStart
    <3>4. \A c \in Characters : SlotFree(c)' <=> SlotFree(c)
      BY <2>1 DEF SlotFree, Slots, Running, JobsOf, dbVars
    <3> QED BY <2>1, <2>3, <3>1, <3>2, <3>3, <3>4 DEF Current, dbVars
  <2> QED BY <2>2, <2>3
<1>3. ASSUME NEW r \in Requests, NEW c \in Calls, Resolve(r, c) PROVE Current(s)'
  <2>1. txn[r].pc = "idle" /\ txn' = [txn EXCEPT ![r] = [AtRest("begin") EXCEPT
                                          !.call = c, !.seenBalance = balance[c.char]]]
    BY <1>3 DEF Resolve
  <2>2. s # r /\ txn'[s] = txn[s]
    BY <1>0, <2>1 DEF TypeOK, AtRest
  <2> QED BY <1>1, <2>2
<1>4. ASSUME NEW r \in Requests, EndRequest(r) PROVE Current(s)'
  BY <1>0, <1>1, <1>4, EndsOne
<1>5. CASE UNCHANGED <<txn, mixed>>
  BY <1>1, <1>5
<1> QED BY <1>2, <1>3, <1>4, <1>5, TxnSteps

--------------------------------------------------------------------------------
LEMMA SlotsGrow ==
    ASSUME NEW a \in Nat, NEW b \in Nat, a <= b
    PROVE  Slots(a) \in Nat /\ Slots(a) <= Slots(b)
<1> DEFINE A == {x \in SlotXp : a >= x}
           B == {x \in SlotXp : b >= x}
<1>1. SlotXp \subseteq Nat /\ IsFiniteSet(SlotXp)
  BY IndustryTxnAssumption
<1>2. A \subseteq B /\ B \subseteq SlotXp
  <2>1. \A x \in SlotXp : a >= x => b >= x
    BY <1>1
  <2> QED BY <2>1
<1>3. IsFiniteSet(B) /\ Cardinality(A) <= Cardinality(B) /\ IsFiniteSet(A)
  BY <1>1, <1>2, FS_Subset
<1>4. Cardinality(A) \in Nat /\ Cardinality(B) \in Nat
  BY <1>3, FS_CardinalityType
<1> QED BY <1>3, <1>4 DEF Slots

LEMMA NextSlots ==
    ASSUME Control, InTurn, UpToDate, SlotsKept, [Next]_vars
    PROVE  SlotsKept'
<1> SUFFICES ASSUME NEW c \in Characters, c \notin mixed'
             PROVE  Cardinality(Running(c)') <= Slots(xp'[c])
  BY DEF SlotsKept, Slots
<1>1. c \notin mixed /\ Cardinality(Running(c)) <= Slots(xp[c])
  BY NextInTurn DEF SlotsKept
<1>2. xp[c] \in Nat /\ TypeOK
  BY DEF Control, TypeOK
<1>3. IsFiniteSet(Running(c)) /\ Cardinality(Running(c)) \in Nat
  BY <1>2, JobsFinite, FS_CardinalityType
<1>4. CASE UNCHANGED dbVars
  BY <1>1, <1>4 DEF dbVars, Running, JobsOf
<1>5. ASSUME NEW r \in Requests, SaveStart(r)
      PROVE  Cardinality(Running(c)') <= Slots(xp'[c])
  <2>1. txn[r].pc = "save" /\ Save(r, Consumed(r), Carried(r), 0) /\ OpOf(r) = "start"
    BY <1>5 DEF SaveStart
  <2>2. xp'[c] = xp[c]
    BY <2>1 DEF Save
  <2>3. CASE c # CharOf(r)
    BY <1>1, <1>5, <2>2, <2>3, JobStarted
  <2>4. CASE c = CharOf(r)
    <3>1. SlotFree(c)
      BY <1>1, <2>1, <2>4 DEF UpToDate, Current
    <3>2. Running(c)' = Running(c) \cup {r}
      BY <1>5, <2>4, JobStarted
    <3>3. Cardinality(Running(c) \cup {r}) \in {Cardinality(Running(c)), Cardinality(Running(c)) + 1}
      BY <1>3, FS_AddElement
    <3>4. Cardinality(Running(c)') \in {Cardinality(Running(c)), Cardinality(Running(c)) + 1}
      BY <3>2, <3>3
    <3>5. Slots(xp[c]) \in Nat
      BY <1>2, SlotsGrow
    <3> QED BY <1>3, <2>2, <3>1, <3>3, <3>4, <3>5 DEF SlotFree
  <2> QED BY <2>3, <2>4
<1>6. ASSUME NEW r \in Requests, NEW state \in {"Claimed", "Cancelled"},
             NEW amounts, txn[r].pc = "save", Ends(txn[r]),
             Save(r, amounts, EmptyFn, Earned(r)), SettledAs(txn[r].call.job, state)
      PROVE  Cardinality(Running(c)') <= Slots(xp'[c])
  <2>1. Earned(r) \in Nat
    BY <1>6, EndedJob DEF Earned
  <2>2. xp'[c] \in Nat /\ xp[c] <= xp'[c]
    BY <1>1, <1>2, <1>6, <2>1, SavesWhatIs
  <2>3. Running(c)' = Running(c) \ {txn[r].call.job}
    BY <1>6, JobSettled
  <2>4. Cardinality(Running(c)') \in Nat /\ Cardinality(Running(c)') <= Cardinality(Running(c))
    BY <1>3, <2>3, FS_Subset, FS_CardinalityType
  <2>5. Slots(xp[c]) \in Nat /\ Slots(xp'[c]) \in Nat /\ Slots(xp[c]) <= Slots(xp'[c])
    BY <1>2, <2>2, SlotsGrow
  <2> QED BY <1>1, <1>3, <2>4, <2>5
<1>7. ASSUME NEW r \in Requests, SaveClaim(r)
      PROVE  Cardinality(Running(c)') <= Slots(xp'[c])
  BY <1>6, <1>7, ClaimSettles DEF SaveClaim
<1>8. ASSUME NEW r \in Requests, SaveCancel(r)
      PROVE  Cardinality(Running(c)') <= Slots(xp'[c])
  BY <1>6, <1>8, CancelSettles DEF SaveCancel
<1>9. ASSUME NEW r \in Requests, SaveStore(r)
      PROVE  Cardinality(Running(c)') <= Slots(xp'[c])
  BY <1>1, <1>9 DEF SaveStore, Save, Running, JobsOf
<1> QED BY <1>4, <1>5, <1>7, <1>8, <1>9, RowSteps

LEMMA InitInTurn == Init => InTurn /\ UpToDate
BY DEF Init, InTurn, UpToDate, Under, AtRest

(* A character whose requests wait for one another never runs more jobs than  *)
(* its experience gives it slots.                                            *)
THEOREM SlotsBound == Spec => []SlotsKept
<1>1. Init => SlotsKept
  <2> SUFFICES ASSUME Init, NEW c \in Characters PROVE Cardinality(Running(c)) <= Slots(xp[c])
    BY DEF SlotsKept
  <2>1. Running(c) = {}
    BY EmptyPartial DEF Init, Running, JobsOf
  <2>2. xp[c] \in Nat
    BY InitControl DEF Control, TypeOK
  <2> QED BY <2>1, <2>2, SlotsGrow, FS_EmptySet
<1> QED BY <1>1, InitControl, NextControl, InitInTurn, NextInTurn, NextUpToDate, NextSlots, PTL
        DEF Spec

--------------------------------------------------------------------------------
(* Sums over a character's jobs                                               *)

LEMMA SumStarted ==
    ASSUME Control, NEW r \in Requests, SaveStart(r), NEW c, NEW f, NEW g,
           DOMAIN f = JobsOf(c), DOMAIN g = JobsOf(c)', c = CharOf(r) => g[r] \in Int,
           \A j \in JobsOf(c) : f[j] \in Int /\ g[j] = f[j]
    PROVE  SumFunction(g) = SumFunction(f) + (IF c = CharOf(r) THEN g[r] ELSE 0)
<1>1. IsFiniteSet(DOMAIN f)
  BY JobsFinite DEF Control
<1>2. SumFunction(f) \in Int
  BY <1>1, SumTyped
<1>3. CASE c = CharOf(r)
  <2>1. DOMAIN g = DOMAIN f \cup {r}
    BY <1>3, JobStarted
  <2>2. r \notin DOMAIN f
    BY JobStarted DEF JobsOf
  <2>3. SumFunction(g) = SumFunction(f) + g[r]
    BY <1>1, <1>3, <2>1, <2>2, SumGrows
  <2> QED BY <1>3, <2>3
<1>4. CASE c # CharOf(r)
  <2>1. DOMAIN g = DOMAIN f
    BY <1>4, JobStarted
  <2>2. SumFunction(g) = SumFunction(f)
    BY <1>1, <2>1, SumStays
  <2> QED BY <1>2, <1>4, <2>2
<1> QED BY <1>3, <1>4

LEMMA SumSettled ==
    ASSUME Control, NEW r \in Requests, txn[r].pc = "save", Ends(txn[r]),
           NEW state \in {"Claimed", "Cancelled"}, SettledAs(txn[r].call.job, state),
           NEW c, NEW f, NEW g, DOMAIN f = JobsOf(c), DOMAIN g = JobsOf(c)',
           \A j \in JobsOf(c) : f[j] \in Int /\ g[j] \in Int,
           \A j \in JobsOf(c) : j # txn[r].call.job => g[j] = f[j]
    PROVE  SumFunction(g) = SumFunction(f) +
               (IF c = CharOf(r) THEN g[txn[r].call.job] - f[txn[r].call.job] ELSE 0)
<1> DEFINE job == txn[r].call.job
<1>1. IsFiniteSet(DOMAIN f) /\ DOMAIN g = DOMAIN f
  BY JobsFinite, JobSettled DEF Control
<1>2. SumFunction(f) \in Int
  BY <1>1, SumTyped
<1>3. job \in DOMAIN jobs /\ jobs[job].char = CharOf(r)
  BY EndedJob
<1>4. CASE c = CharOf(r)
  <2>1. job \in DOMAIN f
    BY <1>3, <1>4 DEF JobsOf
  <2>2. SumFunction(g) = SumFunction(f) + g[job] - f[job]
    BY <1>1, <2>1, SumMoves
  <2>3. g[job] \in Int /\ f[job] \in Int
    BY <2>1
  <2> QED BY <1>2, <1>4, <2>2, <2>3
<1>5. CASE c # CharOf(r)
  <2>1. \A j \in DOMAIN f : g[j] = f[j]
    BY <1>3, <1>5 DEF JobsOf
  <2>2. SumFunction(g) = SumFunction(f)
    BY <1>1, <2>1, SumStays
  <2> QED BY <1>2, <1>5, <2>2
<1> QED BY <1>4, <1>5

LEMMA JobRecipes ==
    ASSUME Control, NEW j \in DOMAIN jobs
    PROVE  /\ RecipeOf(j).uses \in Amounts /\ RecipeOf(j).makes \in Amounts
           /\ RecipeOf(j).xp \in Nat /\ j \in Requests
<1>1. jobs[j] \in Job /\ j \in Requests
  BY JobsFinite DEF Control
<1>2. jobs[j].recipe \in RecipeNames
  BY <1>1 DEF Job
<1> QED BY <1>1, <1>2, ConstantsTyped DEF RecipeOf

(* What a start and the end of a job add to what its character's jobs took,   *)
(* gave back, made and taught.                                                *)
LEMMA StartAdds ==
    ASSUME Control, OnlyCancelledGiveBack, NEW r \in Requests, SaveStart(r), NEW c, NEW i \in Items
    PROVE  /\ TakenBy(c, i)' = TakenBy(c, i) + (IF c = CharOf(r) THEN UsedBy(r)[i] ELSE 0)
           /\ GivenBack(c, i)' = GivenBack(c, i)
           /\ MadeBy(c, i)' = MadeBy(c, i)
<1>1. /\ r \notin DOMAIN jobs /\ DOMAIN jobs' = DOMAIN jobs \cup {r}
      /\ txn[r].call.recipe \in RecipeNames
      /\ jobs'[r].recipe = txn[r].call.recipe /\ jobs'[r].state = "Running"
      /\ \A j \in DOMAIN jobs : jobs'[j] = jobs[j]
      /\ JobsOf(c)' \subseteq JobsOf(c) \cup {r} /\ JobsOf(c) \subseteq JobsOf(c)'
      /\ UNCHANGED returned
      /\ c = CharOf(r) => r \in JobsOf(c)'
  BY JobStarted
<1>2. JobsOf(c) \subseteq DOMAIN jobs
  BY DEF JobsOf
<1>3. returned[r] = Nothing /\ returned \in [Requests -> Amounts]
  BY <1>1 DEF OnlyCancelledGiveBack, Control, TypeOK
<1>4. TakenBy(c, i)' = TakenBy(c, i) + (IF c = CharOf(r) THEN UsedBy(r)[i] ELSE 0)
  <2> DEFINE f == [j \in JobsOf(c) |-> Recipes[jobs[j].recipe].uses[i]]
             g == [j \in JobsOf(c)' |-> Recipes[jobs'[j].recipe].uses[i]]
             h == [j \in JobsOf(c) \cup {r} |-> Recipes[jobs'[j].recipe].uses[i]]
  <2>1. TakenBy(c, i) = SumFunction(f) /\ TakenBy(c, i)' = SumFunction(g)
    BY DEF TakenBy, RecipeOf
  <2>2. \A j \in JobsOf(c) : f[j] \in Int /\ g[j] = f[j]
    BY <1>1, <1>2, JobRecipes DEF RecipeOf, Amounts
  <2>3. c = CharOf(r) => g[r] = UsedBy(r)[i] /\ g[r] \in Int
    BY <1>1, ConstantsTyped DEF UsedBy, Amounts
  <2>4. DOMAIN f = JobsOf(c) /\ DOMAIN g = JobsOf(c)'
    OBVIOUS
  <2> HIDE DEF f, g
  <2>5. SumFunction(g) = SumFunction(f) + (IF c = CharOf(r) THEN g[r] ELSE 0)
    <3>1. c = CharOf(r) => g[r] \in Int
      BY <2>3
    <3> QED BY <2>2, <2>4, <3>1, SumStarted
  <2> QED BY <2>1, <2>3, <2>5
<1>5. GivenBack(c, i)' = GivenBack(c, i)
  <2> DEFINE f == [j \in JobsOf(c) |-> returned[j][i]]
             g == [j \in JobsOf(c)' |-> returned'[j][i]]
  <2>1. GivenBack(c, i) = SumFunction(f) /\ GivenBack(c, i)' = SumFunction(g)
    BY DEF GivenBack
  <2>2. \A j \in JobsOf(c) : f[j] \in Int /\ g[j] = f[j]
    BY <1>1, <1>2, <1>3, JobRecipes DEF Amounts
  <2>3. c = CharOf(r) => g[r] = 0
    BY <1>1, <1>3 DEF Nothing
  <2>4. DOMAIN f = JobsOf(c) /\ DOMAIN g = JobsOf(c)' /\ IsFiniteSet(DOMAIN f)
    BY JobsFinite DEF Control
  <2> HIDE DEF f, g
  <2>5. SumFunction(g) = SumFunction(f) + (IF c = CharOf(r) THEN g[r] ELSE 0)
    <3>1. c = CharOf(r) => g[r] \in Int
      BY <2>3
    <3> QED BY <2>2, <2>4, <3>1, SumStarted
  <2>6. SumFunction(f) \in Int
    BY <2>2, <2>4, SumTyped
  <2> QED BY <2>1, <2>3, <2>5, <2>6
<1>6. MadeBy(c, i)' = MadeBy(c, i)
  <2> DEFINE f == [j \in JobsOf(c) |-> OnceClaimed(j, RecipeOf(j).makes[i])]
             g == [j \in JobsOf(c)' |-> IF jobs'[j].state = "Claimed"
                                        THEN Recipes[jobs'[j].recipe].makes[i] ELSE 0]
  <2>1. MadeBy(c, i) = SumFunction(f) /\ MadeBy(c, i)' = SumFunction(g)
    BY DEF MadeBy, OnceClaimed, RecipeOf
  <2>2. \A j \in JobsOf(c) : f[j] \in Int /\ g[j] = f[j]
    BY <1>1, <1>2, JobRecipes DEF OnceClaimed, RecipeOf, Amounts
  <2>3. c = CharOf(r) => g[r] = 0
    BY <1>1
  <2>4. DOMAIN f = JobsOf(c) /\ DOMAIN g = JobsOf(c)' /\ IsFiniteSet(DOMAIN f)
    BY JobsFinite DEF Control
  <2> HIDE DEF f, g
  <2>5. SumFunction(g) = SumFunction(f) + (IF c = CharOf(r) THEN g[r] ELSE 0)
    <3>1. c = CharOf(r) => g[r] \in Int
      BY <2>3
    <3> QED BY <2>2, <2>4, <3>1, SumStarted
  <2>6. SumFunction(f) \in Int
    BY <2>2, <2>4, SumTyped
  <2> QED BY <2>1, <2>3, <2>5, <2>6
<1> QED BY <1>4, <1>5, <1>6

LEMMA StartTeaches ==
    ASSUME Control, OnlyCancelledGiveBack, NEW r \in Requests, SaveStart(r), NEW c
    PROVE  TaughtBy(c)' = TaughtBy(c)
<1>1. /\ r \notin DOMAIN jobs /\ DOMAIN jobs' = DOMAIN jobs \cup {r}
      /\ txn[r].call.recipe \in RecipeNames
      /\ jobs'[r].recipe = txn[r].call.recipe /\ jobs'[r].state = "Running"
      /\ \A j \in DOMAIN jobs : jobs'[j] = jobs[j]
      /\ JobsOf(c)' \subseteq JobsOf(c) \cup {r} /\ JobsOf(c) \subseteq JobsOf(c)'
      /\ UNCHANGED returned
      /\ c = CharOf(r) => r \in JobsOf(c)'
  BY JobStarted
<1>2. JobsOf(c) \subseteq DOMAIN jobs
  BY DEF JobsOf
<1> DEFINE f == [j \in JobsOf(c) |-> OnceClaimed(j, RecipeOf(j).xp)]
           g == [j \in JobsOf(c)' |-> IF jobs'[j].state = "Claimed"
                                      THEN Recipes[jobs'[j].recipe].xp ELSE 0]
<1>3. TaughtBy(c) = SumFunction(f) /\ TaughtBy(c)' = SumFunction(g)
  BY DEF TaughtBy, OnceClaimed, RecipeOf
<1>4. \A j \in JobsOf(c) : f[j] \in Int /\ g[j] = f[j]
  BY <1>1, <1>2, JobRecipes DEF OnceClaimed, RecipeOf
<1>5. c = CharOf(r) => g[r] = 0
  BY <1>1
<1>6. DOMAIN f = JobsOf(c) /\ DOMAIN g = JobsOf(c)' /\ IsFiniteSet(DOMAIN f)
  BY JobsFinite DEF Control
<1> HIDE DEF f, g
<1>7. SumFunction(g) = SumFunction(f) + (IF c = CharOf(r) THEN g[r] ELSE 0)
  <2>1. c = CharOf(r) => g[r] \in Int
    BY <1>5
  <2> QED BY <1>4, <1>6, <2>1, SumStarted
<1>8. SumFunction(f) \in Int
  BY <1>4, <1>6, SumTyped
<1> QED BY <1>3, <1>5, <1>7, <1>8

LEMMA EndAdds ==
    ASSUME Control, OnlyCancelledGiveBack, NEW r \in Requests, txn[r].pc = "save", Ends(txn[r]),
           NEW state \in {"Claimed", "Cancelled"}, SettledAs(txn[r].call.job, state),
           NEW back \in Amounts, back = Nothing \/ state = "Cancelled",
           \A j \in Requests : returned'[j] = IF j = txn[r].call.job THEN back ELSE returned[j],
           NEW c, NEW i \in Items
    PROVE  /\ TakenBy(c, i)' = TakenBy(c, i)
           /\ GivenBack(c, i)' = GivenBack(c, i) + (IF c = CharOf(r) THEN back[i] ELSE 0)
           /\ MadeBy(c, i)' = MadeBy(c, i) +
                 (IF c = CharOf(r) /\ state = "Claimed"
                  THEN RecipeOf(txn[r].call.job).makes[i] ELSE 0)
<1> DEFINE job == txn[r].call.job
<1>1. /\ DOMAIN jobs' = DOMAIN jobs /\ jobs'[job].state = state
      /\ \A j \in DOMAIN jobs :
            jobs'[j].recipe = jobs[j].recipe /\ (j # job => jobs'[j] = jobs[j])
      /\ JobsOf(c)' = JobsOf(c)
  BY JobSettled
<1>2. JobsOf(c) \subseteq DOMAIN jobs /\ IsFiniteSet(JobsOf(c))
  BY JobsFinite DEF JobsOf, Control
<1>3. /\ job \in DOMAIN jobs /\ jobs[job].state = "Running" /\ jobs[job].char = CharOf(r)
      /\ job \in Requests
  BY EndedJob
<1>4. returned[job] = Nothing /\ returned \in [Requests -> Amounts]
  BY <1>3 DEF OnlyCancelledGiveBack, Control, TypeOK
<1>5. TakenBy(c, i)' = TakenBy(c, i)
  <2> DEFINE f == [j \in JobsOf(c) |-> Recipes[jobs[j].recipe].uses[i]]
             g == [j \in JobsOf(c)' |-> Recipes[jobs'[j].recipe].uses[i]]
  <2>1. TakenBy(c, i) = SumFunction(f) /\ TakenBy(c, i)' = SumFunction(g)
    BY DEF TakenBy, RecipeOf
  <2>2. DOMAIN g = DOMAIN f /\ IsFiniteSet(DOMAIN f) /\ \A j \in DOMAIN f : g[j] = f[j]
    BY <1>1, <1>2
  <2> QED BY <2>1, <2>2, SumStays
<1>6. GivenBack(c, i)' = GivenBack(c, i) + (IF c = CharOf(r) THEN back[i] ELSE 0)
  <2> DEFINE f == [j \in JobsOf(c) |-> returned[j][i]]
             g == [j \in JobsOf(c)' |-> returned'[j][i]]
  <2>1. GivenBack(c, i) = SumFunction(f) /\ GivenBack(c, i)' = SumFunction(g)
    BY DEF GivenBack
  <2>2. \A j \in JobsOf(c) : j \in Requests
    BY <1>2, JobRecipes
  <2>3. \A j \in JobsOf(c) : f[j] \in Int /\ g[j] \in Int /\ (j # job => g[j] = f[j])
    BY <1>1, <1>4, <2>2 DEF Amounts
  <2>4. c = CharOf(r) => g[job] = back[i] /\ f[job] = 0
    BY <1>1, <1>3, <1>4 DEF JobsOf, Nothing
  <2>5. DOMAIN f = JobsOf(c) /\ DOMAIN g = JobsOf(c)' /\ back[i] \in Int
    BY DEF Amounts
  <2> HIDE DEF f, g
  <2>6. SumFunction(g) = SumFunction(f) + (IF c = CharOf(r) THEN g[job] - f[job] ELSE 0)
    BY <2>3, <2>5, SumSettled
  <2> QED BY <2>1, <2>4, <2>5, <2>6
<1>7. MadeBy(c, i)' = MadeBy(c, i) +
          (IF c = CharOf(r) /\ state = "Claimed" THEN RecipeOf(job).makes[i] ELSE 0)
  <2> DEFINE f == [j \in JobsOf(c) |-> OnceClaimed(j, RecipeOf(j).makes[i])]
             g == [j \in JobsOf(c)' |-> IF jobs'[j].state = "Claimed"
                                        THEN Recipes[jobs'[j].recipe].makes[i] ELSE 0]
  <2>1. MadeBy(c, i) = SumFunction(f) /\ MadeBy(c, i)' = SumFunction(g)
    BY DEF MadeBy, OnceClaimed, RecipeOf
  <2>2. \A j \in JobsOf(c) : Recipes[jobs[j].recipe].makes[i] \in Int
    BY <1>2, JobRecipes DEF RecipeOf, Amounts
  <2>3. \A j \in JobsOf(c) : f[j] \in Int /\ g[j] \in Int /\ (j # job => g[j] = f[j])
    BY <1>1, <1>2, <2>2 DEF OnceClaimed, RecipeOf
  <2>4. c = CharOf(r) => /\ g[job] = IF state = "Claimed" THEN RecipeOf(job).makes[i] ELSE 0
                         /\ f[job] = 0
    BY <1>1, <1>3 DEF JobsOf, OnceClaimed, RecipeOf
  <2>5. DOMAIN f = JobsOf(c) /\ DOMAIN g = JobsOf(c)' /\ RecipeOf(job).makes[i] \in Int
    BY <1>3, JobRecipes DEF Amounts
  <2> HIDE DEF f, g
  <2>6. SumFunction(g) = SumFunction(f) + (IF c = CharOf(r) THEN g[job] - f[job] ELSE 0)
    BY <2>3, <2>5, SumSettled
  <2> QED BY <2>1, <2>4, <2>5, <2>6
<1> QED BY <1>5, <1>6, <1>7

LEMMA EndTeaches ==
    ASSUME Control, NEW r \in Requests, txn[r].pc = "save", Ends(txn[r]),
           NEW state \in {"Claimed", "Cancelled"}, SettledAs(txn[r].call.job, state), NEW c
    PROVE  TaughtBy(c)' = TaughtBy(c) +
               (IF c = CharOf(r) /\ state = "Claimed" THEN RecipeOf(txn[r].call.job).xp ELSE 0)
<1> DEFINE job == txn[r].call.job
<1>1. /\ DOMAIN jobs' = DOMAIN jobs /\ jobs'[job].state = state
      /\ \A j \in DOMAIN jobs :
            jobs'[j].recipe = jobs[j].recipe /\ (j # job => jobs'[j] = jobs[j])
      /\ JobsOf(c)' = JobsOf(c)
  BY JobSettled
<1>2. JobsOf(c) \subseteq DOMAIN jobs /\ IsFiniteSet(JobsOf(c))
  BY JobsFinite DEF JobsOf, Control
<1>3. /\ job \in DOMAIN jobs /\ jobs[job].state = "Running" /\ jobs[job].char = CharOf(r)
      /\ job \in Requests
  BY EndedJob
<1> DEFINE f == [j \in JobsOf(c) |-> OnceClaimed(j, RecipeOf(j).xp)]
           g == [j \in JobsOf(c)' |-> IF jobs'[j].state = "Claimed"
                                      THEN Recipes[jobs'[j].recipe].xp ELSE 0]
<1>4. TaughtBy(c) = SumFunction(f) /\ TaughtBy(c)' = SumFunction(g)
  BY DEF TaughtBy, OnceClaimed, RecipeOf
<1>5. \A j \in JobsOf(c) : Recipes[jobs[j].recipe].xp \in Int
  BY <1>2, JobRecipes DEF RecipeOf
<1>6. \A j \in JobsOf(c) : f[j] \in Int /\ g[j] \in Int /\ (j # job => g[j] = f[j])
  BY <1>1, <1>2, <1>5 DEF OnceClaimed, RecipeOf
<1>7. c = CharOf(r) => /\ g[job] = IF state = "Claimed" THEN RecipeOf(job).xp ELSE 0
                       /\ f[job] = 0
  BY <1>1, <1>3 DEF JobsOf, OnceClaimed, RecipeOf
<1>8. DOMAIN f = JobsOf(c) /\ DOMAIN g = JobsOf(c)' /\ RecipeOf(job).xp \in Int
  BY <1>3, JobRecipes
<1> HIDE DEF f, g
<1>9. SumFunction(g) = SumFunction(f) + (IF c = CharOf(r) THEN g[job] - f[job] ELSE 0)
  BY <1>6, <1>8, SumSettled
<1> QED BY <1>4, <1>7, <1>8, <1>9

--------------------------------------------------------------------------------
LEMMA CancelGives ==
    ASSUME Control, OnlyCancelledGiveBack, NEW r \in Requests, SaveCancel(r)
    PROVE  /\ Refund(r) \in Amounts
           /\ \A j \in Requests :
                 returned'[j] = IF j = txn[r].call.job THEN Refund(r) ELSE returned[j]
<1>1. returned \in [Requests -> Amounts]
  BY DEF Control, TypeOK
<1> QED BY <1>1, CancelSettles, RefundTyped

LEMMA ClaimGives ==
    ASSUME Control, OnlyCancelledGiveBack, NEW r \in Requests, SaveClaim(r)
    PROVE  \A j \in Requests :
               returned'[j] = IF j = txn[r].call.job THEN Nothing ELSE returned[j]
<1>1. returned[txn[r].call.job] = Nothing
  BY ClaimSettles, EndedJob DEF OnlyCancelledGiveBack
<1> QED BY <1>1, ClaimSettles

LEMMA NextGivesBack ==
    ASSUME Control, OnlyCancelledGiveBack, [Next]_vars
    PROVE  OnlyCancelledGiveBack'
<1>1. CASE UNCHANGED dbVars
  BY <1>1 DEF OnlyCancelledGiveBack, dbVars
<1>2. ASSUME NEW r \in Requests, SaveStart(r) PROVE OnlyCancelledGiveBack'
  BY <1>2, JobStarted DEF OnlyCancelledGiveBack
<1>3. ASSUME NEW r \in Requests, SaveClaim(r) PROVE OnlyCancelledGiveBack'
  <2>1. /\ DOMAIN jobs' = DOMAIN jobs
        /\ \A j \in DOMAIN jobs : j # txn[r].call.job => jobs'[j] = jobs[j]
    BY <1>3, ClaimSettles, JobSettled
  <2> QED BY <1>3, <2>1, ClaimGives DEF OnlyCancelledGiveBack
<1>4. ASSUME NEW r \in Requests, SaveCancel(r) PROVE OnlyCancelledGiveBack'
  <2>1. /\ DOMAIN jobs' = DOMAIN jobs /\ txn[r].call.job \in DOMAIN jobs
        /\ jobs'[txn[r].call.job].state = "Cancelled"
        /\ \A j \in DOMAIN jobs : j # txn[r].call.job => jobs'[j] = jobs[j]
    BY <1>4, CancelSettles, JobSettled, EndedJob
  <2> QED BY <1>4, <2>1, CancelGives DEF OnlyCancelledGiveBack
<1>5. ASSUME NEW r \in Requests, SaveStore(r) PROVE OnlyCancelledGiveBack'
  BY <1>5 DEF SaveStore, OnlyCancelledGiveBack
<1> QED BY <1>1, <1>2, <1>3, <1>4, <1>5, RowSteps

(* The sums change with the jobs and with nothing else.                       *)
LEMMA SumsStand ==
    ASSUME UNCHANGED <<jobs, returned>>, NEW c, NEW i
    PROVE  /\ TakenBy(c, i)' = TakenBy(c, i) /\ GivenBack(c, i)' = GivenBack(c, i)
           /\ MadeBy(c, i)' = MadeBy(c, i)
BY DEF TakenBy, GivenBack, MadeBy, OnceClaimed, RecipeOf, JobsOf

LEMMA TaughtStands ==
    ASSUME UNCHANGED jobs, NEW c
    PROVE  TaughtBy(c)' = TaughtBy(c)
BY DEF TaughtBy, OnceClaimed, RecipeOf, JobsOf

LEMMA SumsTyped ==
    ASSUME Control, NEW c, NEW i \in Items
    PROVE  /\ TakenBy(c, i) \in Int /\ GivenBack(c, i) \in Int
           /\ MadeBy(c, i) \in Int
<1>1. JobsOf(c) \subseteq DOMAIN jobs /\ IsFiniteSet(JobsOf(c))
  BY JobsFinite DEF JobsOf, Control
<1>2. \A j \in JobsOf(c) : /\ RecipeOf(j).uses[i] \in Int /\ RecipeOf(j).makes[i] \in Int
                           /\ returned[j][i] \in Int
  BY <1>1, JobRecipes DEF Control, TypeOK, Amounts
<1>3. TakenBy(c, i) \in Int
  BY <1>1, <1>2, SumTyped DEF TakenBy
<1>4. GivenBack(c, i) \in Int
  BY <1>1, <1>2, SumTyped DEF GivenBack
<1>5. MadeBy(c, i) \in Int
  BY <1>1, <1>2, SumTyped DEF MadeBy, OnceClaimed
<1> QED BY <1>3, <1>4, <1>5

LEMMA TaughtTyped ==
    ASSUME Control, NEW c
    PROVE  TaughtBy(c) \in Int
<1>1. JobsOf(c) \subseteq DOMAIN jobs /\ IsFiniteSet(JobsOf(c))
  BY JobsFinite DEF JobsOf, Control
<1>2. \A j \in JobsOf(c) : RecipeOf(j).xp \in Int
  BY <1>1, JobRecipes DEF Control
<1> QED BY <1>1, <1>2, SumTyped DEF TaughtBy, OnceClaimed

LEMMA NextWorkPaid ==
    ASSUME Control, InTurn, UpToDate, WorkPaid, OnlyCancelledGiveBack, [Next]_vars
    PROVE  WorkPaid'
<1> SUFFICES ASSUME NEW c \in Characters, c \notin mixed'
             PROVE  xp'[c] = InitialXp[c] + TaughtBy(c)'
  BY DEF WorkPaid
<1>1. c \notin mixed /\ xp[c] = InitialXp[c] + TaughtBy(c)
  BY NextInTurn DEF WorkPaid
<1>2. xp[c] \in Int /\ InitialXp[c] \in Int /\ TaughtBy(c) \in Int
  BY IndustryTxnAssumption, TaughtTyped DEF Control, TypeOK
<1>3. CASE UNCHANGED dbVars
  BY <1>1, <1>3, TaughtStands DEF dbVars
<1>4. ASSUME NEW r \in Requests, SaveStart(r) PROVE xp'[c] = InitialXp[c] + TaughtBy(c)'
  <2>1. xp' = xp
    BY <1>4 DEF SaveStart, Save
  <2>2. TaughtBy(c)' = TaughtBy(c)
    BY <1>4, StartTeaches
  <2> QED BY <1>1, <2>1, <2>2
<1>5. ASSUME NEW r \in Requests, SaveClaim(r) PROVE xp'[c] = InitialXp[c] + TaughtBy(c)'
  <2> DEFINE recipe == RecipeOf(txn[r].call.job)
  <2>1. /\ txn[r].pc = "save" /\ Ends(txn[r]) /\ SettledAs(txn[r].call.job, "Claimed")
        /\ Save(r, Some(recipe.makes), EmptyFn, recipe.xp)
    BY <1>5, ClaimSettles DEF SaveClaim, Earned
  <2>2. TaughtBy(c)' = TaughtBy(c) + (IF c = CharOf(r) THEN recipe.xp ELSE 0)
    BY <2>1, EndTeaches
  <2>3. recipe.xp \in Nat
    BY <2>1, EndedJob, JobRecipes
  <2> HIDE DEF recipe
  <2>4. xp'[c] = xp[c] + (IF c = CharOf(r) THEN recipe.xp ELSE 0)
    BY <1>1, <1>2, <2>1, <2>3, SavesWhatIs
  <2> QED BY <1>1, <1>2, <2>2, <2>3, <2>4
<1>6. ASSUME NEW r \in Requests, SaveCancel(r) PROVE xp'[c] = InitialXp[c] + TaughtBy(c)'
  <2>1. /\ txn[r].pc = "save" /\ Ends(txn[r]) /\ SettledAs(txn[r].call.job, "Cancelled")
        /\ Save(r, Some(Refund(r)), EmptyFn, 0)
    BY <1>6, CancelSettles DEF SaveCancel, Earned
  <2>2. TaughtBy(c)' = TaughtBy(c) + 0
    BY <2>1, EndTeaches
  <2>3. xp' = xp
    BY <2>1 DEF Save
  <2> QED BY <1>1, <1>2, <2>2, <2>3
<1>7. ASSUME NEW r \in Requests, SaveStore(r) PROVE xp'[c] = InitialXp[c] + TaughtBy(c)'
  <2>1. xp' = xp /\ UNCHANGED jobs
    BY <1>7 DEF SaveStore, Save
  <2> QED BY <1>1, <2>1, TaughtStands
<1> QED BY <1>3, <1>4, <1>5, <1>6, <1>7, RowSteps

(* Experience is what the claimed jobs taught: no claim overwrites another.   *)
THEOREM ClaimsAreTaught == Spec => []WorkPaid
<1>1. Init => WorkPaid /\ OnlyCancelledGiveBack
  <2> SUFFICES ASSUME Init PROVE WorkPaid /\ OnlyCancelledGiveBack
    OBVIOUS
  <2>1. ASSUME NEW c \in Characters PROVE xp[c] = InitialXp[c] + TaughtBy(c)
    <3>1. JobsOf(c) = {}
      BY EmptyPartial DEF Init, JobsOf
    <3>2. TaughtBy(c) = 0
      BY <3>1, SumOfNothing DEF TaughtBy
    <3> QED BY <3>2, IndustryTxnAssumption DEF Init
  <2> QED BY <2>1 DEF Init, WorkPaid, OnlyCancelledGiveBack
<1> QED BY <1>1, InitControl, NextControl, InitInTurn, NextInTurn, NextUpToDate, NextGivesBack,
        NextWorkPaid, PTL DEF Spec

LEMMA StartGains ==
    ASSUME Control, NEW r \in Requests, SaveStart(r), NEW i \in Items
    PROVE  /\ UsedBy(r)[i] \in Nat
           /\ Gain(Consumed(r), i) \in Int /\ Gain(Carried(r), i) \in Int
           /\ Gain(Consumed(r), i) + Gain(Carried(r), i) = -UsedBy(r)[i]
<1>1. /\ TypeOK /\ txn[r].call \in Calls /\ OpOf(r) = "start" /\ Decided(r)
  BY DEF SaveStart, Control, CallsMade, Busy, Prepared
<1>2. UsedBy(r)[i] \in Nat /\ TopUps(r)[i] \in 0 .. UsedBy(r)[i]
  BY <1>1, StartTakes DEF Amounts
<1>3. Gain(Consumed(r), i) = IF UsedBy(r)[i] > 0 THEN TopUps(r)[i] - UsedBy(r)[i] ELSE 0
  BY DEF Gain, Consumed
<1>4. Gain(Carried(r), i) = IF TopUps(r)[i] > 0 THEN -TopUps(r)[i] ELSE 0
  BY DEF Gain, Carried
<1> QED BY <1>2, <1>3, <1>4

LEMMA SomeGains ==
    ASSUME NEW amounts \in Amounts, NEW i \in Items
    PROVE  /\ amounts[i] \in Nat
           /\ Gain(Some(amounts), i) = amounts[i] /\ Gain(EmptyFn, i) = 0
<1>1. amounts[i] \in Nat
  BY DEF Amounts
<1>2. Gain(Some(amounts), i) = IF amounts[i] > 0 THEN amounts[i] ELSE 0
  BY DEF Gain, Some
<1>3. Gain(EmptyFn, i) = 0
  BY EmptyPartial DEF Gain
<1> QED BY <1>1, <1>2, <1>3

LEMMA StoreGains ==
    ASSUME Control, NEW r \in Requests, SaveStore(r), NEW i \in Items
    PROVE  /\ Gain(Stored(r), i) \in Int /\ Gain(Unpacked(r), i) \in Int
           /\ Gain(Stored(r), i) + Gain(Unpacked(r), i) = 0
<1>1. txn[r].call.quantity \in Nat
  BY CallsTyped DEF SaveStore, Control, CallsMade, Busy, OpOf
<1>2. Gain(Stored(r), i) = IF i = txn[r].call.item THEN txn[r].call.quantity ELSE 0
  BY DEF Gain, Stored
<1>3. Gain(Unpacked(r), i) = IF i = txn[r].call.item THEN -txn[r].call.quantity ELSE 0
  BY DEF Gain, Unpacked
<1> QED BY <1>1, <1>2, <1>3

(* What a character holds of an item, and what its jobs account for.          *)
Balanced(c, i) ==
    hangar[c][i] + pockets[c][i] + TakenBy(c, i)
        = InitialHangar[c][i] + InitialPockets[c][i] + GivenBack(c, i) + MadeBy(c, i)

LEMMA NextGoods ==
    ASSUME Control, InTurn, UpToDate, GoodsAddUp, OnlyCancelledGiveBack, [Next]_vars
    PROVE  GoodsAddUp'
<1> SUFFICES ASSUME NEW c \in Characters, c \notin mixed', NEW i \in Items
             PROVE  Balanced(c, i)'
  BY DEF GoodsAddUp, Balanced
<1>1. c \notin mixed /\ Balanced(c, i)
  BY NextInTurn DEF GoodsAddUp, Balanced
<1>2. hangar[c][i] \in Int /\ pockets[c][i] \in Int
  BY DEF Control, TypeOK, Amounts
<1>3. InitialHangar[c][i] \in Int /\ InitialPockets[c][i] \in Int
  BY IndustryTxnAssumption DEF Amounts
<1>4. TakenBy(c, i) \in Int /\ GivenBack(c, i) \in Int /\ MadeBy(c, i) \in Int
  BY SumsTyped
<1>5. CASE UNCHANGED dbVars
  BY <1>1, <1>5, SumsStand DEF dbVars, Balanced
<1>6. ASSUME NEW r \in Requests, SaveStart(r) PROVE Balanced(c, i)'
  <2>1. txn[r].pc = "save" /\ Save(r, Consumed(r), Carried(r), 0)
    BY <1>6 DEF SaveStart
  <2>2. /\ hangar'[c][i] = hangar[c][i] + (IF c = CharOf(r) THEN Gain(Consumed(r), i) ELSE 0)
        /\ pockets'[c][i] = pockets[c][i] + (IF c = CharOf(r) THEN Gain(Carried(r), i) ELSE 0)
    BY <1>1, <1>2, <2>1, SavesWhatIs
  <2>3. /\ TakenBy(c, i)' = TakenBy(c, i) + (IF c = CharOf(r) THEN UsedBy(r)[i] ELSE 0)
        /\ GivenBack(c, i)' = GivenBack(c, i) /\ MadeBy(c, i)' = MadeBy(c, i)
    BY <1>6, StartAdds
  <2>4. /\ UsedBy(r)[i] \in Nat
        /\ Gain(Consumed(r), i) \in Int /\ Gain(Carried(r), i) \in Int
        /\ Gain(Consumed(r), i) + Gain(Carried(r), i) = -UsedBy(r)[i]
    BY <1>6, StartGains
  <2> QED BY <1>1, <1>2, <1>3, <1>4, <2>2, <2>3, <2>4 DEF Balanced
<1>7. ASSUME NEW r \in Requests, SaveClaim(r) PROVE Balanced(c, i)'
  <2> DEFINE recipe == RecipeOf(txn[r].call.job)
  <2>1. /\ txn[r].pc = "save" /\ Ends(txn[r]) /\ SettledAs(txn[r].call.job, "Claimed")
        /\ Save(r, Some(recipe.makes), EmptyFn, recipe.xp)
    BY <1>7, ClaimSettles DEF SaveClaim, Earned
  <2>2. recipe.makes \in Amounts /\ recipe.xp \in Nat
    BY <2>1, EndedJob, JobRecipes
  <2>3. /\ TakenBy(c, i)' = TakenBy(c, i) /\ GivenBack(c, i)' = GivenBack(c, i)
        /\ MadeBy(c, i)' = MadeBy(c, i) + (IF c = CharOf(r) THEN recipe.makes[i] ELSE 0)
    <3>1. Nothing \in Amounts /\ Nothing[i] = 0
      BY DEF Nothing, Amounts
    <3>2. /\ TakenBy(c, i)' = TakenBy(c, i)
          /\ GivenBack(c, i)' = GivenBack(c, i) + (IF c = CharOf(r) THEN Nothing[i] ELSE 0)
          /\ MadeBy(c, i)' = MadeBy(c, i) + (IF c = CharOf(r) THEN recipe.makes[i] ELSE 0)
      BY <1>7, <2>1, <3>1, ClaimGives, EndAdds
    <3> QED BY <1>4, <3>1, <3>2
  <2> HIDE DEF recipe
  <2>4. /\ hangar'[c][i] = hangar[c][i] + (IF c = CharOf(r) THEN recipe.makes[i] ELSE 0)
        /\ pockets'[c][i] = pockets[c][i] /\ recipe.makes[i] \in Nat
    BY <1>1, <1>2, <2>1, <2>2, SavesWhatIs, SomeGains
  <2> QED BY <1>1, <1>2, <1>3, <1>4, <2>3, <2>4 DEF Balanced
<1>8. ASSUME NEW r \in Requests, SaveCancel(r) PROVE Balanced(c, i)'
  <2>1. /\ txn[r].pc = "save" /\ Ends(txn[r]) /\ SettledAs(txn[r].call.job, "Cancelled")
        /\ Save(r, Some(Refund(r)), EmptyFn, 0)
    BY <1>8, CancelSettles DEF SaveCancel, Earned
  <2>2. Refund(r) \in Amounts
    BY <1>8, CancelGives
  <2>3. /\ TakenBy(c, i)' = TakenBy(c, i) /\ MadeBy(c, i)' = MadeBy(c, i)
        /\ GivenBack(c, i)' = GivenBack(c, i) + (IF c = CharOf(r) THEN Refund(r)[i] ELSE 0)
    BY <1>4, <1>8, <2>1, <2>2, CancelGives, EndAdds
  <2>4. /\ hangar'[c][i] = hangar[c][i] + (IF c = CharOf(r) THEN Refund(r)[i] ELSE 0)
        /\ pockets'[c][i] = pockets[c][i] /\ Refund(r)[i] \in Nat
    BY <1>1, <1>2, <2>1, <2>2, SavesWhatIs, SomeGains
  <2> DEFINE back == IF c = CharOf(r) THEN Refund(r)[i] ELSE 0
  <2>5. back \in Int
    BY <2>2 DEF Amounts
  <2>6. /\ GivenBack(c, i)' = GivenBack(c, i) + back /\ hangar'[c][i] = hangar[c][i] + back
        /\ pockets'[c][i] = pockets[c][i]
        /\ TakenBy(c, i)' = TakenBy(c, i) /\ MadeBy(c, i)' = MadeBy(c, i)
    BY <2>3, <2>4
  <2> HIDE DEF back
  <2> QED BY <1>1, <1>2, <1>3, <1>4, <2>5, <2>6 DEF Balanced
<1>9. ASSUME NEW r \in Requests, SaveStore(r) PROVE Balanced(c, i)'
  <2>1. /\ txn[r].pc = "save" /\ Save(r, Stored(r), Unpacked(r), 0)
        /\ UNCHANGED <<jobs, returned>>
    BY <1>9 DEF SaveStore
  <2>2. /\ hangar'[c][i] = hangar[c][i] + (IF c = CharOf(r) THEN Gain(Stored(r), i) ELSE 0)
        /\ pockets'[c][i] = pockets[c][i] + (IF c = CharOf(r) THEN Gain(Unpacked(r), i) ELSE 0)
    BY <1>1, <1>2, <2>1, SavesWhatIs
  <2>3. /\ Gain(Stored(r), i) \in Int /\ Gain(Unpacked(r), i) \in Int
        /\ Gain(Stored(r), i) + Gain(Unpacked(r), i) = 0
    BY <1>9, StoreGains
  <2> QED BY <1>1, <1>2, <1>3, <1>4, <2>1, <2>2, <2>3, SumsStand DEF Balanced
<1> QED BY <1>5, <1>6, <1>7, <1>8, <1>9, RowSteps

(* What a character holds is what it had, less what its jobs took, with what  *)
(* they gave back and made: inputs are used, returned or turned into outputs. *)
THEOREM GoodsConserved == Spec => []GoodsAddUp
<1>1. Init => GoodsAddUp /\ OnlyCancelledGiveBack
  <2> SUFFICES ASSUME Init PROVE GoodsAddUp /\ OnlyCancelledGiveBack
    OBVIOUS
  <2>1. ASSUME NEW c \in Characters, NEW i \in Items PROVE Balanced(c, i)
    <3>1. JobsOf(c) = {}
      BY EmptyPartial DEF Init, JobsOf
    <3>2. TakenBy(c, i) = 0 /\ GivenBack(c, i) = 0 /\ MadeBy(c, i) = 0
      BY <3>1, SumOfNothing DEF TakenBy, GivenBack, MadeBy
    <3> QED BY <3>2, IndustryTxnAssumption DEF Init, Balanced, Amounts
  <2> QED BY <2>1 DEF Init, GoodsAddUp, Balanced, OnlyCancelledGiveBack
<1> QED BY <1>1, InitControl, NextControl, InitInTurn, NextInTurn, NextUpToDate, NextGivesBack,
        NextGoods, PTL DEF Spec

================================================================================
