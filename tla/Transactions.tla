------------------------------ MODULE Transactions ------------------------------
(****************************************************************************)
(* What every service's requests share: Postgres row locks, which a          *)
(* transaction keeps until it ends, the deadlocks they can make, and the     *)
(* rows an EF Core context tracks, as a function of their keys.              *)
(****************************************************************************)
EXTENDS Naturals

(* The holder of a free row; requests are numbered from 1.                   *)
Nobody == 0

EmptyFn == [x \in {} |-> 0]
Put(f, x, v) == [y \in DOMAIN f \cup {x} |-> IF y = x THEN v ELSE f[y]]
IsPartialFn(f, S, T) == DOMAIN f \subseteq S /\ f \in [DOMAIN f -> T]

Free(lock, x, r) == lock[x] = Nobody \/ lock[x] = r

(* Fault: the transaction is never disposed of.                              *)
KeptAfterwards(lock, r) == lock

Released(lock, r) == [x \in DOMAIN lock |-> IF lock[x] = r THEN Nobody ELSE lock[x]]

(* The other requests that hold some of the rows.                            *)
HoldersOf(lock, rows, r) == {lock[x] : x \in rows} \ {Nobody, r}

(* r is one of a set of requests that wait only for one another.             *)
Stuck(r, waitsFor) ==
    waitsFor[r] # {} /\ \E S \in SUBSET DOMAIN waitsFor :
        /\ r \in S
        /\ \A s \in S : waitsFor[s] # {} /\ waitsFor[s] \subseteq S

================================================================================
