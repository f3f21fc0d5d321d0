------------------------------- MODULE MCDeathTxn -------------------------------
(* Instances of DeathTxn for TLC.                                             *)
EXTENDS DeathTxn, TLC

Ada == 1
Bob == 2
MCCharacters == {Ada, Bob}
MCFaction == Ada :> "compact" @@ Bob :> "frontier"

Ore == 1
Gas == 2
MCMaterials == {Ore, Gas}

HitC(a, t, zone) == [op |-> "hit", char |-> a, target |-> t, zone |-> zone]
CostC(c) == [op |-> "cost", char |-> c]
RespawnC(c) == [op |-> "respawn", char |-> c]
LootC(c, wanted) == [op |-> "loot", char |-> c, wanted |-> wanted]

Packs(ore, gas) == (Ada :> None) @@ (Bob :> (Ore :> ore @@ Gas :> gas))

(* Ada is at home; Bob, her intruder, carries the goods.  He is hurt,  *)
(* or dead and owing; the world has placed him, or never has, or he is docked. *)
World(docked, placed, hurt) ==
    [docked |-> docked, placed |-> placed, health |-> Ada :> 2 @@ Bob :> hurt,
     carried |-> Packs(3, 1)]
MCWorlds == {World({}, {Bob}, 1), World({}, {}, 0), World({Bob}, {Bob}, 0)}
MCCalls == {HitC(Ada, Bob, "compact"), HitC(Bob, Ada, "compact"), CostC(Bob), RespawnC(Bob),
            LootC(Ada, {}), LootC(Bob, {Gas})}

(* Bob is shot and respawned, and no more.                                    *)
DyingCalls == {HitC(Ada, Bob, "compact"), RespawnC(Bob)}

================================================================================
