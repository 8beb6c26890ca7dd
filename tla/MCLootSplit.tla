---------------------------- MODULE MCLootSplit ----------------------------
(* Instances of LootSplit for TLC.  Accounts are numbered. *)
EXTENDS LootSplit, TLC

CONSTANTS g1, g2, Bob, bob, Eve

(* One guild, two players. *)
PlainAccounts == 11..12
PlainNameOf == 11 :> Bob @@ 12 :> Eve
PlainGuildOf == 11 :> g1 @@ 12 :> g1
PlainListOf == 11 :> "list" @@ 12 :> "list"
PlainLower == Bob :> Bob @@ Eve :> Eve

(* Bob plays in two guilds; in the first he was also added one by one. *)
TwinAccounts == 11..13
TwinNameOf == 11 :> Bob @@ 12 :> Bob @@ 13 :> Bob
TwinGuildOf == 11 :> g1 @@ 12 :> g2 @@ 13 :> g1
TwinListOf == 11 :> "list" @@ 12 :> "list" @@ 13 :> "N/A"
TwinLower == Bob :> Bob

(* One guild, one player. *)
SoloAccounts == 11..11
SoloNameOf == 11 :> Bob
SoloGuildOf == 11 :> g1
SoloListOf == 11 :> "list"
SoloLower == Bob :> Bob

(* Two spellings of a name, of which one is listed. *)
CaseAccounts == 11..11
CaseNameOf == 11 :> Bob
CaseGuildOf == 11 :> g1
CaseListOf == 11 :> "N/A"
CaseLower == Bob :> bob @@ bob :> bob
=============================================================================
