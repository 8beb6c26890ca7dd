SPECIFICATION Spec
CONSTANTS
  g1 = g1
  g2 = g2
  Bob = Bob
  bob = bob
  Eve = Eve
  Guild = {g1}
  User = {u1}
  Name = {Bob}
  GuildList = {"list"}
  Split = {s1}
  Panel = {p1}
  RowId = {1, 2}
  Account <- SoloAccounts
  NameOf <- SoloNameOf
  GuildOf <- SoloGuildOf
  ListOf <- SoloListOf
  Lower <- SoloLower
  Job = {j1}
  NoList = "N/A"
  None = None
  MaxRuns = 2
INVARIANTS
  ConfirmedOnce
