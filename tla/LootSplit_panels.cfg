SPECIFICATION Spec
CONSTANTS
  g1 = g1
  g2 = g2
  Bob = Bob
  bob = bob
  Eve = Eve
  Guild = {g1}
  User = {u1, u2}
  Name = {Bob, bob}
  GuildList = {"list"}
  Split = {s1, s2}
  Panel = {p1, p2}
  RowId = {1}
  Account <- CaseAccounts
  NameOf <- CaseNameOf
  GuildOf <- CaseGuildOf
  ListOf <- CaseListOf
  Lower <- CaseLower
  Job = {}
  NoList = "N/A"
  None = None
  MaxRuns = 1
INVARIANTS
  OneActiveSession
  OnePanelAnswers
