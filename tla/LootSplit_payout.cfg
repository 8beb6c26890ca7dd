SPECIFICATION Spec
CONSTANTS
  g1 = g1
  g2 = g2
  Bob = Bob
  bob = bob
  Eve = Eve
  Guild = {g1}
  User = {u1}
  Name = {Bob, Eve}
  GuildList = {"list"}
  Split = {s1}
  Panel = {p1}
  RowId = {1, 2}
  Account <- PlainAccounts
  NameOf <- PlainNameOf
  GuildOf <- PlainGuildOf
  ListOf <- PlainListOf
  Lower <- PlainLower
  Job = {j1}
  NoList = "N/A"
  None = None
  MaxRuns = 1
INVARIANTS
  TypeOK
  MemberOnce
  PaidInFull
