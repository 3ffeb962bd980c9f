SPECIFICATION DriversSpec
CONSTANTS
  MaxOpened = 2
  MaxTogether = 3
  d1 = d1
  d2 = d2
  d3 = d3
  r1 = r1
  r2 = r2
  Devices = {d1, d2, d3}
  Masters = {0, 1}
  MasterOf <- MCMasterOf
  Translated = {d1, d2}
  Resetters = {r1, r2}
  None = None
SYMMETRY MCSymmetry
INVARIANTS LifeSafe ServedWhole TranslatedWhileBound NotLeftInReset FaultsEndInReset
