SPECIFICATION Spec
CONSTANTS
  MaxWord = 15
  MaxSize = 15
  SectorSize = 2
  KolySize = 2
  MaxRunBytes = 8
  AdcSlack = 1
  OverflowChecks = TRUE
  Files <- MCFiles
  Kolys <- MCKolys
  KolyVersion = 4
  NoKoly = NoKoly
  MaxChanges = 1
INVARIANTS
  TypeOK
  ReportIsExact
  NoFalseAssurance
  NoFalseAlarm
