SPECIFICATION Spec
CONSTANTS
  PointTable <- PointTableDef
  Primary <- PrimaryDef
  SettingTable <- SettingTableDef
  Families <- FamiliesDef
  Figures <- FiguresDef
  MaxStarts = 3
  MaxBad = 1
INVARIANTS DirectoryTells ReportsMeasured
PROPERTIES NothingTwice
