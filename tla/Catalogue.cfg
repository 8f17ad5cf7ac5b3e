CONSTANTS
  Barcodes = {1, 2, 3}
  Edited = {1}
  Payloads <- MCPayloads
  Changes <- MCChanges
  Files <- MCFiles
  ImportRows = 2
  Rates <- MCRates
  ActiveLimit = 2
  Fine = 3
  Limit = 3
  GramParts = 2
SPECIFICATION CatalogueSpec
CHECK_DEADLOCK FALSE
INVARIANTS
  RowsAreSound
  OnlyOddNumbersFail
  
  ExportImportsBack
