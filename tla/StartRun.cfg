SPECIFICATION Spec
CONSTANTS
  Requests <- AllRequests
  Texts <- AllTexts
  Artifacts <- TwoArtifacts
  Canon <- Canonical
  Reference <- EightLines
  Sidecar <- EightCurations
INVARIANTS
  TypeOK RoutedNeverEnters RejectedTouchesNothing CatalogBacked
  SeedsToldApart OrderIndependent EvidenceRanked InventoryForetells
CHECK_DEADLOCK FALSE
