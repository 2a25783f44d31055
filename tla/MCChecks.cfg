SPECIFICATION Spec
CONSTANTS
  MaxDepth = 3
  MaxNodes = 5
  MaxItems = 3
  MaxLinks = 1
  MaxResources = 5
  MaxValueDepth = 4
  MaxValueItems = 40
  FaultsOfOption <- OptionFaultsOf
  EqualOptions <- SameOptionAs
  FaultsOfView <- ViewFaultsOf
  WithDefaults <- FilledTemplate
INVARIANTS
  RecordsAgree
  VersionsAgree
  Base64IsCanonical
  TemplatesMean
  LoadedConfigIsSound
  ReloadsAreExact
  ScenesAreLaidOut
