CONSTANTS
  FnOrder <- MCFnOrder
  MaxVariants = 2
  BindChoices <- MCBinds
  MapDecls <- MCMapDecls
  LinkChoices <- MCLinks
  MaxLinks = 4
  XdpCores = 2
  MaxTailCalls = 33
SPECIFICATION MCSpec
CHECK_DEADLOCK FALSE
INVARIANT PipelineTypeOK
INVARIANT HeadroomRoundTrip
PROPERTY WalkRefinement
INVARIANT InstallNoBadNfLink
INVARIANT InstallRejectsOutgrown
