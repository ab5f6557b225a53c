CONSTANTS
  FnOrder <- MCFnOrder
  MaxVariants = 2
  BindChoices <- MCBinds
  MapDecls <- MCMapDecls
  LinkChoices <- MCLinks
  MaxLinks = 3
  XdpCores = 2
  MaxTailCalls = 33
SPECIFICATION MCSpecOneLink
CHECK_DEADLOCK FALSE
INVARIANT NoHotPathPanic
