CONSTANTS
  FnOrder <- MCFnOrder
  MaxVariants = 2
  BindChoices <- MCBinds
  MapDecls <- MCMapDecls
  LinkChoices <- MCLinks
  MaxLinks = 3

SPECIFICATION Spec
CHECK_DEADLOCK FALSE

INVARIANT TypeOK
INVARIANT OneRoot
