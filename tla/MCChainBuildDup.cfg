CONSTANTS
  FnOrder <- MCFnOrder
  MaxVariants = 2
  BindChoices <- MCBindsPlain
  MapDecls <- MCMapDecls
  LinkChoices <- MCLinksDup
  MaxLinks = 4

SPECIFICATION Spec
CHECK_DEADLOCK FALSE

INVARIANT ActsMatchVariants
