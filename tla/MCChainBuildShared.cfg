CONSTANTS
  FnOrder <- MCFnOrder
  MaxVariants = 2
  BindChoices <- MCBindsShared
  MapDecls <- MCMapDecls
  LinkChoices <- MCLinksDup
  MaxLinks = 3

SPECIFICATION Spec
CHECK_DEADLOCK FALSE

INVARIANT SharedMapsResolve
