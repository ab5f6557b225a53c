CONSTANTS
  FnOrder <- MCFnOrder
  MaxVariants = 2
  BindChoices <- MCBindsPlain
  MapDecls <- MCMapDecls
  LinkChoices <- MCLinks
  MaxLinks = 3

SPECIFICATION Spec
CHECK_DEADLOCK FALSE

INVARIANT AcceptsSpecValid
