CONSTANTS
  Staged = {a1, a2}
  Stray = stray
  Ids = {i1, i2}
  NoRelease = NoRelease
SPECIFICATION Spec
INVARIANT TypeOK
INVARIANT OnlyOwnDraft
INVARIANT CreatedOnce
PROPERTY ImplementsRelease
PROPERTY PublishesExactly
CHECK_DEADLOCK FALSE
