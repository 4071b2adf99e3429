\* Three names, six INSERTs: duplicates and rollbacks before, between and after
\* the registrations.
SPECIFICATION Spec
CONSTANTS
  Names = {ann, bob, cyd}
  Banks = {KU, YU}
  MaxAttempts = 6
INVARIANT TypeOK
INVARIANT SequencesDrift
INVARIANT AlignedUntilDuplicate
INVARIANT BanksOfUsers
INVARIANT UsersAreDistinct
PROPERTY NoInheritedBalance
