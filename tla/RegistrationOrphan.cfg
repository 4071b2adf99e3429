\* One refused registration is enough to leave the next user without a balance.
SPECIFICATION Spec
CONSTANTS
  Names = {ann, bob, cyd}
  Banks = {KU, YU}
  MaxAttempts = 6
INVARIANT EveryUserHasAccount
