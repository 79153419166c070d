CONSTANTS
  r1 = r1
  r2 = r2
  r3 = r3
  h1 = h1
  h2 = h2
  h3 = h3
  h4 = h4
  l1 = l1
  l2 = l2
  Zero = Zero
  None = None
  Remotes <- MCRemotes
  Holders <- MCHolders
  Locals <- MCLocals
  ModifyToUnusedOnly = FALSE
SPECIFICATION Spec
CONSTRAINT DeviceBound
SYMMETRY Symmetry
INVARIANT UniqueLiveRemote
