SPECIFICATION Spec
CONSTANTS
  Holder = {t1, t2, h1, h2}
  Text = {t1, t2}
  Pool = 16
  Sizes = {1, 3, 4}
SYMMETRY HolderSymmetry
INVARIANTS TypeOK OwnersSafe BuddySystem
