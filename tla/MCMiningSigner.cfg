SPECIFICATION SignerSpec
CONSTANTS
  License = {l1, l2}
  Scope = {s1, s2}
  Body = {b1, b2}
  Proc = {p1, p2}
  NoContent = NoContent
  Unlocked = Unlocked
SYMMETRY SignerSymmetry
INVARIANTS NoEquivocation SignedIsDurable OneBinding
