\* Pages of 4, and sizes below, at and above a page, with none at all.
SPECIFICATION Spec
CONSTANTS
  h1 = h1
  h2 = h2
  h3 = h3
  h4 = h4
  Handles = {h1, h2, h3, h4}
  Page = 4
  FirstBase = 8
  Sizes = {0, 1, 4, 6}
SYMMETRY Symmetric
INVARIANTS
  TypeOK
  PointerMeaning
  NoSpill
