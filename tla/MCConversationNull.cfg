SPECIFICATION Spec
CONSTANTS
  idA = idA  idB = idB  sig1 = sig1  sig2 = sig2  marker = marker  mangled = mangled
  Fragment <- MCFragment
  MARKER = marker
  Mangled = mangled
  Absent = absent
  Null = null
  Other = other
  Replies <- MCReplies
  Profiles = {"typed"}
  MaxLen = 6
INVARIANT
  SignatureRestored
