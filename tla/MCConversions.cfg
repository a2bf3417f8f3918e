SPECIFICATION Spec
CONSTANTS
  None = none
  MARKER <- MCMarker
  MaxId = 4
  MaxSig = 3
  Ids <- MCIds
  Sigs <- MCSigs
  Data = data  Space = space  LF = lf  DoneText = done  Json = json  Char = char
  Streams <- MCStreams
  MaxU64 = 2  Absent = absent  Negative = negative  Fraction = fraction  Text = text
  Project = project  Global = "global"
  region1 = region1  region2 = region2  proxy = proxy
  Regions <- MCRegions
  Proxies <- MCProxies
  letter = letter  digit = digit  text = someText  two = twoAsText  half = half
  Google = google  Slash = slash
  Digits = {digit}
  Character <- MCCharacter
  DefaultAliases <- MCDefaultAliases
  Tables <- MCTables
  NotUnicode = notUnicode  Blank = blank  Malformed = malformed
  CallSeqs <- MCCallSeqs
  Bodies <- MCBodies
INVARIANTS
  RoundTrip
  SafeCharset
  MalformedIsRejected
  FramesReadBack
  CountsSurvive
  AddressAgrees
  RequestPassedOn
  MistakesSurface
CHECK_DEADLOCK FALSE
