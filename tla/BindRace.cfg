SPECIFICATION Spec

CONSTANTS
  s1 = s1
  s2 = s2
  c1 = c1
  c2 = c2
  private = private
  i1 = i1
  i2 = i2
  j1 = j1
  k1 = k1
  noNote = noNote
  u1 = u1
  u2 = u2
  v1 = v1
  w1 = w1
  noUrl = noUrl
  t1 = t1
  t2 = t2
  a1 = a1
  a2 = a2
  Retention = 10
  Series <- OneSeries
  Conv = {c1}
  Private = private
  Note <- BoundNotes
  SeriesOf <- BoundSeriesMap
  UrlOf <- BoundUrlMap
  NoUrl = noUrl
  Replyable <- TwoNotes
  Text = {t1}
  EchoMarked = {FALSE}
  FaultKinds = {}
  MaxPosts = 0
  MaxNative = 0
  MaxFaults = 0
  Explicit <- NoExplicit
  AllowTitleMatching = FALSE
  TitleMatch <- NoTitlesOne
  NoNote = noNote
  Listed <- BoundNotes
  AllowedConv = {c1}
  MaxMsgs = 10
  Long = {}
  MaxLong = 0
  MaxDeliveries = 0
  Admins = {a1, a2}
  Bindable <- BoundNotes
  MaxOps = 2
  MaxTime = 0
  PassTimeout = 1

INVARIANT LinkedIsBound
