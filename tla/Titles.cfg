SPECIFICATION Spec

CONSTANTS
  s1 = s1
  s2 = s2
  c1 = c1
  c2 = c2
  private = private
  i1 = i1
  i2 = i2
  j1 = j1
  k1 = k1
  noNote = noNote
  u1 = u1
  u2 = u2
  v1 = v1
  w1 = w1
  noUrl = noUrl
  t1 = t1
  t2 = t2
  a1 = a1
  a2 = a2
  Retention = 10
  Series <- TwoSeries
  Conv = {c1, c2}
  Private = private
  Note <- TitleNotes
  SeriesOf <- TitleSeriesMap
  UrlOf <- TitleUrlMap
  NoUrl = noUrl
  Replyable <- TitleNotes
  Text = {t1}
  EchoMarked = {FALSE}
  FaultKinds = {"zulip", "outbox", "refused"}
  MaxPosts = 2
  MaxNative = 1
  MaxFaults = 1
  Explicit <- ExplicitSecond
  AllowTitleMatching = TRUE
  TitleMatch <- SameTitles
  NoNote = noNote
  Listed <- TitleNotes
  AllowedConv = {c1, c2}
  MaxMsgs = 3
  Long = {}
  MaxLong = 0
  MaxDeliveries = 1
  Admins = {}
  Bindable = {}
  MaxOps = 0
  MaxTime = 0
  PassTimeout = 1

INVARIANT DeliveriesBounded
INVARIANT NoDuplicateDelivery
INVARIANT EchoNotMirrored
PROPERTY BindingSticks
PROPERTY MirroredWhereBound
