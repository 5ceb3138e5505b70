SPECIFICATION Spec

CONSTANTS
  Url <- FewUrls
  Inbox <- Inboxes
  ActorUrl <- Document
  PrivateHost = {"internal"}
  LocalName = {"local"}
  AllowPrivate = FALSE
  AllowHTTP = FALSE
  MaxRedirects = 3
  Redirect = {"get"}
  Skew = 0
  Window = 1
  MaxCalls = 1
  MaxTime = 0

CHECK_DEADLOCK FALSE

INVARIANT OkMeansTaken
