SPECIFICATION Spec

CONSTANTS
  Url <- SomeUrls
  Inbox <- Inboxes
  ActorUrl <- Document
  PrivateHost = {"internal"}
  LocalName = {"local"}
  AllowPrivate = FALSE
  AllowHTTP = FALSE
  MaxRedirects = 3
  Redirect = {"keep", "get"}
  Skew = 1
  Window = 2
  MaxCalls = 2
  MaxTime = 4

CHECK_DEADLOCK FALSE

INVARIANT AcceptedAsSigned
INVARIANT RefusedForCause
INVARIANT OnlyAllowedDialled
INVARIANT AnsweredFailureNotTaken
INVARIANT TakenOnce
