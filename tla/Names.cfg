SPECIFICATION Spec

CONSTANTS
  Char = {"a", "A", "b", " ", "-", "/", ".", "%", "(", ":"}
  Stream = {"stream5"}
  MaxLength = 3
  Title <- TitlesWithTraps
  KindWord = {"Issue", "Commit", "comment"}
  MaxContent = 6
  HashLength = 5
  MaxNotes = 2

INVARIANT KeyRoundTrip
INVARIANT UnbindsInnerSlashes
INVARIANT TrackbackOpensTopic
INVARIANT NormalizeIsWords
INVARIANT MatchesSameWords
INVARIANT EchoRecognised
