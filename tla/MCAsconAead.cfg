CONSTANTS
  Keyring <- MCKeyring
  Envelopes <- MCEnvelopes
SPECIFICATION Spec
INVARIANTS RoundTrip AlteredRejected KnownAnswer
CHECK_DEADLOCK FALSE
