SPECIFICATION Spec
CONSTANTS
  Requests = {r1, r2}
  Keys = {k1, k2}
  RecoveryCodes = 1
  MaxAttempts = 2
  MaxSecrets = 2
  MaxStep = 4
  Races = {}
CHECK_DEADLOCK FALSE
SYMMETRY Symmetry
INVARIANTS TypeOK GuessesAreClaimed CodeUsedOnce
PROPERTIES ReplacedOnlyWithProof OfferIsNotLost PaperStaysGood
