\* Two users who search and press each other's cards, a restart and a fault anywhere.
SPECIFICATION FairSpec
CONSTANTS
  Users = {1, 2}
  Strains = {1}
  Legacy <- FirstHasTwo
  Buffer = 1
  MaxUpdates = 3
  MaxCrashes = 1
  MaxTokens = 3
  MaxFaults = 1
INVARIANTS TypeOK OneEncounterPerCard ParityKeepsItsPair FanoutsAreFinds EveryPressCounts
PROPERTIES ImplementsIntake ImplementsFairIntake
