SPECIFICATION Spec
CONSTANTS
  Networks <- MCNetworks
  MaxLate = 2
  MaxRouted = 2
INVARIANTS
    CommitteesAgree
    VotesCertified
    OnlyDestinations
PROPERTIES
    DestinationsReached
