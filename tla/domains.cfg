SPECIFICATION FairSpec
CONSTANT Environments <- MCEnvironments

INVARIANTS DomainState CliFollows ReleasedClean TracedOwned
PROPERTY QuitEnds
CHECK_DEADLOCK FALSE
