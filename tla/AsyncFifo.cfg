CONSTANTS Data = {0, 1}  Depth = 4
SPECIFICATION FairSpec
INVARIANTS FlagsAreConservative
PROPERTIES ImplementsQueue FlagsCatchUp
