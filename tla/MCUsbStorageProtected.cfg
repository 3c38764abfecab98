\* One disk is enough: it comes, goes and comes again.
SPECIFICATION Spec
CONSTANTS
    Devs <- MCDevs
    NameIn <- MCNameIn
    INT_MAX = 3
INVARIANT Protected
