CONSTANTS
    loop = loop  other = other  main = main  web = web  NoCopy = NoCopy
    Store = {main, web}
    Home = main
    Loop = loop
    Other = {other}
    Does <- Errands
    Setting = {0, 1}
    TTL = 1
    MaxStops = 1
SPECIFICATION FairSpec
INVARIANTS BoundedStaleness Coherent
PROPERTIES FlagServed
