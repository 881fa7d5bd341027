CONSTANTS
    bot = bot  paper = paper  live = live
    t1 = t1  t2 = t2  t3 = t3  Nobody = Nobody
    Conns = {bot}
    Account <- OneInstance
    Demo = {paper}
    Before = live
    Chains = {t1, t2}
    Callers = {t3}
    Of <- OfBot
    MaxTimeouts = 1
    MaxDrops = 1
SPECIFICATION FairSpec
INVARIANTS SomeoneTries OnlyConfigured
PROPERTIES Connects
CHECK_DEADLOCK FALSE
