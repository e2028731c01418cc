\* HIDS: four addresses compete for three entries of the table and two of the
\* list.  FIM: two files, an array of two entries, and one entry past its end that a
\* second call writes.  Firewall: three callers of one address, and one crash.
CONSTANTS
    Addresses = {p, q, r, s}
    MAX_IPS = 3
    MAX_LISTED = 2
    MaxLines = 3
    Paths = {f1, f2}
    Hashes = {h1, h2}
    absent = absent
    torn = torn
    MAX_FILES = 2
    MaxArguments = 2
    MaxEntries = 3
    Callers = {p, q, r}
    Hosts = {x1}
    none = none
    MaxRules = 3
    MaxCrashes = 1
SPECIFICATION MCSpec
INVARIANTS AttackersAreListed ListedIsExplained FileIsEndOfMemory DuplicatesOnlyByRace PermanentBlockHolds TimedBlocksEnd EstablishedSurvive
PROPERTIES ChangesAreAnnounced AlarmsAreExplained
SYMMETRY Symmetry
