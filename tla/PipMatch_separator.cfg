\* pip_match_separator: a requirement spelled with "_" misses pip's "-" line.
CONSTANT Upper <- MCUpper
SPECIFICATION Spec
INVARIANT MatchComplete
