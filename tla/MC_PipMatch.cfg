\* pip_match_sound: the line match never accepts another package's line.
CONSTANT Upper <- MCUpper
SPECIFICATION Spec
INVARIANT MatchSound
