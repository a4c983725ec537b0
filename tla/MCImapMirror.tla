--------------------------- MODULE MCImapMirror ----------------------------
(* ImapMirror for TLC: sessions that are alike.  One instance is about flags
   and their limits, the other about messages that come and go. *)
EXTENDS ImapMirror, TLC

CONSTANTS k1, k2

TwoKeywords == {k1, k2}
AllFlags == {Seen, Deleted, k1, k2}
DeletedOrKeyword == {{Deleted}, {k2}}
LoadedKeyword == {<<>>, <<{k1}>>}

SystemFlags == {Seen, Deleted}
DeletedOnly == {{Deleted}}
OneDeleted == {<<>>, <<{Deleted}>>}

Symmetry == Permutations(Sessions)
=============================================================================
