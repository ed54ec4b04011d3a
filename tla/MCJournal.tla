----------------------------- MODULE MCJournal -----------------------------
(* The journal with two records of two contents each.                        *)
EXTENDS Journal, SequencesExt

MCKeys == {"job", "other"}
MCContents == {"none", "old", "new"}

\* Replay is what loadJournal does, one entry after the other.
ReplayOneByOne(state, lines) ==
  FoldLeft(LAMBDA s, e : [k \in Keys |-> IF k \in DOMAIN e THEN e[k] ELSE s[k]],
           state, lines)

ASSUME ReplayIsLoadJournal ==
  \A state \in States, lines \in SeqOf(Entries, 2) :
    Replay(state, lines) = ReplayOneByOne(state, lines)
=============================================================================
