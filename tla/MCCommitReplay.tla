--------------------------- MODULE MCCommitReplay ---------------------------
(***************************************************************************)
(* One line committed by a person, two more written by a person or two     *)
(* agents, two more commits.                                               *)
(***************************************************************************)
EXTENDS CommitReplay

CONSTANTS a1, a2

OneLine == <<1>>

\* Two situations: two edits, and a single one with a deletion.
MCInit ==
  /\ \/ deletes = MaxDeletes /\ edits = 0
     \/ deletes = 0 /\ edits = MaxEdits - 1
  /\ work = Base /\ index = Base /\ trees = <<Base>> /\ modified = 0
  /\ edit = [a \in Agents |-> Idle]
  /\ queue = <<>> /\ log = [c \in 1..MaxCommits |-> EmptyLog] /\ notes = <<>>
  /\ by = [l \in DOMAIN Base |-> Human] /\ doubtful = {} /\ missed = {}

\* a2 is at work only after a1: all that is there when edits overlap is in doubt.
InTurn == Open(a2) => ~Open(a1) /\ a1 \in {by[l] : l \in DOMAIN by}

MCNext == Next /\ InTurn'

MCSpec == MCInit /\ [][MCNext]_vars
=============================================================================
