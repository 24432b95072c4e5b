------------------------------- MODULE Columns -------------------------------
(***************************************************************************)
(* What a row becomes when a session of db/engine.py writes it. An object  *)
(* keeps the row as it was read; a flush sends an UPDATE with the columns  *)
(* that differ from it, whatever the row has become in the meantime.       *)
(***************************************************************************)

\* The columns of new that an object read as old sends.
Changed(old, new) ==
    [column \in {c \in DOMAIN new : new[c] # old[c]} |-> new[column]]

\* The row after the UPDATE.
Overwritten(row, sent) ==
    [column \in DOMAIN row |->
        IF column \in DOMAIN sent THEN sent[column] ELSE row[column]]

\* An object read as old and left as new is flushed on the row.
Merged(row, old, new) == Overwritten(row, Changed(old, new))
=============================================================================
