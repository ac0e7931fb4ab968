------------------------------- MODULE Lists -------------------------------
(***************************************************************************)
(* The doubly linked lists of ndis (LIST_ENTRY) as sequences.              *)
(***************************************************************************)
EXTENDS SequencesExt

\* InsertTailList is Append.  RemoveEntryList: an entry is on a list once.
Unlink(list, e) ==
    IF e \in ToSet(list)
    THEN RemoveAt(list, CHOOSE k \in 1..Len(list) : list[k] = e)
    ELSE list

\* The first entry of a list that is in found, or none.
FirstIn(list, found, none) ==
    LET hits == {k \in 1..Len(list) : list[k] \in found}
    IN  IF hits = {} THEN none
        ELSE list[CHOOSE k \in hits : \A j \in hits : k <= j]
=============================================================================
