--------------------------- MODULE BackForwardList ---------------------------
(***************************************************************************)
(* What a page may do to its back/forward list, whatever messages and      *)
(* processes are behind it: the specification that Navigation implements.  *)
(***************************************************************************)
EXTENDS WebBackForwardList

CONSTANT Items   \* the item IDs there can be

VARIABLES
  entries,   \* m_entries
  cur        \* m_currentIndex + 1, or 0 without m_hasCurrentIndex

vars == <<entries, cur>>

Init == entries = << >> /\ cur = 0

AddItem ==
  \E item \in Range(entries') \cap Items, keep \in BOOLEAN :
    /\ ~IsListed(entries, item)
    /\ entries' = EntriesAfterAdd(entries, cur, item, keep)
    /\ cur' = Len(entries')

GoToItem ==
  \E item \in Range(entries), keep \in BOOLEAN :
    /\ CanGoTo(entries, cur, item)
    /\ entries' = EntriesAfterGoTo(entries, cur, item, keep)
    /\ cur' = IndexOf(entries', item)

Clear ==
  /\ entries' = EntriesAfterClear(entries, cur)
  /\ cur' = Len(entries')

RemoveAllItems == entries' = << >> /\ cur' = 0

\* A saved list has a current item, and no more items than there may be.
RestoreFromState ==
  /\ \E n \in 1 .. Capacity : entries' \in [1 .. n -> Items]
  /\ \A i, j \in 1 .. Len(entries') : entries'[i] = entries'[j] => i = j
  /\ cur' \in 1 .. Len(entries')

Next == AddItem \/ GoToItem \/ Clear \/ RemoveAllItems \/ RestoreFromState

Spec == Init /\ [][Next]_vars

\* The list has a current item exactly if it has entries, the current index
\* is one of an entry, no more entries are kept than Capacity, and no item is
\* listed twice.  WebBackForwardList asserts the first two at the head of its
\* operations and relies on the last when it looks for an item.
ListOK ==
  /\ entries \in Seq(Items)
  /\ Len(entries) <= Capacity
  /\ cur \in (IF entries = << >> THEN {0} ELSE 1 .. Len(entries))
  /\ \A i, j \in 1 .. Len(entries) : entries[i] = entries[j] => i = j
=============================================================================
