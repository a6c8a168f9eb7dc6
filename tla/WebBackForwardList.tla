------------------------- MODULE WebBackForwardList -------------------------
(***************************************************************************)
(* The operations of a page's back/forward list in the UI process          *)
(* (WebBackForwardList), on its entries and on the place of the current    *)
(* one, counted from 1; 0 stands for a list without a current index.       *)
(* removed items are the ones the web process is told of.                  *)
(***************************************************************************)
EXTENDS Naturals, Sequences, Functions

CONSTANT Capacity   \* DefaultCapacity

ASSUME CapacityAssumption == Capacity \in Nat \ {0}

IndexOf(entries, item) ==
  CHOOSE i \in 1 .. Len(entries) : entries[i] = item

IsListed(entries, item) == \E i \in 1 .. Len(entries) : entries[i] = item

RemoveEntry(entries, i) ==
  SubSeq(entries, 1, i - 1) \o SubSeq(entries, i + 1, Len(entries))

\* The list is full once its forward part is gone, and its first entry is
\* not the current one, or the only one there may be.
TossesFirst(cur) == cur = Capacity /\ (cur > 1 \/ Capacity = 1)

\* What addItem leaves of the list in front of the new item.
KeptByAdd(entries, cur) ==
  SubSeq(entries, IF TossesFirst(cur) THEN 2 ELSE 1, cur)

RemovedByAdd(entries, cur) ==
  LET n == Len(entries)
  IN  [i \in 1 .. n - cur |-> entries[n + 1 - i]]
        \o SubSeq(entries, 1, IF TossesFirst(cur) THEN 1 ELSE 0)

\* The current item stays in the list if the client wants to keep it.
EntriesAfterAdd(entries, cur, item, keep) ==
  LET kept == KeptByAdd(entries, cur)
  IN  IF keep \/ kept = << >> THEN Append(kept, item)
      ELSE Append(SubSeq(kept, 1, Len(kept) - 1), item)

CanGoTo(entries, cur, item) == cur # 0 /\ IsListed(entries, item)

EntriesAfterGoTo(entries, cur, item, keep) ==
  IF entries[cur] = item \/ keep THEN entries ELSE RemoveEntry(entries, cur)

EntriesAfterClear(entries, cur) ==
  IF Len(entries) <= 1 THEN entries ELSE SubSeq(entries, cur, cur)

BackItem(entries, cur) == IF cur > 1 THEN {entries[cur - 1]} ELSE {}

ForwardItem(entries, cur) ==
  IF 0 < cur /\ cur < Len(entries) THEN {entries[cur + 1]} ELSE {}
=============================================================================
