----------------------------- MODULE DurableMap -----------------------------
(***************************************************************************)
(* What a local storage area promises about the items of one origin: a map *)
(* that clients change, and that a crash may set back, key by key, to a    *)
(* value the map still has on disk or had when it was last cleared.        *)
(* Without crashes nothing is ever lost, however often the area is         *)
(* destroyed and created again.                                            *)
(***************************************************************************)
CONSTANTS Keys, Values, Null,
          CanCrash      \* may the process end without closing the area?

VARIABLES contents,     \* the items as clients see them
          survivors     \* for each key, the values a crash may leave behind

vars == <<contents, survivors>>

Maps == [Keys -> Values \cup {Null}]
Empty == [k \in Keys |-> Null]

\* The value of a key is always among those that may survive, and a step
\* adds no survivor but the new value.
SurvivorsFollow ==
  \A k \in Keys : /\ contents'[k] \in survivors'[k]
                  /\ survivors'[k] \subseteq survivors[k] \cup {contents'[k]}

Init ==
  /\ contents \in Maps
  /\ survivors = [k \in Keys |-> {contents[k]}]

\* setItem and removeItem.
Change ==
  /\ \E k \in Keys, v \in Values \cup {Null} : contents' = [contents EXCEPT ![k] = v]
  /\ SurvivorsFollow

\* clear.
Clear == contents' = Empty /\ SurvivorsFollow

\* Entries are deleted for good: nothing survives.
Delete ==
  /\ contents' = Empty
  /\ survivors' = [k \in Keys |-> {Null}]

\* Changes reach the disk.
Flush == UNCHANGED contents /\ SurvivorsFollow

Crash ==
  /\ CanCrash
  /\ contents' \in Maps
  /\ \A k \in Keys : contents'[k] \in survivors[k]
  /\ survivors' = [k \in Keys |-> {contents'[k]}]

Next == Change \/ Clear \/ Delete \/ Flush \/ Crash

Spec == Init /\ [][Next]_vars
=============================================================================
