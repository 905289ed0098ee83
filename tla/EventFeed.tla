------------------------------ MODULE EventFeed ------------------------------
(***************************************************************************)
(* What the listener of a historical event is promised: every occurrence   *)
(* after the position it started from, once and in order, until it leaves  *)
(* or its feed lapses.  The implementation says which feeds lapse, and     *)
(* when; once a feed has lapsed nothing is promised until it starts anew.  *)
(***************************************************************************)
EXTENDS Naturals, Sequences

CONSTANTS Event, Revision

VARIABLES occurred,    \* the revisions at which each event occurred
          listening,   \* the events that have a listener
          from,        \* where the feed of each event started
          heard,       \* what the listener of each event was given
          lapsed       \* the events whose feed is not promised any more

vars == <<occurred, listening, from, heard, lapsed>>

Last(e) == IF heard[e] = <<>> THEN from[e] ELSE heard[e][Len(heard[e])]
Unheard(e) == {r \in occurred[e] : r > Last(e)}
IsNext(r, e) == r \in Unheard(e) /\ \A s \in Unheard(e) : r <= s

Init ==
    /\ occurred = [e \in Event |-> {}]
    /\ listening = {}
    /\ from = [e \in Event |-> 0]
    /\ heard = [e \in Event |-> <<>>]
    /\ lapsed = {}

(* The resource raises an event: revisions grow.                           *)
Occur(e) ==
    /\ \E r \in Revision :
         /\ \A f \in Event : \A s \in occurred[f] : s < r
         /\ occurred' = [occurred EXCEPT ![e] = @ \cup {r}]
    /\ UNCHANGED <<listening, from, heard, lapsed>>

Join(e) ==
    /\ e \notin listening
    /\ listening' = listening \cup {e}
    /\ \E r \in Revision : from' = [from EXCEPT ![e] = r]
    /\ heard' = [heard EXCEPT ![e] = <<>>]
    /\ lapsed' \in {lapsed \ {e}, lapsed \cup {e}}
    /\ UNCHANGED occurred

Hear(e) ==
    /\ e \in listening
    /\ \E r \in Revision : /\ e \in lapsed \/ IsNext(r, e)
                           /\ heard' = [heard EXCEPT ![e] = Append(@, r)]
    /\ UNCHANGED <<occurred, listening, from, lapsed>>

Leave ==
    /\ \E es \in SUBSET listening : listening' = listening \ es
    /\ UNCHANGED <<occurred, from, heard, lapsed>>

(* Feeds lapse; when all do, the stream of changes may start anew.         *)
Lapse ==
    /\ \E es \in SUBSET Event : lapsed' = lapsed \cup es
    /\ \/ UNCHANGED occurred
       \/ lapsed' = Event /\ occurred' = [e \in Event |-> {}]
    /\ UNCHANGED <<listening, from, heard>>

Next ==
    \/ \E e \in Event : Occur(e) \/ Join(e) \/ Hear(e)
    \/ Leave
    \/ Lapse

Spec == Init /\ [][Next]_vars
=============================================================================
