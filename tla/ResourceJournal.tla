--------------------------- MODULE ResourceJournal ---------------------------
(***************************************************************************)
(* The bounded journal of a resource (ResourceJournal.ts): the operators   *)
(* on its state, as pure functions.  Times are left out: they only narrow  *)
(* a query further.                                                        *)
(***************************************************************************)
EXTENDS Naturals, Sequences, FiniteSets

(* A cursor is a generation and a revision; generation 0 is the empty one. *)
Cursor(gen, rev) == [gen |-> gen, rev |-> rev]

Entry(rev, member) == [rev |-> rev, member |-> member]

Least(a, b) == IF a < b THEN a ELSE b

(* openJournal, for a resource that has no journal yet.                    *)
EmptyJournal(cursor) == [head |-> cursor, discarded |-> 0, entries |-> <<>>]

(* appendJournalEntry accepts the revisions of its generation in order.    *)
Accepts(j, cursor) == cursor.gen = j.head.gen /\ cursor.rev > j.head.rev

(* The oldest entries give way, and the last revision so lost is noted.    *)
DiscardedThrough(j, all, excess) == IF excess = 0 THEN j.discarded ELSE all[excess].rev

(* Only entries of members marked historical are retained.                 *)
AppendEntry_KeepsAll(j, cursor, member, retain, size) ==
    [j EXCEPT !.head = cursor,
              !.entries = IF retain THEN Append(@, Entry(cursor.rev, member)) ELSE @]
AppendEntry(j, cursor, member, retain, size) ==
    LET all == IF retain THEN Append(j.entries, Entry(cursor.rev, member)) ELSE j.entries
        excess == Len(all) - Least(Len(all), size)
    IN  IF ~Accepts(j, cursor) THEN j
        ELSE [head |-> cursor,
              discarded |-> DiscardedThrough(j, all, excess),
              entries |-> SubSeq(all, excess + 1, Len(all))]

(* Entries are retained in the order of their revisions, which Accepts     *)
(* keeps: a page is a set of entries, and their ranks say where each comes.*)
Rank(x, S) == Cardinality({y \in S : y <= x})
Revisions(page) == {x.rev : x \in page}

(* Where the next page begins: an empty page does not move the reader.     *)
NextPage_Head(j, after, page) == j.head
NextPage(j, after, page) ==
    IF page = {} THEN after
    ELSE Cursor(j.head.gen, CHOOSE r \in Revisions(page) : \A q \in Revisions(page) : q <= r)

(* queryJournal: what is retained after a cursor, through a revision, of   *)
(* some members, at most limit entries of it, the oldest.  A cursor of     *)
(* another generation reads from the beginning, and is told.               *)
QueryJournal(j, requested, through, members, limit) ==
    LET mismatch == requested.gen # 0 /\ requested.gen # j.head.gen
        after == IF mismatch THEN Cursor(j.head.gen, 0) ELSE requested
        filtered == {x \in {j.entries[i] : i \in DOMAIN j.entries} :
                       x.rev > after.rev /\ x.rev <= through /\ x.member \in members}
        page == {x \in filtered : Rank(x.rev, Revisions(filtered)) <= limit}
    IN  [expired |-> mismatch \/ after.rev < j.discarded,
         hasMore |-> page # filtered,
         entries |-> page,
         next |-> NextPage(j, after, page)]
=============================================================================
