------------------------------ MODULE NachosList ------------------------------
(***************************************************************************)
(* The singly linked lists of lib/list.h and lib/list.cc (MP3), as         *)
(* sequences.  List<T>::Append and List<T>::RemoveFront are Append, Head   *)
(* and Tail; what this module adds is SortedList<T>::Insert, whose order   *)
(* is given by a key function (compare(x, y) < 0 in the code is            *)
(* key[x] < key[y] here), and what a ListIterator finds when it steps.     *)
(*                                                                         *)
(* Insert compares the new item only with the items it walks past, so on a *)
(* list whose keys were changed in place (Scheduler::Aging does that) it   *)
(* still inserts before the FIRST item with a greater key; the list need   *)
(* not be sorted before, or after.                                         *)
(***************************************************************************)
EXTENDS Integers, SequencesExt

\* The places of q that hold an item the compare function orders after x.
Later(q, x, key) == {i \in DOMAIN q : key[x] < key[q[i]]}

\* SortedList::Insert: before the first later item, else at the end, which
\* keeps equal items in the order of their arrival.
InsertPlace(q, x, key) ==
  IF Later(q, x, key) = {} THEN Len(q) + 1 ELSE Min(Later(q, x, key))

SortedInsert(q, x, key) == InsertAt(q, InsertPlace(q, x, key), x)

\* ListElement::next of the element that holds x, as the set of its items:
\* empty for the last element (NULL) and for an item that is not in q.
ListNext(q, x) == {q[i + 1] : i \in {j \in 1..(Len(q) - 1) : q[j] = x}}

\* No item twice: what the ASSERT(!IsInList(item)) of Append and Insert demands.
NoRepeats(q) == IsInjective(q)

\* The order the list's own SanityCheck demands of a SortedList.
SortedBy(q, key) ==
  \A i, j \in DOMAIN q : i <= j => key[q[i]] <= key[q[j]]
===============================================================================
