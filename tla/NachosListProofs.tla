--------------------------- MODULE NachosListProofs ---------------------------
(* Facts about the lists of lib/list.cc, for every item set and every key. *)
EXTENDS NachosList, SequenceTheorems, WellFoundedInduction, TLAPS

\* A set of naturals that is not empty has a least member, which Min returns.
LEMMA MinOfNats ==
  ASSUME NEW S \in SUBSET Nat, S # {}
  PROVE  Min(S) \in S /\ \A n \in S : Min(S) <= n
<1> DEFINE R == {ss \in Nat \X Nat : ss[1] < ss[2]}
<1>1. IsWellFoundedOn(R, Nat)
  BY NatLessThanWellFounded DEF OpToRel
<1>2. PICK m \in S : \A n \in S : ~(<<n, m>> \in R)
  BY <1>1, WFMin
<1>3. ASSUME NEW n \in S PROVE m <= n
  <2>1. m \in Nat /\ n \in Nat
    OBVIOUS
  <2>2. <<n, m>> \in R <=> n < m
    BY <2>1
  <2> QED BY <1>2, <2>1, <2>2
<1> QED BY <1>3 DEF Min

\* SortedList::Insert finds a place in the list or behind its end.
LEMMA InsertPlaceInRange ==
  ASSUME NEW S, NEW q \in Seq(S), NEW x, NEW key
  PROVE  InsertPlace(q, x, key) \in 1..(Len(q) + 1)
<1>1. Later(q, x, key) \subseteq 1..Len(q)
  BY DEF Later
<1>2. CASE Later(q, x, key) = {}
  BY <1>2 DEF InsertPlace
<1>3. CASE Later(q, x, key) # {}
  <2>1. Min(Later(q, x, key)) \in Later(q, x, key)
    BY <1>1, <1>3, MinOfNats
  <2> QED BY <2>1, <1>1, <1>3 DEF InsertPlace
<1> QED BY <1>2, <1>3

\* Inserting one item shifts the items behind it by one place and changes
\* nothing else.
LEMMA InsertAtShape ==
  ASSUME NEW S, NEW q \in Seq(S), NEW x \in S, NEW p \in 1..(Len(q) + 1)
  PROVE  /\ InsertAt(q, p, x) \in Seq(S)
         /\ Len(InsertAt(q, p, x)) = Len(q) + 1
         /\ \A i \in 1..(Len(q) + 1) :
              InsertAt(q, p, x)[i] = IF i < p THEN q[i]
                                     ELSE IF i = p THEN x ELSE q[i - 1]
<1> DEFINE front == SubSeq(q, 1, p - 1)
           back == SubSeq(q, p, Len(q))
<1>1. /\ front \in Seq(S) /\ Len(front) = p - 1
      /\ \A i \in 1..(p - 1) : front[i] = q[i]
  OBVIOUS
<1>2. /\ back \in Seq(S) /\ Len(back) = Len(q) - p + 1
      /\ \A i \in 1..(Len(q) - p + 1) : back[i] = q[p + i - 1]
  OBVIOUS
<1>3. /\ <<x>> \in Seq(S) /\ Len(<<x>>) = 1 /\ <<x>>[1] = x
  OBVIOUS
<1> HIDE DEF front, back
<1>4. /\ front \o <<x>> \in Seq(S) /\ Len(front \o <<x>>) = p
      /\ \A i \in 1..p : (front \o <<x>>)[i] = IF i < p THEN q[i] ELSE x
  BY <1>1, <1>3, ConcatProperties
<1>5. Len(front \o <<x>>) + Len(back) = Len(q) + 1
  <2>1. Len(q) \in Nat /\ p \in Nat
    OBVIOUS
  <2>2. Len(front \o <<x>>) = p /\ Len(back) = Len(q) - p + 1
    BY <1>2, <1>4
  <2> QED BY <2>1, <2>2
<1>6. /\ (front \o <<x>>) \o back \in Seq(S)
      /\ Len((front \o <<x>>) \o back) = Len(q) + 1
      /\ \A i \in 1..(Len(q) + 1) : ((front \o <<x>>) \o back)[i] =
           IF i <= p THEN (front \o <<x>>)[i] ELSE back[i - p]
  BY <1>2, <1>4, <1>5, ConcatProperties
<1>7. InsertAt(q, p, x) = (front \o <<x>>) \o back
  BY DEF InsertAt, front, back
<1> QED BY <1>2, <1>4, <1>6, <1>7

\* Inserting an item that is not in the list adds it, once.
LEMMA SortedInsertAdds ==
  ASSUME NEW S, NEW q \in Seq(S), NoRepeats(q),
         NEW x \in S, x \notin Range(q), NEW key
  PROVE  /\ SortedInsert(q, x, key) \in Seq(S)
         /\ NoRepeats(SortedInsert(q, x, key))
         /\ Range(SortedInsert(q, x, key)) = Range(q) \cup {x}
<1> DEFINE p == InsertPlace(q, x, key)
           r == InsertAt(q, p, x)
<1>1. p \in 1..(Len(q) + 1)
  BY InsertPlaceInRange
<1> HIDE DEF p
<1>2. /\ r \in Seq(S) /\ Len(r) = Len(q) + 1
      /\ \A i \in 1..(Len(q) + 1) :
           r[i] = IF i < p THEN q[i] ELSE IF i = p THEN x ELSE q[i - 1]
  BY <1>1, InsertAtShape
<1> HIDE DEF r
<1>3. /\ DOMAIN q = 1..Len(q) /\ DOMAIN r = 1..(Len(q) + 1) /\ Len(q) \in Nat
  BY <1>2
<1>4. \A i, j \in 1..Len(q) : q[i] = q[j] => i = j
  BY <1>3 DEF NoRepeats, IsInjective
<1>5. \A i \in 1..Len(q) : q[i] # x
  BY <1>3 DEF Range
<1>6. ASSUME NEW i \in 1..(Len(q) + 1), NEW j \in 1..(Len(q) + 1), r[i] = r[j]
      PROVE  i = j
  BY <1>1, <1>2, <1>3, <1>4, <1>5, <1>6
<1>7. NoRepeats(r)
  BY <1>3, <1>6 DEF NoRepeats, IsInjective
<1>8. ASSUME NEW i \in 1..(Len(q) + 1) PROVE r[i] \in Range(q) \cup {x}
  BY <1>1, <1>2, <1>3 DEF Range
<1>9. ASSUME NEW i \in 1..Len(q) PROVE \E j \in 1..(Len(q) + 1) : r[j] = q[i]
  <2>1. CASE i < p
    BY <2>1, <1>1, <1>2, <1>3
  <2>2. CASE i >= p
    <3>1. i + 1 \in 1..(Len(q) + 1) /\ r[i + 1] = q[i]
      BY <2>2, <1>1, <1>2, <1>3
    <3> QED BY <3>1
  <2> QED BY <2>1, <2>2, <1>1
<1>10. r[p] = x
  BY <1>1, <1>2, <1>3
<1>11. Range(r) = Range(q) \cup {x}
  BY <1>1, <1>3, <1>8, <1>9, <1>10 DEF Range
<1> QED BY <1>2, <1>7, <1>11 DEF SortedInsert, p, r

\* So does Append.
LEMMA AppendAdds ==
  ASSUME NEW S, NEW q \in Seq(S), NoRepeats(q), NEW x \in S, x \notin Range(q)
  PROVE  /\ Append(q, x) \in Seq(S)
         /\ NoRepeats(Append(q, x))
         /\ Range(Append(q, x)) = Range(q) \cup {x}
<1> DEFINE r == Append(q, x)
<1>1. /\ r \in Seq(S) /\ DOMAIN r = 1..(Len(q) + 1) /\ Len(q) \in Nat
      /\ DOMAIN q = 1..Len(q)
      /\ \A i \in 1..Len(q) : r[i] = q[i]
      /\ r[Len(q) + 1] = x
  OBVIOUS
<1> HIDE DEF r
<1>2. NoRepeats(r)
  BY <1>1 DEF NoRepeats, IsInjective, Range
<1>3. Range(r) = Range(q) \cup {x}
  <2>1. \A i \in 1..(Len(q) + 1) : r[i] \in Range(q) \cup {x}
    BY <1>1 DEF Range
  <2>2. \A i \in 1..Len(q) : q[i] \in Range(r)
    BY <1>1 DEF Range
  <2>3. x \in Range(r)
    BY <1>1 DEF Range
  <2> QED BY <2>1, <2>2, <2>3, <1>1 DEF Range
<1> QED BY <1>1, <1>2, <1>3 DEF r

\* Taking the front off removes one item.
LEMMA TailRemoves ==
  ASSUME NEW S, NEW q \in Seq(S), NoRepeats(q), q # <<>>
  PROVE  /\ Tail(q) \in Seq(S)
         /\ NoRepeats(Tail(q))
         /\ Head(q) \in Range(q)
         /\ Range(Tail(q)) = Range(q) \ {Head(q)}
<1> DEFINE r == Tail(q)
<1>1. /\ r \in Seq(S) /\ Len(q) \in Nat \ {0} /\ Len(r) = Len(q) - 1
      /\ DOMAIN q = 1..Len(q) /\ DOMAIN r = 1..(Len(q) - 1)
      /\ \A i \in 1..(Len(q) - 1) : r[i] = q[i + 1]
      /\ Head(q) = q[1]
  BY HeadTailProperties, EmptySeq
<1> HIDE DEF r
<1>2. \A i, j \in 1..Len(q) : q[i] = q[j] => i = j
  BY <1>1 DEF NoRepeats, IsInjective
<1>3. NoRepeats(r)
  BY <1>1, <1>2 DEF NoRepeats, IsInjective
<1>4. Head(q) \in Range(q)
  BY <1>1 DEF Range
<1>5. ASSUME NEW i \in 1..(Len(q) - 1) PROVE r[i] \in Range(q) \ {Head(q)}
  <2>1. i + 1 \in 1..Len(q) /\ 1 \in 1..Len(q) /\ i + 1 # 1
    BY <1>1
  <2> QED BY <2>1, <1>1, <1>2 DEF Range
<1>6. ASSUME NEW i \in 1..Len(q), q[i] # Head(q) PROVE q[i] \in Range(r)
  <2>1. i - 1 \in 1..(Len(q) - 1) /\ r[i - 1] = q[i]
    BY <1>1, <1>6
  <2> QED BY <2>1, <1>1 DEF Range
<1>7. Range(r) = Range(q) \ {Head(q)}
  <2>1. Range(r) \subseteq Range(q) \ {Head(q)}
    BY <1>1, <1>5 DEF Range
  <2>2. Range(q) \ {Head(q)} \subseteq Range(r)
    BY <1>1, <1>6 DEF Range
  <2> QED BY <2>1, <2>2
<1> QED BY <1>1, <1>3, <1>4, <1>7 DEF r
\* On a sorted list Insert finds the place between the items that are not
\* later and those that are.
LEMMA InsertPlaceParts ==
  ASSUME NEW S, NEW q \in Seq(S), NEW x \in S, NEW key, \A y \in S : key[y] \in Nat,
         SortedBy(q, key)
  PROVE  \A i \in 1..Len(q) :
           /\ i < InsertPlace(q, x, key) => key[q[i]] <= key[x]
           /\ i >= InsertPlace(q, x, key) => key[x] <= key[q[i]]
<1> DEFINE late == Later(q, x, key)
<1>1. /\ DOMAIN q = 1..Len(q) /\ Len(q) \in Nat /\ \A i \in 1..Len(q) : q[i] \in S
      /\ late \subseteq 1..Len(q)
      /\ \A i \in 1..Len(q) : i \in late <=> key[x] < key[q[i]]
  BY DEF Later
<1>2. CASE late = {}
  <2>1. InsertPlace(q, x, key) = Len(q) + 1
    BY <1>2 DEF InsertPlace
  <2>2. \A i \in 1..Len(q) : key[q[i]] <= key[x]
    BY <1>1, <1>2
  <2> QED BY <1>1, <2>1, <2>2
<1>3. CASE late # {}
  <2> DEFINE p == Min(late)
  <2>1. p \in late /\ \A i \in late : p <= i
    BY <1>1, <1>3, MinOfNats
  <2>2. InsertPlace(q, x, key) = p
    BY <1>3 DEF InsertPlace
  <2> HIDE DEF p, late
  <2>3. ASSUME NEW i \in 1..Len(q), i < p PROVE key[q[i]] <= key[x]
    <3>1. i \notin late
      BY <1>1, <2>1, <2>3
    <3> QED BY <1>1, <3>1
  <2>4. ASSUME NEW i \in 1..Len(q), i >= p PROVE key[x] <= key[q[i]]
    <3>1. key[q[p]] <= key[q[i]] /\ key[x] < key[q[p]]
      BY <1>1, <2>1, <2>4 DEF SortedBy
    <3> QED BY <1>1, <2>1, <3>1
  <2> QED BY <2>2, <2>3, <2>4
<1> QED BY <1>2, <1>3

\* Insert keeps a sorted list sorted.
LEMMA SortedInsertSorts ==
  ASSUME NEW S, NEW q \in Seq(S), NEW x \in S, NEW key, \A y \in S : key[y] \in Nat,
         SortedBy(q, key)
  PROVE  SortedBy(SortedInsert(q, x, key), key)
<1> DEFINE p == InsertPlace(q, x, key)
           r == InsertAt(q, p, x)
<1>1. p \in 1..(Len(q) + 1)
  BY InsertPlaceInRange
<1>2. \A i \in 1..Len(q) : /\ i < p => key[q[i]] <= key[x]
                           /\ i >= p => key[x] <= key[q[i]]
  BY InsertPlaceParts
<1> HIDE DEF p
<1>3. /\ r \in Seq(S) /\ Len(r) = Len(q) + 1
      /\ \A i \in 1..(Len(q) + 1) :
           r[i] = IF i < p THEN q[i] ELSE IF i = p THEN x ELSE q[i - 1]
  BY <1>1, InsertAtShape
<1> HIDE DEF r
<1>4. /\ DOMAIN r = 1..(Len(q) + 1) /\ Len(q) \in Nat
      /\ \A i \in 1..Len(q) : q[i] \in S /\ key[q[i]] \in Nat
      /\ \A i, j \in 1..Len(q) : i <= j => key[q[i]] <= key[q[j]]
  BY <1>3 DEF SortedBy
<1>5. ASSUME NEW i \in 1..(Len(q) + 1), NEW j \in 1..(Len(q) + 1), i < j
      PROVE  key[r[i]] <= key[r[j]]
  <2>1. CASE j < p
    <3>1. r[i] = q[i] /\ r[j] = q[j] /\ i \in 1..Len(q) /\ j \in 1..Len(q) /\ i <= j
      BY <1>1, <1>3, <1>4, <1>5, <2>1
    <3> QED BY <1>4, <3>1
  <2>2. CASE j = p
    <3>1. r[i] = q[i] /\ r[j] = x /\ i \in 1..Len(q) /\ i < p
      BY <1>1, <1>3, <1>4, <1>5, <2>2
    <3> QED BY <1>2, <3>1
  <2>3. CASE j > p /\ i < p
    <3>1. /\ r[i] = q[i] /\ r[j] = q[j - 1] /\ i <= j - 1
          /\ i \in 1..Len(q) /\ j - 1 \in 1..Len(q)
      BY <1>1, <1>3, <1>4, <1>5, <2>3
    <3> QED BY <1>4, <3>1
  <2>4. CASE j > p /\ i = p
    <3>1. r[i] = x /\ r[j] = q[j - 1] /\ j - 1 \in 1..Len(q) /\ j - 1 >= p
      BY <1>1, <1>3, <1>4, <1>5, <2>4
    <3> QED BY <1>2, <3>1
  <2>5. CASE j > p /\ i > p
    <3>1. /\ r[i] = q[i - 1] /\ r[j] = q[j - 1] /\ i - 1 <= j - 1
          /\ i - 1 \in 1..Len(q) /\ j - 1 \in 1..Len(q)
      BY <1>1, <1>3, <1>4, <1>5, <2>5
    <3> QED BY <1>4, <3>1
  <2> QED BY <1>1, <1>4, <2>1, <2>2, <2>3, <2>4, <2>5
<1>6. \A i \in 1..(Len(q) + 1) : key[r[i]] \in Nat
  <2>1. \A i \in 1..(Len(q) + 1) : r[i] \in S
    BY <1>3, <1>4
  <2> QED BY <2>1
<1>7. ASSUME NEW i \in 1..(Len(q) + 1), NEW j \in 1..(Len(q) + 1), i <= j
      PROVE  key[r[i]] <= key[r[j]]
  <2>1. CASE i = j
    BY <1>6, <2>1
  <2>2. CASE i < j
    BY <1>5, <2>2
  <2> QED BY <1>4, <1>7, <2>1, <2>2
<1> QED BY <1>4, <1>7 DEF SortedBy, SortedInsert, p, r

\* So does taking the front off, whose item comes first by the key.
LEMMA TailSorted ==
  ASSUME NEW S, NEW q \in Seq(S), q # <<>>, NEW key, SortedBy(q, key)
  PROVE  SortedBy(Tail(q), key) /\ \A y \in Range(q) : key[Head(q)] <= key[y]
<1> DEFINE r == Tail(q)
<1>1. /\ Len(q) \in Nat \ {0} /\ DOMAIN q = 1..Len(q) /\ DOMAIN r = 1..(Len(q) - 1)
      /\ \A i \in 1..(Len(q) - 1) : r[i] = q[i + 1]
      /\ Head(q) = q[1]
  BY HeadTailProperties, EmptySeq
<1> HIDE DEF r
<1>2. ASSUME NEW i \in 1..(Len(q) - 1), NEW j \in 1..(Len(q) - 1), i <= j
      PROVE  key[r[i]] <= key[r[j]]
  <2>1. i + 1 \in DOMAIN q /\ j + 1 \in DOMAIN q /\ i + 1 <= j + 1
    BY <1>1, <1>2
  <2>2. key[q[i + 1]] <= key[q[j + 1]]
    BY <2>1 DEF SortedBy
  <2> QED BY <1>1, <2>2
<1>3. SortedBy(r, key)
  BY <1>1, <1>2 DEF SortedBy
<1>4. ASSUME NEW i \in DOMAIN q PROVE key[q[1]] <= key[q[i]]
  BY <1>1, <1>4 DEF SortedBy
<1>5. \A y \in Range(q) : key[Head(q)] <= key[y]
  BY <1>1, <1>4 DEF Range
<1> QED BY <1>3, <1>5 DEF r
===============================================================================
