---------------------------- MODULE Local_proofs ----------------------------
(***************************************************************************)
(* Proofs about the parts that run in one thread, for any stations,        *)
(* beacons, ports and files and any number of events: that dialogs lose no *)
(* hearing, delete what they show and keep the rules of the toggles, that  *)
(* timers send what the settings say, that contacts under way stay open in *)
(* the log, that what was saved is loaded again, and that the Direwolf     *)
(* that runs is the one that is held.                                      *)
(*                                                                         *)
(* All but the last are theorems of MCSpec, in which one part moves and    *)
(* the others rest.  Lists of entries, packets and rules are reasoned      *)
(* about by places: what retain leaves (Lists) are picked places, in their *)
(* order.                                                                  *)
(***************************************************************************)
EXTENDS MCLocal, Lists, FiniteSetsExt, FiniteSetTheorems, SequenceTheorems,
        WellFoundedInduction, TLAPS

-----------------------------------------------------------------------------
(* Numbers and lists.                                                      *)

\* A set of numbers that is not empty has a least one.
LEMMA LeastIsThere ==
  ASSUME NEW S, S \subseteq Nat, S # {}
  PROVE  Min(S) \in S /\ \A x \in S : Min(S) <= x
<1>1. PICK m \in S : \A y \in S : <<y, m>> \notin OpToRel(<, Nat)
  BY WFMin, NatLessThanWellFounded, Zenon
<1>2. \A y \in S : ~(y < m)
  BY <1>1, Zenon DEF OpToRel
<1>3. \A y \in S : m <= y
  BY <1>2
<1> QED
  BY <1>3, Zenon DEF Min

\* A finite one has a greatest.
LEMMA GreatestIsThere ==
  ASSUME NEW S, S \subseteq Nat, S # {}, IsFiniteSet(S)
  PROVE  Max(S) \in S /\ \A x \in S : x <= Max(S)
<1> DEFINE Topless == {T \in FiniteSubsetsOf(Nat) : T # {} /\ ~\E m \in T : \A x \in T : x <= m}
<1>1. Topless = {}
  <2> SUFFICES ASSUME Topless # {} PROVE FALSE
    OBVIOUS
  <2>1. PICK T \in Topless : \A U \in Topless : <<U, T>> \notin StrictSubsetOrdering(Nat)
    <3>1. Topless \subseteq FiniteSubsetsOf(Nat)
      OBVIOUS
    <3>2. IsWellFoundedOn(StrictSubsetOrdering(Nat), FiniteSubsetsOf(Nat))
      BY FS_StrictSubsetOrderingWellFounded, Zenon
    <3> HIDE DEF Topless
    <3> QED
      BY <3>1, <3>2, WFMin, Zenon
  <2>2. T \in SUBSET Nat /\ IsFiniteSet(T) /\ T # {} /\ ~\E m \in T : \A x \in T : x <= m
    BY <2>1 DEF FiniteSubsetsOf
  <2>3. PICK n \in T : TRUE
    BY <2>2
  <2> DEFINE U == T \ {n}
  <2>4. U \in FiniteSubsetsOf(Nat)
    BY <2>2, FS_RemoveElement DEF FiniteSubsetsOf
  <2>5. <<U, T>> \in StrictSubsetOrdering(Nat)
    BY <2>2, <2>3 DEF StrictSubsetOrdering
  <2>6. U \notin Topless
    BY <2>1, <2>5
  <2>7. U = {} \/ \E m \in U : \A x \in U : x <= m
    BY <2>4, <2>6
  <2>8. CASE U = {}
    BY <2>2, <2>3, <2>8
  <2>9. ASSUME NEW m \in U, \A x \in U : x <= m PROVE FALSE
    <3>1. m \in Nat /\ n \in Nat /\ m \in T
      BY <2>2, <2>3
    <3>2. CASE m <= n
      <4>1. \A x \in T : x <= n
        BY <2>2, <2>9, <3>1, <3>2
      <4> QED
        BY <2>2, <2>3, <4>1
    <3>3. CASE n < m
      <4>1. \A x \in T : x <= m
        BY <2>2, <2>9, <3>1, <3>3
      <4> QED
        BY <2>2, <3>1, <4>1
    <3> QED
      BY <3>1, <3>2, <3>3
  <2> QED
    BY <2>7, <2>8, <2>9
<1>2. S \in FiniteSubsetsOf(Nat)
  BY DEF FiniteSubsetsOf
<1>3. PICK m \in S : \A x \in S : x <= m
  BY <1>1, <1>2
<1>4. \A x \in S : m >= x
  BY <1>3
<1>5. Max(S) \in S /\ \A x \in S : Max(S) >= x
  BY <1>4, Zenon DEF Max
<1> QED
  BY <1>5

\* Of the places that are kept, how many there are up to i, and the k-th.
Rank(kept, i) == Cardinality(kept \cap 1..i)
Place(kept, k) == CHOOSE i \in kept : Rank(kept, i) = k

\* Every place has its number, every number its place, in order.
LEMMA PlacesAreCounted ==
  ASSUME NEW n \in Nat, NEW kept, kept \subseteq 1..n
  PROVE  /\ IsFiniteSet(kept) /\ Cardinality(kept) \in Nat /\ Cardinality(kept) <= n
         /\ \A i \in kept : /\ Rank(kept, i) \in 1..Cardinality(kept)
                            /\ Place(kept, Rank(kept, i)) = i
         /\ \A k \in 1..Cardinality(kept) : /\ Place(kept, k) \in kept
                                            /\ Rank(kept, Place(kept, k)) = k
<1> DEFINE N == Cardinality(kept)
<1>1. IsFiniteSet(1..n) /\ Cardinality(1..n) = n
  BY FS_Interval
<1>2. IsFiniteSet(kept) /\ N \in Nat /\ N <= n
  BY <1>1, FS_Subset, FS_CardinalityType
<1>a. \A i \in kept : i \in Nat
  OBVIOUS
<1>b. \A i \in kept : IsFiniteSet(kept \cap 1..i) /\ Rank(kept, i) <= N
  BY <1>2, FS_Subset DEF Rank
<1>3. \A i \in kept : Rank(kept, i) \in Nat /\ Rank(kept, i) <= N
  BY <1>b, FS_CardinalityType DEF Rank
<1>4. \A i \in kept : Rank(kept, i) # 0
  <2> TAKE i \in kept
  <2>1. i \in kept \cap 1..i
    BY <1>a
  <2> QED
    BY <2>1, <1>b, FS_EmptySet DEF Rank
<1>5. \A i \in kept : Rank(kept, i) \in 1..N
  BY <1>2, <1>3, <1>4
<1>6. \A i, j \in kept : i < j => Rank(kept, i) < Rank(kept, j)
  <2> SUFFICES ASSUME NEW i \in kept, NEW j \in kept, i < j PROVE Rank(kept, i) < Rank(kept, j)
    OBVIOUS
  <2>1. kept \cap 1..i \in SUBSET (kept \cap 1..j)
    OBVIOUS
  <2>2. j \in kept \cap 1..j /\ j \notin kept \cap 1..i
    OBVIOUS
  <2>3. kept \cap 1..i # kept \cap 1..j
    BY <2>2
  <2>4. Rank(kept, i) <= Rank(kept, j) /\ Rank(kept, i) # Rank(kept, j)
    BY <1>b, <2>1, <2>3, FS_Subset DEF Rank
  <2>5. Rank(kept, i) \in Nat /\ Rank(kept, j) \in Nat
    BY <1>3
  <2> QED
    BY <2>4, <2>5
<1>7. \A i, j \in kept : Rank(kept, i) = Rank(kept, j) => i = j
  <2> SUFFICES ASSUME NEW i \in kept, NEW j \in kept, Rank(kept, i) = Rank(kept, j), i # j
               PROVE FALSE
    OBVIOUS
  <2>1. i < j \/ j < i
    OBVIOUS
  <2> QED
    BY <2>1, <1>5, <1>6
<1> DEFINE f == [i \in kept |-> Rank(kept, i)]
<1>8. f \in Injection(kept, 1..N)
  <2>1. f \in [kept -> 1..N]
    BY <1>5
  <2>2. \A a, b \in kept : f[a] = f[b] => a = b
    BY <1>7
  <2> QED
    BY <2>1, <2>2 DEF Injection, IsInjective
<1>9. f \in Surjection(kept, 1..N)
  <2>1. IsFiniteSet(1..N) /\ Cardinality(1..N) = N
    BY <1>2, FS_Interval
  <2> HIDE DEF f
  <2> QED
    BY <1>8, <2>1, FS_Injection
<1>10. \A k \in 1..N : \E i \in kept : Rank(kept, i) = k
  BY <1>9 DEF Surjection
<1>11. \A k \in 1..N : Place(kept, k) \in kept /\ Rank(kept, Place(kept, k)) = k
  BY <1>10 DEF Place
<1>12. \A i \in kept : Place(kept, Rank(kept, i)) = i
  BY <1>5, <1>7, <1>11
<1> QED
  BY <1>2, <1>5, <1>11, <1>12

\* What is picked is what stands at the places, once each.
LEMMA PickedIsThere ==
  ASSUME NEW X, NEW s \in Seq(X), NEW kept, kept \subseteq DOMAIN s
  PROVE  /\ Picked(s, kept) \in Seq(X)
         /\ Len(Picked(s, kept)) = Cardinality(kept)
         /\ Cardinality(kept) \in Nat /\ IsFiniteSet(kept)
         /\ \A k \in DOMAIN Picked(s, kept) :
              Place(kept, k) \in kept /\ Picked(s, kept)[k] = s[Place(kept, k)]
         /\ \A i \in kept :
              Rank(kept, i) \in DOMAIN Picked(s, kept) /\ Picked(s, kept)[Rank(kept, i)] = s[i]
         /\ \A k, l \in DOMAIN Picked(s, kept) : Place(kept, k) = Place(kept, l) => k = l
<1>1. kept \subseteq 1..Len(s) /\ Len(s) \in Nat
  OBVIOUS
<1>2. Picked(s, kept) = [k \in 1..Cardinality(kept) |-> s[Place(kept, k)]]
  BY Zenon DEF Picked, Place, Rank
<1>3. /\ Cardinality(kept) \in Nat /\ IsFiniteSet(kept)
      /\ \A i \in kept : /\ Rank(kept, i) \in 1..Cardinality(kept)
                         /\ Place(kept, Rank(kept, i)) = i
      /\ \A k \in 1..Cardinality(kept) : /\ Place(kept, k) \in kept
                                         /\ Rank(kept, Place(kept, k)) = k
  BY <1>1, PlacesAreCounted
<1>4. \A k \in 1..Cardinality(kept) : s[Place(kept, k)] \in X
  BY <1>1, <1>3
<1>5. Picked(s, kept) \in Seq(X) /\ Len(Picked(s, kept)) = Cardinality(kept)
  BY <1>2, <1>3, <1>4
<1>6. DOMAIN Picked(s, kept) = 1..Cardinality(kept)
  BY <1>2
<1> QED
  BY <1>2, <1>3, <1>5, <1>6

-----------------------------------------------------------------------------
(* Stations: the address book.                                             *)

\* What Stations takes from the libraries is what is taken here.
LEMMA BookLists ==
  /\ \A S : Book!Min(S) = Min(S)
  /\ \A S : Book!Max(S) = Max(S)
  /\ \A f : Book!Range(f) = Range(f)
  /\ \A S : Book!Cardinality(S) = Cardinality(S)
  /\ \A s, kept : Book!Picked(s, kept) = Picked(s, kept)
  /\ \A f : Book!IsInjective(f) = IsInjective(f)
  /\ \A s, i : Book!Without(s, i) = SubSeq(s, 1, i - 1) \o SubSeq(s, i + 1, Len(s))
<1>1. \A S : Book!Min(S) = Min(S)
  BY DEF Book!Min, Min
<1>2. \A S : Book!Max(S) = Max(S)
  BY DEF Book!Max, Max
<1>3. \A f : Book!Range(f) = Range(f)
  BY DEF Book!Range, Range
<1>4. \A S : Book!Cardinality(S) = Cardinality(S)
  BY DEF Book!Cardinality, Cardinality
<1>5. \A s, kept : Book!Picked(s, kept) = Picked(s, kept)
  BY DEF Book!Picked, Picked, Book!Cardinality, Cardinality
<1>6. \A f : Book!IsInjective(f) = IsInjective(f)
  BY DEF Book!IsInjective, IsInjective
<1>7. \A s, i : Book!Without(s, i) = SubSeq(s, 1, i - 1) \o SubSeq(s, i + 1, Len(s))
  BY DEF Book!Without
<1> QED
  BY <1>1, <1>2, <1>3, <1>4, <1>5, <1>6, <1>7

Entries ==
  [callsign : Call, alias : {"", "node", "mine"}, heard_count : Nat, heard_direct : BOOLEAN,
   id_packet : {"", "hello"}]

\* What the entries of a call sign count in a book.
HearingsIn(book, c) == UNION {{i} \X (1..book[i].heard_count) : i \in Book!Of(book, c)}

\* The n hearings of a station are kept in a book.
KeptIn(book, c, n) ==
  /\ Cardinality(HearingsIn(book, c)) >= n
  /\ n > 0 => \E i \in Book!Of(book, c) : book[i].heard_direct

\* What a book has of the stations of a set, another has too.
Grows(book, later, calls_) ==
  /\ DOMAIN book \subseteq DOMAIN later
  /\ \A i \in DOMAIN book : book[i].callsign \in calls_ =>
       /\ later[i].callsign = book[i].callsign
       /\ later[i].heard_count >= book[i].heard_count
       /\ book[i].heard_direct => later[i].heard_direct

\* The types of an entry.
LEMMA EntryTyped ==
  ASSUME NEW book \in Seq(Entries), NEW i \in DOMAIN book
  PROVE  /\ i \in 1..Len(book) /\ Len(book) \in Nat
         /\ book[i] \in Entries
         /\ book[i].callsign \in Call /\ book[i].heard_count \in Nat
         /\ book[i].heard_direct \in BOOLEAN
<1>1. i \in 1..Len(book) /\ Len(book) \in Nat /\ book[i] \in Entries
  OBVIOUS
<1> QED
  BY <1>1 DEF Entries

\* An entry that counts one hearing more.
LEMMA CountedEntry ==
  ASSUME NEW e \in Entries, NEW n \in Nat
  PROVE  /\ [e EXCEPT !.heard_count = n, !.heard_direct = TRUE] \in Entries
         /\ [e EXCEPT !.heard_count = n, !.heard_direct = TRUE].callsign = e.callsign
         /\ [e EXCEPT !.heard_count = n, !.heard_direct = TRUE].heard_direct = TRUE
         /\ [e EXCEPT !.heard_count = n, !.heard_direct = TRUE].heard_count = n
  BY DEF Entries

\* The pairs are as many as a number says.
LEMMA HearingsAreFinite ==
  ASSUME NEW book \in Seq(Entries), NEW c
  PROVE  /\ IsFiniteSet(HearingsIn(book, c)) /\ Cardinality(HearingsIn(book, c)) \in Nat
         /\ \A p : p \in HearingsIn(book, c) <=>
              \E i \in Book!Of(book, c), n \in Nat :
                p = <<i, n>> /\ 1 <= n /\ n <= book[i].heard_count
<1> DEFINE I == Book!Of(book, c)
           g == [i \in I |-> {i} \X (1..book[i].heard_count)]
<1>1. I \subseteq 1..Len(book) /\ Len(book) \in Nat
  BY DEF Book!Of
<1>2. IsFiniteSet(I)
  <2>1. IsFiniteSet(1..Len(book)) /\ I \in SUBSET (1..Len(book))
    BY <1>1, FS_Interval
  <2> HIDE DEF I
  <2> QED
    BY <2>1, FS_Subset
<1>3. \A i \in I : book[i].heard_count \in Nat
  BY EntryTyped DEF Book!Of
<1>4. \A i \in I : IsFiniteSet(g[i])
  <2> TAKE i \in I
  <2>0. book[i].heard_count \in Int
    BY <1>3
  <2>1. IsFiniteSet({i})
    BY FS_Singleton, Zenon
  <2>2. IsFiniteSet(1..book[i].heard_count)
    BY <2>0, FS_Interval
  <2> QED
    BY <2>1, <2>2, FS_Product
<1> DEFINE T == {g[i] : i \in I}
<1>5. g \in Surjection(I, T)
  BY DEF Surjection
<1>6. IsFiniteSet(T)
  <2> HIDE DEF g, T, I
  <2> QED
    BY <1>2, <1>5, FS_Surjection
<1>7. \A t \in T : IsFiniteSet(t)
  BY <1>4
<1>8. HearingsIn(book, c) = UNION T
  BY DEF HearingsIn
<1>9. IsFiniteSet(HearingsIn(book, c))
  <2> HIDE DEF T
  <2> QED
    BY <1>6, <1>7, <1>8, FS_UNION
<1>10. \A p : p \in HearingsIn(book, c) <=>
              \E i \in I, n \in Nat : p = <<i, n>> /\ 1 <= n /\ n <= book[i].heard_count
  BY <1>3 DEF HearingsIn
<1> QED
  BY <1>9, <1>10, FS_CardinalityType

\* What is kept stays kept in a book that grows.
LEMMA KeptAsItGrows ==
  ASSUME NEW book \in Seq(Entries), NEW later \in Seq(Entries), NEW c, NEW n \in Nat,
         Grows(book, later, {c}), KeptIn(book, c, n)
  PROVE  KeptIn(later, c, n)
<1>1. \A i \in Book!Of(book, c) :
        /\ i \in Book!Of(later, c)
        /\ later[i].heard_count >= book[i].heard_count
        /\ book[i].heard_direct => later[i].heard_direct
  BY DEF Grows, Book!Of
<1>2. \A i \in Book!Of(book, c) : book[i].heard_count \in Nat /\ later[i].heard_count \in Nat
  BY <1>1, EntryTyped DEF Book!Of
<1>3. HearingsIn(book, c) \subseteq HearingsIn(later, c)
  BY <1>1, <1>2, HearingsAreFinite
<1>4. Cardinality(HearingsIn(book, c)) <= Cardinality(HearingsIn(later, c))
  BY <1>3, HearingsAreFinite, FS_Subset
<1>5. /\ Cardinality(HearingsIn(book, c)) \in Nat
      /\ Cardinality(HearingsIn(later, c)) \in Nat
  BY HearingsAreFinite
<1> QED
  BY <1>1, <1>4, <1>5 DEF KeptIn

\* The first entry of a call sign is there if any is.
LEMMA InIsThere ==
  ASSUME NEW book \in Seq(Entries), NEW call, Book!Of(book, call) # {}
  PROVE  /\ Book!In(book, call) \in Book!Of(book, call)
         /\ Book!In(book, call) \in DOMAIN book
         /\ book[Book!In(book, call)] \in Entries
         /\ book[Book!In(book, call)].callsign = call
<1>1. Book!Of(book, call) \subseteq Nat
  BY DEF Book!Of
<1>2. Min(Book!Of(book, call)) \in Book!Of(book, call)
  BY <1>1, LeastIsThere
<1>3. Book!In(book, call) \in Book!Of(book, call)
  BY <1>2, BookLists DEF Book!In
<1> QED
  BY <1>3, EntryTyped DEF Book!Of

\* A new entry is one of the call sign, with nothing counted.
LEMMA EntryIsNew ==
  ASSUME NEW call \in Call, NEW direct \in BOOLEAN
  PROVE  Book!Entry(call, direct) \in Entries /\ Book!Entry(call, direct).callsign = call
  BY DEF Book!Entry, Book!None, Entries

\* Known makes room for a call sign and keeps what there is.
LEMMA KnownGrows ==
  ASSUME NEW book \in Seq(Entries), NEW call \in Call, NEW direct \in BOOLEAN
  PROVE  /\ Book!Known(book, call, direct) \in Seq(Entries)
         /\ Grows(book, Book!Known(book, call, direct), Call)
         /\ Book!Of(Book!Known(book, call, direct), call) # {}
<1> DEFINE e == Book!Entry(call, direct)
           k == Book!Known(book, call, direct)
<1>1. CASE Book!Of(book, call) = {}
  <2>1. k = Append(book, e)
    BY <1>1 DEF Book!Known
  <2>2. e \in Entries /\ e.callsign = call
    BY EntryIsNew
  <2>3. /\ k \in Seq(Entries) /\ Len(k) = Len(book) + 1
        /\ k[Len(book) + 1] = e
        /\ \A i \in 1..Len(book) : k[i] = book[i]
    <3> HIDE DEF e, k
    <3> QED
      BY <2>1, <2>2
  <2>4. \A i \in DOMAIN book : i \in DOMAIN k /\ k[i] = book[i] /\ book[i].heard_count \in Nat
    BY <2>3, EntryTyped
  <2>5. Grows(book, k, Call)
    BY <2>4 DEF Grows
  <2>6. Len(book) + 1 \in DOMAIN k
    BY <2>3
  <2>7. Len(book) + 1 \in Book!Of(k, call)
    BY <2>2, <2>3, <2>6 DEF Book!Of
  <2> QED
    BY <2>3, <2>5, <2>7
<1>2. CASE Book!Of(book, call) # {}
  <2>1. k = book
    BY <1>2 DEF Book!Known
  <2>2. Grows(book, book, Call)
    BY EntryTyped DEF Grows
  <2> QED
    BY <1>2, <2>1, <2>2
<1> QED
  BY <1>1, <1>2

\* What grows of all stations grows of one, and of one that grew before.
LEMMA GrowthAddsUp ==
  ASSUME NEW b1 \in Seq(Entries), NEW b2 \in Seq(Entries), NEW b3 \in Seq(Entries),
         NEW C, Grows(b1, b2, C), Grows(b2, b3, C)
  PROVE  Grows(b1, b3, C)
<1>1. DOMAIN b1 \subseteq DOMAIN b2 /\ DOMAIN b2 \subseteq DOMAIN b3
  BY DEF Grows
<1>2. ASSUME NEW i \in DOMAIN b1, b1[i].callsign \in C
      PROVE  /\ b3[i].callsign = b1[i].callsign
             /\ b3[i].heard_count >= b1[i].heard_count
             /\ b1[i].heard_direct => b3[i].heard_direct
  <2>1. /\ b2[i].callsign = b1[i].callsign
        /\ b2[i].heard_count >= b1[i].heard_count
        /\ b1[i].heard_direct => b2[i].heard_direct
    BY <1>2 DEF Grows
  <2>2. /\ b3[i].callsign = b2[i].callsign
        /\ b3[i].heard_count >= b2[i].heard_count
        /\ b2[i].heard_direct => b3[i].heard_direct
    BY <1>1, <1>2, <2>1 DEF Grows
  <2>3. b1[i].heard_count \in Nat /\ b2[i].heard_count \in Nat /\ b3[i].heard_count \in Nat
    BY <1>1, EntryTyped
  <2> QED
    BY <2>1, <2>2, <2>3
<1> QED
  BY <1>1, <1>2 DEF Grows

\* An entry that is changed without its call sign, and counts no less.
LEMMA ChangeGrows ==
  ASSUME NEW book \in Seq(Entries), NEW i \in DOMAIN book, NEW e \in Entries,
         e.callsign = book[i].callsign, e.heard_count >= book[i].heard_count,
         book[i].heard_direct => e.heard_direct
  PROVE  /\ [book EXCEPT ![i] = e] \in Seq(Entries)
         /\ Grows(book, [book EXCEPT ![i] = e], Call)
<1> DEFINE later == [book EXCEPT ![i] = e]
<1>1. later \in Seq(Entries) /\ DOMAIN later = DOMAIN book
  OBVIOUS
<1>2. later[i] = e /\ \A j \in DOMAIN book : j # i => later[j] = book[j]
  OBVIOUS
<1>3. \A j \in DOMAIN book : book[j].heard_count \in Nat
  BY EntryTyped
<1> HIDE DEF later
<1>4. Grows(book, later, Call)
  BY <1>1, <1>2, <1>3 DEF Grows
<1> QED
  BY <1>1, <1>4 DEF later

\* A hearing is counted, and no other is lost.
LEMMA HeardIsCounted ==
  ASSUME NEW book \in Seq(Entries), NEW call \in Call
  PROVE  /\ Book!record_heard(book, call) \in Seq(Entries)
         /\ Grows(book, Book!record_heard(book, call), Call)
         /\ Book!Of(Book!record_heard(book, call), call) # {}
         /\ \A n \in Nat : KeptIn(book, call, n) => KeptIn(Book!record_heard(book, call), call, n + 1)
<1> DEFINE k == Book!Known(book, call, TRUE)
           i == Book!In(k, call)
           e == [k[i] EXCEPT !.heard_count = k[i].heard_count + 1, !.heard_direct = TRUE]
           r == [k EXCEPT ![i] = e]
<1>1. k \in Seq(Entries) /\ Grows(book, k, Call) /\ Book!Of(k, call) # {}
  BY KnownGrows
<1>2. i \in DOMAIN k /\ k[i] \in Entries /\ k[i].callsign = call
  <2> HIDE DEF k
  <2> QED
    BY <1>1, InIsThere
<1>3. Book!record_heard(book, call) = r
  <2>1. r = [k EXCEPT ![i].heard_count = @ + 1, ![i].heard_direct = TRUE]
    <3> HIDE DEF k, i
    <3> QED
      BY <1>1, <1>2 DEF Entries
  <2> QED
    BY <2>1 DEF Book!record_heard
<1> HIDE DEF k, i
<1>4. /\ e \in Entries /\ e.callsign = call /\ e.heard_direct = TRUE
      /\ e.heard_count = k[i].heard_count + 1 /\ k[i].heard_count \in Nat
  <2>1. k[i].heard_count \in Nat
    BY <1>2 DEF Entries
  <2>2. k[i].heard_count + 1 \in Nat
    BY <2>1
  <2> QED
    BY <1>2, <2>1, <2>2, CountedEntry
<1> HIDE DEF e
<1>5. r \in Seq(Entries) /\ Grows(k, r, Call)
  BY <1>1, <1>2, <1>4, ChangeGrows
<1>6. Grows(book, r, Call)
  <2> HIDE DEF r
  <2> QED
    BY <1>1, <1>5, GrowthAddsUp
<1>7. i \in Book!Of(k, call) /\ i \in Book!Of(r, call) /\ r[i] = e
  BY <1>1, <1>2, <1>4 DEF Book!Of
<1> HIDE DEF r
<1>8. ASSUME NEW n \in Nat, KeptIn(book, call, n) PROVE KeptIn(r, call, n + 1)
  <2>1. KeptIn(k, call, n)
    <3>1. Grows(book, k, {call})
      BY <1>1 DEF Grows
    <3> QED
      BY <1>1, <1>8, <3>1, KeptAsItGrows
  <2> DEFINE p == <<i, k[i].heard_count + 1>>
             H == HearingsIn(k, call)
  <2>2. p \in HearingsIn(r, call)
    BY <1>4, <1>5, <1>7, HearingsAreFinite
  <2>3. p \notin H
    BY <1>1, <1>4, HearingsAreFinite
  <2>4. H \subseteq HearingsIn(r, call)
    <3>1. \A j \in Book!Of(k, call) : j \in Book!Of(r, call) /\ r[j].heard_count >= k[j].heard_count
      BY <1>1, <1>5 DEF Grows, Book!Of
    <3>2. \A j \in Book!Of(k, call) : k[j].heard_count \in Nat /\ r[j].heard_count \in Nat
      BY <1>1, <1>5, <3>1, EntryTyped DEF Book!Of
    <3> SUFFICES ASSUME NEW q \in H PROVE q \in HearingsIn(r, call)
      OBVIOUS
    <3>3. PICK j \in Book!Of(k, call), m \in Nat : q = <<j, m>> /\ 1 <= m /\ m <= k[j].heard_count
      BY <1>1, HearingsAreFinite
    <3>4. j \in Book!Of(r, call) /\ m <= r[j].heard_count
      BY <3>1, <3>2, <3>3
    <3> QED
      BY <1>5, <3>3, <3>4, HearingsAreFinite
  <2>5. IsFiniteSet(H) /\ Cardinality(H) \in Nat
    BY <1>1, HearingsAreFinite
  <2>6. IsFiniteSet(HearingsIn(r, call)) /\ Cardinality(HearingsIn(r, call)) \in Nat
    BY <1>5, HearingsAreFinite
  <2> HIDE DEF p, H
  <2>7. Cardinality(H \cup {p}) = Cardinality(H) + 1
    BY <2>3, <2>5, FS_AddElement
  <2>8. Cardinality(H \cup {p}) <= Cardinality(HearingsIn(r, call))
    BY <2>2, <2>4, <2>6, FS_Subset
  <2>9. Cardinality(H) >= n
    BY <2>1 DEF KeptIn, H
  <2>10. Cardinality(HearingsIn(r, call)) >= n + 1
    BY <2>5, <2>6, <2>7, <2>8, <2>9
  <2> QED
    BY <1>4, <1>7, <2>10 DEF KeptIn
<1> QED
  BY <1>3, <1>5, <1>6, <1>7, <1>8

Aliases == {"", "node", "mine"}

\* An alias is backfilled and nothing else is.
LEMMA BackfilledKeeps ==
  ASSUME NEW e \in Entries, NEW alias \in Aliases
  PROVE  /\ Book!Backfilled(e, alias) \in Entries
         /\ Book!Backfilled(e, alias).callsign = e.callsign
         /\ Book!Backfilled(e, alias).heard_count = e.heard_count
         /\ Book!Backfilled(e, alias).heard_direct = e.heard_direct
  BY DEF Book!Backfilled, Entries, Aliases

\* A broadcast is a hearing of its sender, and takes nothing away.
LEMMA NodesAreCounted ==
  ASSUME NEW book \in Seq(Entries), NEW from \in Call, NEW sender_alias \in Aliases,
         NEW entry \in [callsign : Call, alias : {Book!None, "node"}]
  PROVE  LET later == Book!record_nodes_broadcast(book, from, sender_alias, entry)
         IN  later \in Seq(Entries) /\ Grows(Book!record_heard(book, from), later, Call)
<1> DEFINE h == Book!record_heard(book, from)
           i == Book!In(h, from)
           own == [h EXCEPT ![i] = Book!Backfilled(h[i], sender_alias)]
           known == Book!Known(own, entry.callsign, FALSE)
           j == Book!In(known, entry.callsign)
           e == IF known[j].heard_direct THEN known[j] ELSE Book!Backfilled(known[j], entry.alias)
           later == [known EXCEPT ![j] = e]
<1>0. entry.callsign \in Call /\ entry.alias \in Aliases
  BY DEF Book!None, Aliases
<1>1. h \in Seq(Entries) /\ Book!Of(h, from) # {}
  BY HeardIsCounted
<1>2. i \in DOMAIN h /\ h[i] \in Entries
  <2> HIDE DEF h
  <2> QED
    BY <1>1, InIsThere
<1>3. own \in Seq(Entries) /\ Grows(h, own, Call)
  <2> DEFINE f == Book!Backfilled(h[i], sender_alias)
  <2>1. /\ f \in Entries /\ f.callsign = h[i].callsign
        /\ f.heard_count = h[i].heard_count /\ f.heard_direct = h[i].heard_direct
    BY <1>2, BackfilledKeeps
  <2>2. h[i].heard_count \in Nat
    BY <1>2 DEF Entries
  <2> HIDE DEF f, h, i
  <2>3. f.heard_count >= h[i].heard_count
    BY <2>1, <2>2
  <2>4. [h EXCEPT ![i] = f] \in Seq(Entries) /\ Grows(h, [h EXCEPT ![i] = f], Call)
    BY <1>1, <1>2, <2>1, <2>3, ChangeGrows
  <2> QED
    BY <2>4 DEF f
<1>4. known \in Seq(Entries) /\ Grows(own, known, Call) /\ Book!Of(known, entry.callsign) # {}
  <2> HIDE DEF own
  <2> QED
    BY <1>0, <1>3, KnownGrows
<1>5. j \in DOMAIN known /\ known[j] \in Entries
  <2> HIDE DEF known
  <2> QED
    BY <1>4, InIsThere
<1>6. later \in Seq(Entries) /\ Grows(known, later, Call)
  <2> HIDE DEF known, j
  <2>1. /\ e \in Entries /\ e.callsign = known[j].callsign
        /\ e.heard_count = known[j].heard_count /\ e.heard_direct = known[j].heard_direct
    BY <1>0, <1>5, BackfilledKeeps
  <2>2. known[j].heard_count \in Nat
    BY <1>5 DEF Entries
  <2> HIDE DEF e
  <2>3. e.heard_count >= known[j].heard_count
    BY <2>1, <2>2
  <2> QED
    BY <1>4, <1>5, <2>1, <2>3, ChangeGrows
<1>7. Book!record_nodes_broadcast(book, from, sender_alias, entry) = later
  BY DEF Book!record_nodes_broadcast
<1>8. Grows(h, later, Call)
  <2> HIDE DEF h, own, known, later
  <2>1. Grows(h, known, Call)
    BY <1>1, <1>3, <1>4, GrowthAddsUp
  <2> QED
    BY <1>1, <1>4, <1>6, <2>1, GrowthAddsUp
<1> QED
  BY <1>6, <1>7, <1>8

\* An ID packet makes room for its sender and takes nothing away.
LEMMA IdPacketGrows ==
  ASSUME NEW book \in Seq(Entries), NEW from \in Call
  PROVE  /\ Book!record_id_packet(book, from, "hello") \in Seq(Entries)
         /\ Grows(book, Book!record_id_packet(book, from, "hello"), Call)
<1> DEFINE known == Book!Known(book, from, FALSE)
           i == Book!In(known, from)
           e == [known[i] EXCEPT !.id_packet = "hello"]
           later == [known EXCEPT ![i] = e]
<1>1. known \in Seq(Entries) /\ Grows(book, known, Call) /\ Book!Of(known, from) # {}
  BY KnownGrows
<1>2. i \in DOMAIN known /\ known[i] \in Entries
  <2> HIDE DEF known
  <2> QED
    BY <1>1, InIsThere
<1>3. Book!record_id_packet(book, from, "hello") = later
  BY DEF Book!record_id_packet
<1> HIDE DEF known, i
<1>4. /\ e \in Entries /\ e.callsign = known[i].callsign
      /\ e.heard_count = known[i].heard_count /\ e.heard_direct = known[i].heard_direct
  BY <1>2 DEF Entries
<1>5. known[i].heard_count \in Nat
  BY <1>2 DEF Entries
<1> HIDE DEF e
<1>6. e.heard_count >= known[i].heard_count
  BY <1>4, <1>5
<1>7. later \in Seq(Entries) /\ Grows(known, later, Call)
  BY <1>1, <1>2, <1>4, <1>6, ChangeGrows
<1> HIDE DEF later
<1> QED
  BY <1>1, <1>3, <1>7, GrowthAddsUp

\* An entry that is removed takes no hearing of another station with it.
LEMMA OthersStayKept ==
  ASSUME NEW book \in Seq(Entries), NEW call, NEW c, c # call, NEW n \in Nat, KeptIn(book, c, n)
  PROVE  LET kept == {i \in DOMAIN book : book[i].callsign # call}
         IN  KeptIn(Picked(book, kept), c, n)
<1> DEFINE kept == {i \in DOMAIN book : book[i].callsign # call}
           later == Picked(book, kept)
<1>1. kept \subseteq DOMAIN book
  OBVIOUS
<1>2. /\ later \in Seq(Entries) 
      /\ \A i \in kept : Rank(kept, i) \in DOMAIN later /\ later[Rank(kept, i)] = book[i]
      /\ \A i \in kept : Place(kept, Rank(kept, i)) = i
  <2>1. kept \subseteq 1..Len(book) /\ Len(book) \in Nat
    OBVIOUS
  <2> HIDE DEF kept
  <2> QED
    BY <1>1, <2>1, PickedIsThere, PlacesAreCounted
<1>3. Book!Of(book, c) \subseteq kept
  BY DEF Book!Of
<1> HIDE DEF kept, later
<1>4. \A i \in Book!Of(book, c) :
        /\ Rank(kept, i) \in Book!Of(later, c) /\ later[Rank(kept, i)] = book[i]
        /\ Place(kept, Rank(kept, i)) = i
  BY <1>2, <1>3 DEF Book!Of
<1> DEFINE H == HearingsIn(book, c)
           f == [p \in H |-> <<Rank(kept, p[1]), p[2]>>]
<1>5. \A p \in H : f[p] \in HearingsIn(later, c)
  <2> SUFFICES ASSUME NEW p \in H PROVE f[p] \in HearingsIn(later, c)
    OBVIOUS
  <2>1. PICK i \in Book!Of(book, c), m \in Nat : p = <<i, m>> /\ 1 <= m /\ m <= book[i].heard_count
    BY HearingsAreFinite
  <2>2. f[p] = <<Rank(kept, i), m>>
    BY <2>1
  <2> QED
    BY <1>2, <1>4, <2>1, <2>2, HearingsAreFinite
<1>6. \A p, q \in H : f[p] = f[q] => p = q
  <2> SUFFICES ASSUME NEW p \in H, NEW q \in H, f[p] = f[q] PROVE p = q
    OBVIOUS
  <2>1. PICK i \in Book!Of(book, c), m \in Nat : p = <<i, m>>
    BY HearingsAreFinite
  <2>2. PICK j \in Book!Of(book, c), l \in Nat : q = <<j, l>>
    BY HearingsAreFinite
  <2>3. Rank(kept, i) = Rank(kept, j) /\ m = l
    BY <2>1, <2>2
  <2>4. i = j
    BY <1>4, <2>3
  <2> QED
    BY <2>1, <2>2, <2>3, <2>4
<1>7. f \in Injection(H, HearingsIn(later, c))
  BY <1>5, <1>6 DEF Injection, IsInjective
<1>8. /\ IsFiniteSet(HearingsIn(later, c)) /\ Cardinality(HearingsIn(later, c)) \in Nat
      /\ Cardinality(H) \in Nat
  BY <1>2, HearingsAreFinite
<1>9. Cardinality(H) <= Cardinality(HearingsIn(later, c))
  <2> HIDE DEF f, H
  <2> QED
    BY <1>7, <1>8, FS_Injection
<1>10. Cardinality(HearingsIn(later, c)) >= n
  BY <1>8, <1>9 DEF KeptIn
<1>11. n > 0 => \E i \in Book!Of(later, c) : later[i].heard_direct
  BY <1>4 DEF KeptIn
<1> QED
  BY <1>10, <1>11 DEF KeptIn, kept, later

-----------------------------------------------------------------------------
(* Stations: the hearings, whatever the dialogs save.                      *)

\* The dialog in front, and the clones it has.
Rules ==
  [sender : Call \cup {""}, to : {"", "BEACON", "ME"}, enabled : BOOLEAN,
   from_address_book : BOOLEAN]

DialogTyped ==
  /\ dialog.kind \in {"none", "detail", "edit", "log", "rules"}
  /\ dialog.kind = "detail" => dialog.entry \in Entries
  /\ dialog.kind = "edit" => dialog.was \in Entries \cup {Book!Entry("", TRUE)}
  /\ dialog.kind = "rules" =>
       /\ dialog.rules \in Seq(Rules)
       /\ dialog = [kind |-> "rules", rows |-> dialog.rows, rules |-> dialog.rules]

\* The book has the hearings that were made.
HearingsInv ==
  /\ address_book \in Seq(Entries) /\ heard \in [Call -> Nat]
  /\ \A c \in Call : KeptIn(address_book, c, heard[c])

\* A hearing of a station, whatever else is learnt by the way.
LEMMA HearingKept ==
  ASSUME HearingsInv, NEW call \in Call, NEW later \in Seq(Entries),
         Grows(Book!record_heard(address_book, call), later, Call),
         address_book' = later, heard' = [heard EXCEPT ![call] = @ + 1]
  PROVE  HearingsInv'
<1> DEFINE r == Book!record_heard(address_book, call)
<1>1. /\ address_book \in Seq(Entries) /\ heard \in [Call -> Nat]
      /\ \A c \in Call : KeptIn(address_book, c, heard[c])
  BY DEF HearingsInv
<1>2. /\ r \in Seq(Entries) /\ Grows(address_book, r, Call)
      /\ \A n \in Nat : KeptIn(address_book, call, n) => KeptIn(r, call, n + 1)
  BY <1>1, HeardIsCounted
<1>3. Grows(r, later, Call)
  OBVIOUS
<1> HIDE DEF r
<1>4. heard' \in [Call -> Nat]
  BY <1>1
<1>5. ASSUME NEW c \in Call PROVE KeptIn(later, c, heard'[c])
  <2>0. heard[c] \in Nat /\ heard'[c] \in Nat
    BY <1>1, <1>4
  <2>1. KeptIn(r, c, heard'[c])
    <3>1. CASE c = call
      <4>1. heard'[c] = heard[c] + 1
        BY <1>1, <3>1
      <4> QED
        BY <1>1, <1>2, <2>0, <3>1, <4>1
    <3>2. CASE c # call
      <4>1. heard'[c] = heard[c]
        BY <1>1, <3>2
      <4>2. Grows(address_book, r, {c})
        BY <1>2 DEF Grows
      <4> QED
        BY <1>1, <1>2, <2>0, <4>1, <4>2, KeptAsItGrows
    <3> QED
      BY <3>1, <3>2
  <2>2. Grows(r, later, {c})
    BY <1>3 DEF Grows
  <2> QED
    BY <1>2, <2>0, <2>1, <2>2, KeptAsItGrows
<1> QED
  BY <1>4, <1>5 DEF HearingsInv

\* A change that takes nothing away.
LEMMA GrowthKept ==
  ASSUME HearingsInv, NEW later \in Seq(Entries), Grows(address_book, later, Call),
         address_book' = later, UNCHANGED heard
  PROVE  HearingsInv'
<1>1. ASSUME NEW c \in Call PROVE KeptIn(later, c, heard[c])
  <2>1. Grows(address_book, later, {c})
    BY DEF Grows
  <2>2. heard[c] \in Nat
    BY DEF HearingsInv
  <2> QED
    BY <2>1, <2>2, KeptAsItGrows DEF HearingsInv
<1> QED
  BY <1>1 DEF HearingsInv

\* Save renames the entry it finds under the old call sign, if it is renamed.
LEMMA SaveKept ==
  ASSUME HearingsInv, DialogTyped, NEW call \in Call, NEW alias, Book!SaveEntry(call, alias)
  PROVE  HearingsInv' /\ DialogTyped'
<1> DEFINE was == dialog.was
           key == IF was.callsign = "" THEN call ELSE was.callsign
           known == Book!Known(address_book, key, TRUE)
           i == Book!In(known, key)
           e == [known[i] EXCEPT !.callsign = call, !.alias = alias]
           later == [known EXCEPT ![i] = e]
<1>0. address_book \in Seq(Entries) /\ heard \in [Call -> Nat]
  BY DEF HearingsInv
<1>1. was.callsign \in Call \cup {""} /\ was.alias \in Aliases
  <2>1. was \in Entries \cup {Book!Entry("", TRUE)}
    BY DEF Book!SaveEntry, Book!Shown, DialogTyped
  <2> HIDE DEF was
  <2>2. CASE was \in Entries
    BY <2>2 DEF Entries, Aliases
  <2>3. CASE was = Book!Entry("", TRUE)
    BY <2>3 DEF Aliases, Book!Entry, Book!None
  <2> QED
    BY <2>1, <2>2, <2>3
<1>2. alias \in Aliases
  BY <1>1 DEF Book!SaveEntry, Aliases
<1>3. key \in Call
  BY <1>1
<1>4. known \in Seq(Entries) /\ Grows(address_book, known, Call) /\ Book!Of(known, key) # {}
  <2> HIDE DEF key
  <2> QED
    BY <1>0, <1>3, KnownGrows
<1>5. i \in DOMAIN known /\ known[i] \in Entries /\ known[i].callsign = key
  <2> HIDE DEF known, key
  <2> QED
    BY <1>4, InIsThere
<1>6. /\ address_book' = later
      /\ heard' = IF key = call THEN heard ELSE [heard EXCEPT ![key] = 0]
      /\ dialog' = IF was.callsign # "" /\ Book!Of(later, key) # {}
                   THEN Book!Detail(later[Book!In(later, key)]) ELSE Book!Closed
  BY DEF Book!SaveEntry, Book!Saved, Book!None, Book!Shows
<1> HIDE DEF i, known, key, was
<1>7. /\ e \in Entries /\ e.callsign = call
      /\ e.heard_count = known[i].heard_count /\ e.heard_direct = known[i].heard_direct
  BY <1>2, <1>5 DEF Entries, Aliases
<1>8. later \in Seq(Entries) /\ DOMAIN later = DOMAIN known
  BY <1>4, <1>5, <1>7
<1>9. later[i] = e /\ \A j \in DOMAIN known : j # i => later[j] = known[j]
  BY <1>4, <1>5
<1>10. \A j \in DOMAIN known : known[j].heard_count \in Nat
  BY <1>4, EntryTyped
<1> HIDE DEF e, later
<1>11. ASSUME NEW c \in Call, c # key \/ key = call PROVE Grows(address_book, later, {c})
  <2>1. Grows(known, later, {c})
    BY <1>5, <1>7, <1>8, <1>9, <1>10, <1>11 DEF Grows
  <2>2. Grows(address_book, known, {c})
    BY <1>4 DEF Grows
  <2> QED
    BY <1>0, <1>4, <1>8, <2>1, <2>2, GrowthAddsUp
<1>12. heard' \in [Call -> Nat]
  BY <1>0, <1>3, <1>6
<1>13. ASSUME NEW c \in Call PROVE KeptIn(later, c, heard'[c])
  <2>1. CASE c # key \/ key = call
    <3>1. heard'[c] = heard[c] /\ heard[c] \in Nat
      BY <1>0, <1>6, <2>1
    <3>2. KeptIn(address_book, c, heard[c])
      BY DEF HearingsInv
    <3> QED
      BY <1>0, <1>8, <1>11, <2>1, <3>1, <3>2, KeptAsItGrows
  <2>2. CASE c = key /\ key # call
    <3>1. heard'[c] = 0
      BY <1>0, <1>3, <1>6, <2>2
    <3>2. Cardinality(HearingsIn(later, c)) \in Nat
      BY <1>8, HearingsAreFinite
    <3> QED
      BY <3>1, <3>2 DEF KeptIn
  <2> QED
    BY <2>1, <2>2
<1>14. HearingsInv'
  BY <1>6, <1>8, <1>12, <1>13 DEF HearingsInv
<1>15. DialogTyped'
  <2>1. CASE was.callsign # "" /\ Book!Of(later, key) # {}
    <3>1. dialog' = Book!Detail(later[Book!In(later, key)])
      BY <1>6, <2>1
    <3>2. later[Book!In(later, key)] \in Entries
      BY <1>8, <2>1, InIsThere
    <3> QED
      BY <3>1, <3>2 DEF DialogTyped, Book!Detail
  <2>2. CASE ~(was.callsign # "" /\ Book!Of(later, key) # {})
    BY <1>6, <2>2 DEF DialogTyped, Book!Closed
  <2> QED
    BY <2>1, <2>2
<1> QED
  BY <1>14, <1>15

\* An entry is removed, and its hearings with it.
LEMMA RemovalKept ==
  ASSUME HearingsInv, NEW call \in Call, Book!RemoveEntry(call)
  PROVE  HearingsInv'
<1> DEFINE kept == {i \in DOMAIN address_book : address_book[i].callsign # call}
           later == Picked(address_book, kept)
<1>1. /\ address_book \in Seq(Entries) /\ heard \in [Call -> Nat]
      /\ address_book' = later /\ heard' = [heard EXCEPT ![call] = 0]
  BY BookLists DEF HearingsInv, Book!RemoveEntry, Book!Retain
<1>2. later \in Seq(Entries)
  <2>1. kept \subseteq DOMAIN address_book
    OBVIOUS
  <2> HIDE DEF kept
  <2> QED
    BY <1>1, <2>1, PickedIsThere
<1>3. ASSUME NEW c \in Call PROVE KeptIn(later, c, heard'[c])
  <2>1. CASE c # call
    <3>1. heard'[c] = heard[c] /\ heard[c] \in Nat /\ KeptIn(address_book, c, heard[c])
      BY <1>1, <2>1 DEF HearingsInv
    <3> QED
      BY <1>1, <2>1, <3>1, OthersStayKept
  <2>2. CASE c = call
    <3>1. heard'[c] = 0
      BY <1>1, <2>2
    <3>2. Cardinality(HearingsIn(later, c)) \in Nat
      BY <1>2, HearingsAreFinite
    <3> QED
      BY <3>1, <3>2 DEF KeptIn
  <2> QED
    BY <2>1, <2>2
<1>4. heard' \in [Call -> Nat]
  BY <1>1
<1> HIDE DEF later
<1> QED
  BY <1>1, <1>2, <1>3, <1>4 DEF HearingsInv

-----------------------------------------------------------------------------
(* Stations: the logs.                                                     *)

Packets == [id : Nat, tag : Nat]
Logs == {"notified", "beacons"}
IdsDiffer(packets) == \A i, j \in DOMAIN packets : packets[i].id = packets[j].id => i = j

\* A packet of a log has its id for itself, and the rows of the dialog, clones
\* from when it was opened or the log was last changed in it, are still there.
LogInv ==
  /\ log \in [Logs -> Seq(Packets)]
  /\ \A which \in Logs : IdsDiffer(log[which])
  /\ dialog.kind \in {"log", "rules"} =>
       /\ dialog.rows \in [Logs -> Seq(Packets)]
       /\ \A which \in Logs : Range(dialog.rows[which]) \subseteq Range(log[which])

\* A packet that is recorded gets an id that no other has.
LEMMA RecordIsNew ==
  ASSUME NEW packets \in Seq(Packets), IdsDiffer(packets), moves \in Nat
  PROVE  /\ Book!Record(packets) \in Seq(Packets)
         /\ IdsDiffer(Book!Record(packets))
         /\ Range(packets) \subseteq Range(Book!Record(packets))
<1> DEFINE ids == {packets[i].id : i \in DOMAIN packets}
           p == [id |-> Book!NextId(packets), tag |-> moves]
           later == Append(packets, p)
<1>0. \A i \in DOMAIN packets : packets[i].id \in Nat
  <2>1. \A i \in DOMAIN packets : packets[i] \in Packets
    OBVIOUS
  <2> QED
    BY <2>1 DEF Packets
<1>1. ids \subseteq Nat
  BY <1>0
<1>2. IsFiniteSet(ids)
  <2> DEFINE f == [i \in DOMAIN packets |-> packets[i].id]
  <2>1. f \in Surjection(DOMAIN packets, ids)
    BY DEF Surjection
  <2>2. IsFiniteSet(DOMAIN packets)
    <3>1. DOMAIN packets = 1..Len(packets) /\ Len(packets) \in Nat
      OBVIOUS
    <3> QED
      BY <3>1, FS_Interval
  <2> HIDE DEF f, ids
  <2> QED
    BY <2>1, <2>2, FS_Surjection
<1>3. IsFiniteSet(ids \cup {0})
  BY <1>2, FS_AddElement
<1>4. Book!NextId(packets) = Max(ids \cup {0}) + 1
  BY BookLists DEF Book!NextId
<1>5. Max(ids \cup {0}) \in ids \cup {0} /\ \A n \in ids \cup {0} : n <= Max(ids \cup {0})
  <2>1. ids \cup {0} \subseteq Nat /\ ids \cup {0} # {}
    BY <1>1
  <2> HIDE DEF ids
  <2> QED
    BY <1>3, <2>1, GreatestIsThere
<1>6. p \in Packets /\ \A i \in DOMAIN packets : packets[i].id # p.id
  <2>1. p.id \in Nat /\ \A n \in ids : n < p.id
    <3> DEFINE m == Max(ids \cup {0})
    <3>1. p.id = m + 1
      BY <1>4
    <3>2. m \in Nat /\ \A n \in ids : n <= m
      BY <1>1, <1>5
    <3> HIDE DEF ids, m, p
    <3> QED
      BY <1>1, <3>1, <3>2
  <2>2. \A i \in DOMAIN packets : packets[i].id < p.id
    BY <2>1
  <2>3. p \in Packets
    BY <2>1 DEF Packets
  <2> QED
    BY <1>0, <2>1, <2>2, <2>3
<1>7. Book!Record(packets) = later
  BY DEF Book!Record
<1> HIDE DEF p
<1>8. /\ later \in Seq(Packets) /\ DOMAIN later = 1..(Len(packets) + 1)
      /\ later[Len(packets) + 1] = p
      /\ \A i \in 1..Len(packets) : later[i] = packets[i]
  BY <1>6
<1> HIDE DEF later
<1>9. IdsDiffer(later)
  BY <1>6, <1>8 DEF IdsDiffer
<1>10. Range(packets) \subseteq Range(later)
  BY <1>8 DEF Range
<1> QED
  BY <1>7, <1>8, <1>9, <1>10

\* What is left of a log has its ids still.
LEMMA RemovedKeepsIds ==
  ASSUME NEW packets \in Seq(Packets), IdsDiffer(packets), NEW id
  PROVE  /\ Book!Removed(packets, id) \in Seq(Packets)
         /\ IdsDiffer(Book!Removed(packets, id))
<1> DEFINE kept == {i \in DOMAIN packets : packets[i].id # id}
<1>1. Book!Removed(packets, id) = Picked(packets, kept)
  BY BookLists DEF Book!Removed, Book!Retain
<1>2. kept \subseteq DOMAIN packets
  OBVIOUS
<1> HIDE DEF kept
<1>3. /\ Picked(packets, kept) \in Seq(Packets)
      /\ \A k \in DOMAIN Picked(packets, kept) :
           Place(kept, k) \in kept /\ Picked(packets, kept)[k] = packets[Place(kept, k)]
      /\ \A k, l \in DOMAIN Picked(packets, kept) : Place(kept, k) = Place(kept, l) => k = l
  BY <1>2, PickedIsThere
<1>4. IdsDiffer(Picked(packets, kept))
  BY <1>2, <1>3 DEF IdsDiffer
<1> QED
  BY <1>1, <1>3, <1>4

\* The logs grow under an open dialog.
LEMMA LogGrows ==
  ASSUME LogInv, moves \in Nat, UNCHANGED dialog, NEW n, NEW b,
         n \in {log.notified, Book!Record(log.notified)},
         b \in {log.beacons, Book!Record(log.beacons)},
         log' = [notified |-> n, beacons |-> b]
  PROVE  LogInv'
<1>1. /\ log.notified \in Seq(Packets) /\ log.beacons \in Seq(Packets)
      /\ IdsDiffer(log.notified) /\ IdsDiffer(log.beacons)
  BY DEF LogInv, Logs
<1>2. n \in Seq(Packets) /\ IdsDiffer(n) /\ Range(log.notified) \subseteq Range(n)
  BY <1>1, RecordIsNew
<1>3. b \in Seq(Packets) /\ IdsDiffer(b) /\ Range(log.beacons) \subseteq Range(b)
  BY <1>1, RecordIsNew
<1>4. log' \in [Logs -> Seq(Packets)]
  BY <1>2, <1>3 DEF Logs
<1>5. \A which \in Logs : IdsDiffer(log'[which]) /\ Range(log[which]) \subseteq Range(log'[which])
  BY <1>2, <1>3 DEF Logs
<1>6. ASSUME dialog.kind \in {"log", "rules"}
      PROVE  /\ dialog.rows \in [Logs -> Seq(Packets)]
             /\ \A which \in Logs : Range(dialog.rows[which]) \subseteq Range(log'[which])
  BY <1>5, <1>6 DEF LogInv
<1> QED
  BY <1>4, <1>5, <1>6 DEF LogInv

\* One log is changed in the dialog, which shows it afresh.
LEMMA LogIsRebuilt ==
  ASSUME LogInv, DialogTyped, Book!Shown("log"), NEW which \in Logs, NEW later \in Seq(Packets),
         IdsDiffer(later), log' = [log EXCEPT ![which] = later], Book!Rebuilt(which)
  PROVE  LogInv' /\ DialogTyped'
<1>1. dialog.kind = "log" /\ dialog' = [dialog EXCEPT !.rows[which] = log'[which]]
  BY DEF Book!Shown, Book!Rebuilt, Book!Shows
<1>2. dialog.rows \in [Logs -> Seq(Packets)] /\ log \in [Logs -> Seq(Packets)]
  BY <1>1 DEF LogInv
<1>3. log' \in [Logs -> Seq(Packets)] /\ log'[which] = later
  BY <1>2
<1>4. \A w \in Logs : w # which => log'[w] = log[w]
  BY <1>2
<1>5. dialog'.kind = "log" /\ dialog'.rows = [dialog.rows EXCEPT ![which] = later]
  BY <1>1, <1>3
<1>6. \A w \in Logs : Range(dialog'.rows[w]) \subseteq Range(log'[w])
  <2> TAKE w \in Logs
  <2>1. CASE w = which
    BY <1>2, <1>3, <1>5, <2>1
  <2>2. CASE w # which
    BY <1>1, <1>2, <1>4, <1>5, <2>2 DEF LogInv
  <2> QED
    BY <2>1, <2>2
<1>7. \A w \in Logs : IdsDiffer(log'[w])
  BY <1>3, <1>4 DEF LogInv
<1>8. dialog'.rows \in [Logs -> Seq(Packets)]
  BY <1>2, <1>5
<1>9. LogInv'
  BY <1>3, <1>6, <1>7, <1>8 DEF LogInv
<1>10. DialogTyped'
  BY <1>5 DEF DialogTyped
<1> QED
  BY <1>9, <1>10

-----------------------------------------------------------------------------
(* Stations: the rules.                                                    *)

\* The rules of the address book are one for each station that is watched.
OneRuleEach(rules, calls_) ==
  /\ \A i \in DOMAIN rules : rules[i].from_address_book => rules[i].sender \in calls_
  /\ \A c \in calls_ : \E i \in DOMAIN rules : Book!IsRuleOf(rules[i], c)
  /\ \A i, j \in DOMAIN rules :
       /\ rules[i].from_address_book /\ rules[j].from_address_book
       /\ rules[i].sender = rules[j].sender
       => i = j

WatchInv ==
  /\ beacon_rules \in Seq(Rules) /\ watched \subseteq Call
  /\ OneRuleEach(beacon_rules, watched)

\* The rules a test lets pass.
LEMMA RetainedRules ==
  ASSUME NEW rules \in Seq(Rules), NEW kept, kept \subseteq DOMAIN rules
  PROVE  /\ Picked(rules, kept) \in Seq(Rules)
         /\ Len(Picked(rules, kept)) \in Nat
         /\ DOMAIN Picked(rules, kept) = 1..Len(Picked(rules, kept))
         /\ \A k \in DOMAIN Picked(rules, kept) :
              Place(kept, k) \in kept /\ Picked(rules, kept)[k] = rules[Place(kept, k)]
         /\ \A i \in kept :
              \E k \in DOMAIN Picked(rules, kept) : Picked(rules, kept)[k] = rules[i]
         /\ \A k, l \in DOMAIN Picked(rules, kept) : Place(kept, k) = Place(kept, l) => k = l
<1>1. /\ Picked(rules, kept) \in Seq(Rules)
      /\ \A k \in DOMAIN Picked(rules, kept) :
           Place(kept, k) \in kept /\ Picked(rules, kept)[k] = rules[Place(kept, k)]
      /\ \A i \in kept : Rank(kept, i) \in DOMAIN Picked(rules, kept)
                         /\ Picked(rules, kept)[Rank(kept, i)] = rules[i]
      /\ \A k, l \in DOMAIN Picked(rules, kept) : Place(kept, k) = Place(kept, l) => k = l
  BY PickedIsThere
<1> QED
  BY <1>1

\* The book's rules among all.
BookPlaces(rules) == {i \in DOMAIN rules : rules[i].from_address_book}
OtherPlaces(rules) == {i \in DOMAIN rules : ~rules[i].from_address_book}

LEMMA BookRulesRetained ==
  ASSUME NEW rules
  PROVE  /\ Book!Retain(rules, Book!OfBook) = Picked(rules, BookPlaces(rules))
         /\ Book!Retain(rules, Book!NotOfBook) = Picked(rules, OtherPlaces(rules))
  BY BookLists DEF Book!Retain, Book!OfBook, Book!NotOfBook, BookPlaces, OtherPlaces

\* The rules dialog saves the book's rules as they are, whatever it removed.
LEMMA RulesAfterKeep ==
  ASSUME NEW old \in Seq(Rules), NEW rules \in Seq(Rules), NEW calls_, OneRuleEach(old, calls_)
  PROVE  LET later == Picked(old, BookPlaces(old)) \o Picked(rules, OtherPlaces(rules))
         IN  later \in Seq(Rules) /\ OneRuleEach(later, calls_)
<1> DEFINE P == BookPlaces(old)
           Q == OtherPlaces(rules)
           a == Picked(old, P)
           b == Picked(rules, Q)
           later == a \o b
<1>1. /\ P \subseteq DOMAIN old /\ Q \subseteq DOMAIN rules
      /\ \A i \in P : old[i].from_address_book
      /\ \A i \in DOMAIN old : old[i].from_address_book => i \in P
      /\ \A i \in Q : ~rules[i].from_address_book
  BY DEF BookPlaces, OtherPlaces
<1> HIDE DEF P, Q
<1>2. /\ a \in Seq(Rules) /\ Len(a) \in Nat /\ DOMAIN a = 1..Len(a)
      /\ \A k \in DOMAIN a : Place(P, k) \in P /\ a[k] = old[Place(P, k)]
      /\ \A i \in P : \E k \in DOMAIN a : a[k] = old[i]
      /\ \A k, l \in DOMAIN a : Place(P, k) = Place(P, l) => k = l
  BY <1>1, RetainedRules
<1>3. /\ b \in Seq(Rules) /\ Len(b) \in Nat /\ DOMAIN b = 1..Len(b)
      /\ \A k \in DOMAIN b : Place(Q, k) \in Q /\ b[k] = rules[Place(Q, k)]
  BY <1>1, RetainedRules
<1> HIDE DEF a, b
<1>4. /\ later \in Seq(Rules) /\ DOMAIN later = 1..(Len(a) + Len(b))
      /\ \A k \in 1..Len(a) : later[k] = a[k]
      /\ \A k \in 1..(Len(a) + Len(b)) : k > Len(a) => later[k] = b[k - Len(a)]
  BY <1>2, <1>3
<1> HIDE DEF later
<1>5. \A k \in DOMAIN b : ~b[k].from_address_book
  BY <1>1, <1>3
<1>6. \A k \in DOMAIN later :
        later[k].from_address_book =>
          /\ k \in DOMAIN a
          /\ Place(P, k) \in DOMAIN old /\ later[k] = old[Place(P, k)]
  <2> SUFFICES ASSUME NEW k \in DOMAIN later, later[k].from_address_book
               PROVE  /\ k \in DOMAIN a
                      /\ Place(P, k) \in DOMAIN old /\ later[k] = old[Place(P, k)]
    OBVIOUS
  <2>1. k <= Len(a)
    <3> SUFFICES ASSUME k > Len(a) PROVE FALSE
      BY <1>2, <1>3, <1>4
    <3>1. later[k] = b[k - Len(a)] /\ k - Len(a) \in DOMAIN b
      BY <1>2, <1>3, <1>4
    <3> QED
      BY <1>5, <3>1
  <2>2. k \in DOMAIN a /\ later[k] = a[k]
    BY <1>2, <1>3, <1>4, <2>1
  <2> QED
    BY <1>1, <1>2, <2>2
<1>7. \A k \in DOMAIN later : later[k].from_address_book => later[k].sender \in calls_
  BY <1>6 DEF OneRuleEach
<1>8. \A c \in calls_ : \E k \in DOMAIN later : Book!IsRuleOf(later[k], c)
  <2> TAKE c \in calls_
  <2>1. PICK i \in DOMAIN old : Book!IsRuleOf(old[i], c)
    BY DEF OneRuleEach
  <2>2. PICK k \in DOMAIN a : a[k] = old[i]
    BY <1>1, <1>2, <2>1 DEF Book!IsRuleOf
  <2>3. k \in DOMAIN later /\ later[k] = old[i]
    BY <1>2, <1>3, <1>4, <2>2
  <2> QED
    BY <2>1, <2>3
<1>9. \A k, l \in DOMAIN later :
        /\ later[k].from_address_book /\ later[l].from_address_book
        /\ later[k].sender = later[l].sender
        => k = l
  <2> SUFFICES ASSUME NEW k \in DOMAIN later, NEW l \in DOMAIN later,
                      later[k].from_address_book, later[l].from_address_book,
                      later[k].sender = later[l].sender
               PROVE  k = l
    OBVIOUS
  <2>1. /\ k \in DOMAIN a /\ Place(P, k) \in DOMAIN old /\ later[k] = old[Place(P, k)]
        /\ l \in DOMAIN a /\ Place(P, l) \in DOMAIN old /\ later[l] = old[Place(P, l)]
    BY <1>6
  <2>2. Place(P, k) = Place(P, l)
    BY <2>1 DEF OneRuleEach
  <2> QED
    BY <1>2, <2>1, <2>2
<1> QED
  BY <1>4, <1>7, <1>8, <1>9 DEF OneRuleEach, later, a, b, P, Q

\* The toggle adds the rule of a station or removes it.
LEMMA ToggleKeepsOneEach ==
  ASSUME WatchInv, DialogTyped, Book!ToggleWatch
  PROVE  WatchInv'
<1> DEFINE call == dialog.entry.callsign
           rules == beacon_rules
<1>1. call \in Call
  BY DEF Book!ToggleWatch, Book!Shown, DialogTyped, Entries
<1>2. rules \in Seq(Rules) /\ watched \subseteq Call /\ OneRuleEach(rules, watched)
  BY DEF WatchInv
<1>3. CASE call \in watched
  <2> DEFINE kept == {i \in DOMAIN rules : ~Book!IsRuleOf(rules[i], call)}
             later == Picked(rules, kept)
  <2>1. beacon_rules' = later /\ watched' = watched \ {call}
    BY <1>3, BookLists DEF Book!ToggleWatch, Book!Retain
  <2>2. /\ kept \subseteq DOMAIN rules
        /\ \A i \in DOMAIN rules : i \in kept <=> ~Book!IsRuleOf(rules[i], call)
    OBVIOUS
  <2> HIDE DEF kept, rules, call
  <2>3. /\ later \in Seq(Rules)
        /\ \A k \in DOMAIN later : Place(kept, k) \in kept /\ later[k] = rules[Place(kept, k)]
        /\ \A i \in kept : \E k \in DOMAIN later : later[k] = rules[i]
        /\ \A k, l \in DOMAIN later : Place(kept, k) = Place(kept, l) => k = l
    BY <1>2, <2>2, RetainedRules
  <2> HIDE DEF later
  <2>4. \A k \in DOMAIN later : later[k].from_address_book => later[k].sender \in watched \ {call}
    BY <1>2, <2>2, <2>3 DEF OneRuleEach, Book!IsRuleOf
  <2>5. ASSUME NEW c \in watched \ {call} PROVE \E k \in DOMAIN later : Book!IsRuleOf(later[k], c)
    <3>1. PICK i \in DOMAIN rules : Book!IsRuleOf(rules[i], c)
      BY <1>2 DEF OneRuleEach
    <3>2. i \in kept
      BY <2>2, <2>5, <3>1 DEF Book!IsRuleOf
    <3> QED
      BY <2>3, <3>1, <3>2
  <2>6. \A k, l \in DOMAIN later :
          /\ later[k].from_address_book /\ later[l].from_address_book
          /\ later[k].sender = later[l].sender
          => k = l
    <3> SUFFICES ASSUME NEW k \in DOMAIN later, NEW l \in DOMAIN later,
                        later[k].from_address_book, later[l].from_address_book,
                        later[k].sender = later[l].sender
                 PROVE  k = l
      OBVIOUS
    <3>1. /\ Place(kept, k) \in DOMAIN rules /\ later[k] = rules[Place(kept, k)]
          /\ Place(kept, l) \in DOMAIN rules /\ later[l] = rules[Place(kept, l)]
      BY <2>2, <2>3
    <3>2. Place(kept, k) = Place(kept, l)
      BY <1>2, <3>1 DEF OneRuleEach
    <3> QED
      BY <2>3, <3>2
  <2>7. OneRuleEach(later, watched \ {call})
    BY <2>4, <2>5, <2>6 DEF OneRuleEach
  <2> QED
    BY <1>2, <2>1, <2>3, <2>7 DEF WatchInv
<1>4. CASE call \notin watched
  <2> DEFINE later == Append(rules, Book!BookRule(call))
  <2>1. ~\E i \in DOMAIN rules : Book!IsRuleOf(rules[i], call)
    BY <1>2, <1>4 DEF OneRuleEach, Book!IsRuleOf
  <2>2. beacon_rules' = later /\ watched' = watched \cup {call}
    BY <1>4, <2>1 DEF Book!ToggleWatch
  <2>3. /\ Book!BookRule(call) \in Rules /\ Book!IsRuleOf(Book!BookRule(call), call)
        /\ Book!BookRule(call).from_address_book /\ Book!BookRule(call).sender = call
    BY <1>1 DEF Book!BookRule, Rules, Book!IsRuleOf
  <2> HIDE DEF rules, call
  <2>4. /\ later \in Seq(Rules) /\ Len(rules) \in Nat /\ DOMAIN rules = 1..Len(rules)
        /\ DOMAIN later = 1..(Len(rules) + 1)
        /\ later[Len(rules) + 1] = Book!BookRule(call)
        /\ \A i \in DOMAIN rules : later[i] = rules[i]
    BY <1>2, <2>3
  <2>5. \A i \in DOMAIN later : i \in DOMAIN rules \/ i = Len(rules) + 1
    BY <2>4
  <2>6. DOMAIN rules \subseteq DOMAIN later /\ Len(rules) + 1 \in DOMAIN later
    BY <2>4
  <2> HIDE DEF later
  <2>7. \A i \in DOMAIN later : later[i].from_address_book => later[i].sender \in watched \cup {call}
    BY <1>2, <2>3, <2>4, <2>5 DEF OneRuleEach
  <2>8. \A c \in watched \cup {call} : \E i \in DOMAIN later : Book!IsRuleOf(later[i], c)
    BY <1>2, <2>3, <2>4, <2>6 DEF OneRuleEach
  <2>9. \A i, j \in DOMAIN later :
          /\ later[i].from_address_book /\ later[j].from_address_book
          /\ later[i].sender = later[j].sender
          => i = j
    <3> SUFFICES ASSUME NEW i \in DOMAIN later, NEW j \in DOMAIN later,
                        later[i].from_address_book, later[j].from_address_book,
                        later[i].sender = later[j].sender
                 PROVE  i = j
      OBVIOUS
    <3>1. \A k \in DOMAIN rules : rules[k].from_address_book => rules[k].sender # call
      BY <2>1 DEF Book!IsRuleOf
    <3>2. CASE i \in DOMAIN rules /\ j \in DOMAIN rules
      BY <1>2, <2>4, <3>2 DEF OneRuleEach
    <3>3. CASE ~(i \in DOMAIN rules /\ j \in DOMAIN rules)
      BY <2>3, <2>4, <2>5, <3>1, <3>3
    <3> QED
      BY <3>2, <3>3
  <2>10. OneRuleEach(later, watched \cup {call})
    BY <2>7, <2>8, <2>9 DEF OneRuleEach
  <2> QED
    BY <1>1, <1>2, <2>2, <2>4, <2>10 DEF WatchInv, call
<1> QED
  BY <1>3, <1>4

-----------------------------------------------------------------------------
(* Stations: every step.                                                   *)

BookInv == moves \in Nat /\ HearingsInv /\ DialogTyped /\ LogInv /\ WatchInv

\* What is not touched stays as it is.
LEMMA BookUntouched ==
  /\ HearingsInv /\ UNCHANGED <<address_book, heard>> => HearingsInv'
  /\ LogInv /\ UNCHANGED <<log, dialog>> => LogInv'
  /\ DialogTyped /\ UNCHANGED dialog => DialogTyped'
  /\ WatchInv /\ UNCHANGED <<beacon_rules, watched>> => WatchInv'
<1>1. HearingsInv /\ UNCHANGED <<address_book, heard>> => HearingsInv'
  BY DEF HearingsInv
<1>2. LogInv /\ UNCHANGED <<log, dialog>> => LogInv'
  BY DEF LogInv
<1>3. DialogTyped /\ UNCHANGED dialog => DialogTyped'
  BY DEF DialogTyped
<1>4. WatchInv /\ UNCHANGED <<beacon_rules, watched>> => WatchInv'
  BY DEF WatchInv
<1> QED
  BY <1>1, <1>2, <1>3, <1>4

\* A dialog that shows no log needs none.
LEMMA NoRowsNoHarm ==
  ASSUME LogInv, UNCHANGED log, dialog'.kind \notin {"log", "rules"}
  PROVE  LogInv'
  BY DEF LogInv

\* One that keeps its rows keeps what they show.
LEMMA RowsStay ==
  ASSUME LogInv, UNCHANGED log, dialog.kind \in {"log", "rules"}, dialog'.rows = dialog.rows
  PROVE  LogInv'
  BY DEF LogInv

\* What is heard changes the book and the logs, and no dialog.
LEMMA HearingSteps ==
  ASSUME BookInv,
         \/ \E c \in Call :
              \/ Book!StationHeard(c)
              \/ \E to \in {"ME", "BEACON", "MAIL"} : Book!Monitor(c, to)
              \/ \E e \in [callsign : Call, alias : {Book!None, "node"}] :
                   Book!NodesBroadcast(c, e)
         \/ Book!StationConnects
  PROVE  BookInv'
<1>1. HearingsInv /\ DialogTyped /\ LogInv /\ WatchInv /\ moves \in Nat
  BY DEF BookInv
<1>2. address_book \in Seq(Entries)
  BY <1>1 DEF HearingsInv
<1>3. ASSUME NEW c \in Call, Book!StationHeard(c) PROVE BookInv'
  <2>1. /\ address_book' = Book!record_heard(address_book, c)
        /\ heard' = [heard EXCEPT ![c] = @ + 1] /\ moves' = moves + 1
        /\ UNCHANGED <<beacon_rules, log, dialog, watched>>
    BY <1>3 DEF Book!StationHeard, Book!Move
  <2> DEFINE r == Book!record_heard(address_book, c)
  <2>2. r \in Seq(Entries)
    BY <1>2, HeardIsCounted
  <2>3. Grows(r, r, Call)
    <3> HIDE DEF r
    <3> QED
      BY <2>2, EntryTyped DEF Grows
  <2>4. HearingsInv'
    BY <1>1, <2>1, <2>2, <2>3, HearingKept
  <2> QED
    BY <1>1, <2>1, <2>4, BookUntouched DEF BookInv
<1>4. ASSUME NEW c \in Call, NEW e \in [callsign : Call, alias : {Book!None, "node"}],
             Book!NodesBroadcast(c, e)
      PROVE  BookInv'
  <2> DEFINE later == Book!record_nodes_broadcast(address_book, c, "node", e)
  <2>2. /\ address_book' = later
        /\ heard' = [heard EXCEPT ![c] = @ + 1] /\ moves' = moves + 1
        /\ UNCHANGED <<beacon_rules, log, dialog, watched>>
    BY <1>4 DEF Book!NodesBroadcast, Book!Move
  <2>3. later \in Seq(Entries) /\ Grows(Book!record_heard(address_book, c), later, Call)
    <3>1. "node" \in Aliases
      BY DEF Aliases
    <3> QED
      BY <1>2, <3>1, NodesAreCounted
  <2>4. HearingsInv'
    BY <1>1, <2>2, <2>3, HearingKept
  <2> QED
    BY <1>1, <2>2, <2>4, BookUntouched DEF BookInv
<1>5. ASSUME NEW c \in Call, NEW to \in {"ME", "BEACON", "MAIL"}, Book!Monitor(c, to)
      PROVE  BookInv'
  <2>2. moves' = moves + 1 /\ UNCHANGED <<beacon_rules, dialog, heard, watched>>
    BY <1>5 DEF Book!Monitor, Book!Move
  <2>3. \E n \in {log.notified, Book!Record(log.notified)},
           b \in {log.beacons, Book!Record(log.beacons)} :
             log' = [notified |-> n, beacons |-> b]
    BY <1>5 DEF Book!Monitor
  <2>4. LogInv'
    BY <1>1, <2>2, <2>3, LogGrows
  <2>5. HearingsInv'
    <3>1. CASE address_book' = Book!record_id_packet(address_book, c, "hello")
      BY <1>1, <1>2, <2>2, <3>1, IdPacketGrows, GrowthKept
    <3>2. CASE address_book' = address_book
      BY <1>1, <2>2, <3>2, BookUntouched
    <3> QED
      BY <1>5, <3>1, <3>2 DEF Book!Monitor
  <2> QED
    BY <1>1, <2>2, <2>4, <2>5, BookUntouched DEF BookInv
<1>6. CASE Book!StationConnects
  <2>1. /\ log' = [log EXCEPT !.notified = Book!Record(log.notified)] /\ moves' = moves + 1
        /\ UNCHANGED <<address_book, beacon_rules, dialog, heard, watched>>
    BY <1>6 DEF Book!StationConnects, Book!Move
  <2>2. log' = [notified |-> Book!Record(log.notified), beacons |-> log.beacons]
    <3>1. log \in [{"notified", "beacons"} -> Seq(Packets)]
      BY <1>1 DEF LogInv, Logs
    <3> QED
      BY <2>1, <3>1
  <2>3. LogInv'
    <3> DEFINE n == Book!Record(log.notified)
    <3>1. n \in {log.notified, Book!Record(log.notified)} /\ UNCHANGED dialog
      BY <2>1
    <3>2. log.beacons \in {log.beacons, Book!Record(log.beacons)}
      OBVIOUS
    <3>3. log' = [notified |-> n, beacons |-> log.beacons]
      BY <2>2
    <3> HIDE DEF n
    <3> QED
      BY <1>1, <3>1, <3>2, <3>3, LogGrows
  <2> QED
    BY <1>1, <2>1, <2>3, BookUntouched DEF BookInv
<1> QED
  BY <1>3, <1>4, <1>5, <1>6

\* The dialogs over the address book.
LEMMA BookDialogSteps ==
  ASSUME BookInv,
         \/ \E c \in Call : Book!RemoveEntry(c)
         \/ \E c \in Call : \E alias \in {Book!None, "node", "mine"} : Book!SaveEntry(c, alias)
         \/ Book!OpenDetail \/ Book!ToggleWatch \/ Book!OpenEdit \/ Book!CloseDialog
  PROVE  BookInv'
<1>1. HearingsInv /\ DialogTyped /\ LogInv /\ WatchInv /\ moves \in Nat
  BY DEF BookInv
<1>2. ASSUME NEW c \in Call, Book!RemoveEntry(c) PROVE BookInv'
  <2>1. UNCHANGED <<beacon_rules, log, dialog, watched, moves>>
    BY <1>2 DEF Book!RemoveEntry
  <2> QED
    BY <1>1, <1>2, <2>1, RemovalKept, BookUntouched DEF BookInv
<1>3. ASSUME NEW c \in Call, NEW alias, Book!SaveEntry(c, alias) PROVE BookInv'
  <2>1. UNCHANGED <<beacon_rules, log, watched, moves>>
    BY <1>3 DEF Book!SaveEntry
  <2>2. HearingsInv' /\ DialogTyped'
    BY <1>1, <1>3, SaveKept
  <2>3. dialog'.kind \notin {"log", "rules"}
    BY <1>3 DEF Book!SaveEntry, Book!Shows, Book!Detail, Book!Closed
  <2>4. LogInv'
    BY <1>1, <2>1, <2>3, NoRowsNoHarm
  <2> QED
    BY <1>1, <2>1, <2>2, <2>4, BookUntouched DEF BookInv
<1>4. CASE Book!OpenDetail
  <2>1. UNCHANGED <<address_book, beacon_rules, log, heard, watched>> /\ moves' = moves + 1
    BY <1>4 DEF Book!OpenDetail, Book!data, Book!Move
  <2>2. PICK i \in DOMAIN address_book : dialog' = Book!Detail(address_book[i])
    BY <1>4 DEF Book!OpenDetail, Book!Shows
  <2>3. address_book[i] \in Entries
    BY <1>1, EntryTyped DEF HearingsInv
  <2>4. DialogTyped' /\ dialog'.kind \notin {"log", "rules"}
    BY <2>2, <2>3 DEF DialogTyped, Book!Detail
  <2> QED
    BY <1>1, <2>1, <2>4, NoRowsNoHarm, BookUntouched DEF BookInv
<1>5. CASE Book!ToggleWatch
  <2>1. UNCHANGED <<address_book, log, heard, dialog, moves>>
    BY <1>5 DEF Book!ToggleWatch
  <2> QED
    BY <1>1, <1>5, <2>1, ToggleKeepsOneEach, BookUntouched DEF BookInv
<1>6. CASE Book!OpenEdit
  <2>1. UNCHANGED <<address_book, beacon_rules, log, heard, watched>> /\ moves' = moves + 1
    BY <1>6 DEF Book!OpenEdit, Book!data, Book!Move
  <2>2. DialogTyped' /\ dialog'.kind \notin {"log", "rules"}
    <3>1. PICK was \in Entries \cup {Book!Entry("", TRUE)} : dialog' = [kind |-> "edit", was |-> was]
      <4>1. CASE dialog.kind = "detail" /\ dialog' = [kind |-> "edit", was |-> dialog.entry]
        BY <1>1, <4>1 DEF DialogTyped
      <4>2. CASE dialog' = [kind |-> "edit", was |-> Book!Entry("", TRUE)]
        BY <4>2
      <4> QED
        BY <1>6, <4>1, <4>2 DEF Book!OpenEdit, Book!Shown, Book!Shows, Book!None
    <3>2. dialog'.kind = "edit" /\ dialog'.was \in Entries \cup {Book!Entry("", TRUE)}
      BY <3>1
    <3> QED
      BY <3>2 DEF DialogTyped
  <2> QED
    BY <1>1, <2>1, <2>2, NoRowsNoHarm, BookUntouched DEF BookInv
<1>7. CASE Book!CloseDialog
  <2>1. UNCHANGED <<address_book, beacon_rules, log, heard, watched, moves>>
    BY <1>7 DEF Book!CloseDialog, Book!data
  <2>2. CASE dialog.kind = "rules"
    <3>1. dialog' = [kind |-> "log", rows |-> dialog.rows]
      BY <1>7, <2>2 DEF Book!CloseDialog, Book!Shown, Book!Shows
    <3>2. DialogTyped' /\ dialog'.rows = dialog.rows
      BY <3>1 DEF DialogTyped
    <3> QED
      BY <1>1, <2>1, <2>2, <3>2, RowsStay, BookUntouched DEF BookInv
  <2>3. CASE dialog.kind = "edit" /\ dialog.was.callsign # ""
    <3>1. dialog' = Book!Detail(dialog.was)
      BY <1>7, <2>3 DEF Book!CloseDialog, Book!Shown, Book!Shows, Book!None
    <3>2. dialog.was \in Entries
      <4>1. dialog.was \in Entries \cup {Book!Entry("", TRUE)}
        BY <1>1, <2>3 DEF DialogTyped
      <4>2. Book!Entry("", TRUE).callsign = ""
        BY DEF Book!Entry
      <4> QED
        BY <2>3, <4>1, <4>2
    <3>3. DialogTyped' /\ dialog'.kind \notin {"log", "rules"}
      BY <3>1, <3>2 DEF DialogTyped, Book!Detail
    <3> QED
      BY <1>1, <2>1, <3>3, NoRowsNoHarm, BookUntouched DEF BookInv
  <2>4. CASE dialog.kind # "rules" /\ ~(dialog.kind = "edit" /\ dialog.was.callsign # "")
    <3>1. dialog' = Book!Closed
      BY <1>7, <2>4 DEF Book!CloseDialog, Book!Shown, Book!Shows, Book!None
    <3>2. DialogTyped' /\ dialog'.kind \notin {"log", "rules"}
      BY <3>1 DEF DialogTyped, Book!Closed
    <3> QED
      BY <1>1, <2>1, <3>2, NoRowsNoHarm, BookUntouched DEF BookInv
  <2> QED
    BY <2>2, <2>3, <2>4
<1> QED
  BY <1>2, <1>3, <1>4, <1>5, <1>6, <1>7

\* The Notifications dialog and its logs.
LEMMA LogDialogSteps ==
  ASSUME BookInv,
         \/ Book!OpenLog \/ Book!ToggleDirected
         \/ Book!Shown("log") /\ \E which \in DOMAIN log :
              \/ Book!ClearLog(which)
              \/ \E row \in Book!Range(dialog.rows[which]) : Book!DeleteRow(which, row)
  PROVE  BookInv'
<1>1. HearingsInv /\ DialogTyped /\ LogInv /\ WatchInv /\ moves \in Nat
  BY DEF BookInv
<1>2. CASE Book!OpenLog
  <2>1. /\ UNCHANGED <<address_book, beacon_rules, log, heard, watched>> /\ moves' = moves + 1
        /\ dialog' = [kind |-> "log", rows |-> log]
    BY <1>2 DEF Book!OpenLog, Book!data, Book!Move, Book!Shows
  <2>2. DialogTyped'
    BY <2>1 DEF DialogTyped
  <2>3. dialog'.rows = log /\ log' = log
    BY <2>1
  <2>4. LogInv'
    BY <1>1, <2>3 DEF LogInv
  <2> QED
    BY <1>1, <2>1, <2>2, <2>4, BookUntouched DEF BookInv
<1>3. CASE Book!ToggleDirected
  <2>1. UNCHANGED <<address_book, beacon_rules, log, heard, watched, dialog, moves>>
    BY <1>3 DEF Book!ToggleDirected
  <2> QED
    BY <1>1, <2>1, BookUntouched DEF BookInv
<1>4. ASSUME NEW which \in DOMAIN log, Book!Shown("log"), Book!ClearLog(which) PROVE BookInv'
  <2>1. /\ UNCHANGED <<address_book, beacon_rules, heard, watched, moves>>
        /\ log' = [log EXCEPT ![which] = <<>>] /\ Book!Rebuilt(which)
    BY <1>4 DEF Book!ClearLog
  <2>2. which \in Logs
    BY <1>1 DEF LogInv
  <2>3. <<>> \in Seq(Packets) /\ IdsDiffer(<<>>)
    BY DEF IdsDiffer
  <2>4. LogInv' /\ DialogTyped'
    BY <1>1, <1>4, <2>1, <2>2, <2>3, LogIsRebuilt
  <2> QED
    BY <1>1, <2>1, <2>4, BookUntouched DEF BookInv
<1>5. ASSUME NEW which \in DOMAIN log, NEW row, Book!Shown("log"), Book!DeleteRow(which, row)
      PROVE  BookInv'
  <2>1. /\ UNCHANGED <<address_book, beacon_rules, heard, watched, moves>>
        /\ log' = [log EXCEPT ![which] = Book!Removed(log[which], row.id)] /\ Book!Rebuilt(which)
    BY <1>5 DEF Book!DeleteRow
  <2>2. which \in Logs /\ log[which] \in Seq(Packets) /\ IdsDiffer(log[which])
    BY <1>1 DEF LogInv
  <2>3. Book!Removed(log[which], row.id) \in Seq(Packets) /\ IdsDiffer(Book!Removed(log[which], row.id))
    BY <2>2, RemovedKeepsIds
  <2>4. LogInv' /\ DialogTyped'
    BY <1>1, <1>5, <2>1, <2>2, <2>3, LogIsRebuilt
  <2> QED
    BY <1>1, <2>1, <2>4, BookUntouched DEF BookInv
<1> QED
  BY <1>2, <1>3, <1>4, <1>5

\* The dialog of the rules.
LEMMA RulesDialogSteps ==
  ASSUME BookInv,
         \/ Book!OpenRules \/ Book!SaveRules \/ Book!AddRule
         \/ Book!Shown("rules") /\ \E i \in DOMAIN dialog.rules : Book!EditRule(i) \/ Book!RemoveRule(i)
  PROVE  BookInv'
<1>1. HearingsInv /\ DialogTyped /\ LogInv /\ WatchInv /\ moves \in Nat
  BY DEF BookInv
<1>2. beacon_rules \in Seq(Rules) /\ OneRuleEach(beacon_rules, watched) /\ watched \subseteq Call
  BY <1>1 DEF WatchInv
<1>3. CASE Book!OpenRules
  <2> DEFINE rules == Picked(beacon_rules, BookPlaces(beacon_rules))
                      \o Picked(beacon_rules, OtherPlaces(beacon_rules))
  <2>1. /\ UNCHANGED <<address_book, beacon_rules, log, heard, watched>> /\ moves' = moves + 1
        /\ dialog.kind = "log"
        /\ dialog' = [kind |-> "rules", rows |-> dialog.rows, rules |-> rules]
    BY <1>3, BookRulesRetained DEF Book!OpenRules, Book!data, Book!Move, Book!Shown, Book!Shows
  <2>2. rules \in Seq(Rules)
    BY <1>2, RulesAfterKeep
  <2> HIDE DEF rules
  <2>3. DialogTyped' /\ dialog'.rows = dialog.rows
    BY <2>1, <2>2 DEF DialogTyped
  <2>4. LogInv'
    BY <1>1, <2>1, <2>3, RowsStay
  <2> QED
    BY <1>1, <2>1, <2>3, <2>4, BookUntouched DEF BookInv
<1>4. CASE Book!SaveRules
  <2> DEFINE later == Picked(beacon_rules, BookPlaces(beacon_rules))
                      \o Picked(dialog.rules, OtherPlaces(dialog.rules))
  <2>1. /\ UNCHANGED <<address_book, log, heard, watched, moves>>
        /\ dialog.kind = "rules"
        /\ dialog' = [kind |-> "log", rows |-> dialog.rows]
        /\ beacon_rules' = later
    BY <1>4, BookRulesRetained DEF Book!SaveRules, Book!RulesAfter, Book!Shown, Book!Shows
  <2>2. dialog.rules \in Seq(Rules)
    BY <1>1, <2>1 DEF DialogTyped
  <2>3. later \in Seq(Rules) /\ OneRuleEach(later, watched)
    BY <1>2, <2>2, RulesAfterKeep
  <2> HIDE DEF later
  <2>4. WatchInv'
    BY <1>2, <2>1, <2>3 DEF WatchInv
  <2>5. DialogTyped' /\ dialog'.rows = dialog.rows
    BY <2>1 DEF DialogTyped
  <2>6. LogInv'
    BY <1>1, <2>1, <2>5, RowsStay
  <2> QED
    BY <1>1, <2>1, <2>4, <2>5, <2>6, BookUntouched DEF BookInv
<1>5. ASSUME NEW rules \in Seq(Rules), dialog.kind = "rules",
             dialog' = [dialog EXCEPT !.rules = rules], UNCHANGED <<Book!data, moves>>
      PROVE  BookInv'
  <2>1. UNCHANGED <<address_book, beacon_rules, log, heard, watched, moves>>
    BY <1>5 DEF Book!data
  <2>2. dialog' = [kind |-> "rules", rows |-> dialog.rows, rules |-> rules]
    BY <1>1, <1>5 DEF DialogTyped
  <2>4. DialogTyped' /\ dialog'.rows = dialog.rows
    BY <1>5, <2>2 DEF DialogTyped
  <2>3. LogInv'
    BY <1>1, <1>5, <2>1, <2>4, RowsStay
  <2> QED
    BY <1>1, <2>1, <2>3, <2>4, BookUntouched DEF BookInv
<1>6. CASE Book!AddRule
  <2> DEFINE rule == [sender |-> "", to |-> "", enabled |-> TRUE, from_address_book |-> FALSE]
  <2>1. /\ dialog.kind = "rules" /\ UNCHANGED <<Book!data, moves>>
        /\ dialog' = [dialog EXCEPT !.rules = Append(dialog.rules, rule)]
    BY <1>6 DEF Book!AddRule, Book!Shown, Book!Shows, Book!Anyone
  <2>2. rule \in Rules /\ dialog.rules \in Seq(Rules)
    BY <1>1, <2>1 DEF DialogTyped, Rules
  <2> HIDE DEF rule
  <2>3. Append(dialog.rules, rule) \in Seq(Rules)
    BY <2>2
  <2> QED
    BY <1>5, <2>1, <2>3
<1>7. ASSUME NEW i \in DOMAIN dialog.rules, dialog.kind = "rules", Book!EditRule(i) PROVE BookInv'
  <2>1. PICK sender \in Call, enabled_ \in BOOLEAN :
          dialog' = [dialog EXCEPT !.rules[i] =
                       [dialog.rules[i] EXCEPT !.sender = sender, !.to = "ME", !.enabled = enabled_]]
    BY <1>7 DEF Book!EditRule, Book!Shows
  <2>2. dialog.rules \in Seq(Rules) /\ dialog.rules[i] \in Rules
    BY <1>1, <1>7 DEF DialogTyped
  <2> DEFINE rule == [dialog.rules[i] EXCEPT !.sender = sender, !.to = "ME", !.enabled = enabled_]
  <2>3. rule \in Rules
    BY <2>2 DEF Rules
  <2>4. UNCHANGED <<Book!data, moves>>
    BY <1>7 DEF Book!EditRule
  <2> HIDE DEF rule
  <2>5. [dialog.rules EXCEPT ![i] = rule] \in Seq(Rules)
    BY <2>2, <2>3
  <2>6. dialog' = [dialog EXCEPT !.rules = [dialog.rules EXCEPT ![i] = rule]]
    BY <2>1 DEF rule
  <2> QED
    BY <1>5, <1>7, <2>4, <2>5, <2>6
<1>8. ASSUME NEW i \in DOMAIN dialog.rules, dialog.kind = "rules", Book!RemoveRule(i) PROVE BookInv'
  <2> DEFINE s == dialog.rules
             rules == SubSeq(s, 1, i - 1) \o SubSeq(s, i + 1, Len(s))
  <2>1. /\ UNCHANGED <<Book!data, moves>>
        /\ dialog' = [dialog EXCEPT !.rules = rules]
    BY <1>8, BookLists DEF Book!RemoveRule, Book!Shows
  <2>2. s \in Seq(Rules) /\ i \in 1..Len(s)
    BY <1>1, <1>8 DEF DialogTyped
  <2> HIDE DEF s
  <2>3. SubSeq(s, 1, i - 1) \in Seq(Rules) /\ SubSeq(s, i + 1, Len(s)) \in Seq(Rules)
    BY <2>2
  <2>4. rules \in Seq(Rules)
    BY <2>3
  <2> HIDE DEF rules
  <2> QED
    BY <1>5, <1>8, <2>1, <2>4
<1> QED
  BY <1>3, <1>4, <1>6, <1>7, <1>8 DEF Book!Shown

\* Whatever is heard and done, the book, the logs and the rules hold together.
LEMMA BookStepKeeps == BookInv /\ Book!Next => BookInv'
<1> SUFFICES ASSUME BookInv, Book!Next PROVE BookInv'
  OBVIOUS
<1>1. ASSUME Book!BookNext PROVE BookInv'
  BY <1>1, HearingSteps, BookDialogSteps DEF Book!BookNext
<1>2. ASSUME Book!LogNext PROVE BookInv'
  BY <1>2, LogDialogSteps, RulesDialogSteps DEF Book!LogNext
<1> QED
  BY <1>1, <1>2 DEF Book!Next

\* What the invariant says of the hearings.
LEMMA BookKeepsHearings == BookInv => HeardIsKept
<1> SUFFICES ASSUME BookInv PROVE HeardIsKept
  OBVIOUS
<1>1. \A c \in Call : KeptIn(address_book, c, heard[c])
  BY DEF BookInv, HearingsInv
<1>2. \A c : Book!Cardinality(Book!Hearings(c)) = Cardinality(HearingsIn(address_book, c))
  BY BookLists DEF Book!Hearings, HearingsIn
<1> QED
  BY <1>1, <1>2 DEF HeardIsKept, Book!HeardIsKept, KeptIn

\* Of the rows.
LEMMA BookKeepsRows == BookInv => RowsDeleteWhatTheyShow
<1> SUFFICES ASSUME BookInv, dialog.kind \in {"log", "rules"}, NEW which \in DOMAIN log,
                    NEW row \in Range(dialog.rows[which])
             PROVE  {p \in Range(log[which]) : p.id = row.id} = {row}
  BY BookLists DEF RowsDeleteWhatTheyShow, Book!RowsDeleteWhatTheyShow
<1>1. which \in Logs /\ row \in Range(log[which]) /\ IdsDiffer(log[which])
  BY DEF BookInv, LogInv
<1>2. PICK i \in DOMAIN log[which] : log[which][i] = row
  BY <1>1 DEF Range
<1>3. ASSUME NEW p \in Range(log[which]), p.id = row.id PROVE p = row
  <2>1. PICK j \in DOMAIN log[which] : log[which][j] = p
    BY <1>3 DEF Range
  <2>2. i = j
    BY <1>1, <1>2, <1>3, <2>1 DEF IdsDiffer
  <2> QED
    BY <1>2, <2>1, <2>2
<1> QED
  BY <1>1, <1>3

\* Of the rules.
LEMMA BookKeepsRules == BookInv => WatchesFollowTheToggle
<1> SUFFICES ASSUME BookInv PROVE Book!WatchesFollowTheToggle
  BY DEF WatchesFollowTheToggle
<1> DEFINE P == BookPlaces(beacon_rules)
           ofBook == Picked(beacon_rules, P)
<1>1. beacon_rules \in Seq(Rules) /\ OneRuleEach(beacon_rules, watched)
  BY DEF BookInv, WatchInv
<1>2. /\ P \subseteq DOMAIN beacon_rules
      /\ \A i \in P : beacon_rules[i].from_address_book
      /\ \A i \in DOMAIN beacon_rules : beacon_rules[i].from_address_book => i \in P
  BY DEF BookPlaces
<1> HIDE DEF P
<1>3. /\ \A k \in DOMAIN ofBook : Place(P, k) \in P /\ ofBook[k] = beacon_rules[Place(P, k)]
      /\ \A i \in P : \E k \in DOMAIN ofBook : ofBook[k] = beacon_rules[i]
      /\ \A k, l \in DOMAIN ofBook : Place(P, k) = Place(P, l) => k = l
  BY <1>1, <1>2, RetainedRules
<1> HIDE DEF ofBook
<1>4. \A k \in DOMAIN ofBook : ofBook[k].sender \in watched
  BY <1>1, <1>2, <1>3 DEF OneRuleEach
<1>5. ASSUME NEW c \in watched PROVE \E k \in DOMAIN ofBook : ofBook[k].sender = c
  <2>1. PICK i \in DOMAIN beacon_rules : Book!IsRuleOf(beacon_rules[i], c)
    BY <1>1 DEF OneRuleEach
  <2>2. i \in P /\ beacon_rules[i].sender = c
    BY <1>2, <2>1 DEF Book!IsRuleOf
  <2> QED
    BY <1>3, <2>2
<1>6. IsInjective(ofBook)
  <2> SUFFICES ASSUME NEW k \in DOMAIN ofBook, NEW l \in DOMAIN ofBook, ofBook[k] = ofBook[l]
               PROVE  k = l
    BY DEF IsInjective
  <2>1. Place(P, k) = Place(P, l)
    BY <1>1, <1>2, <1>3 DEF OneRuleEach
  <2> QED
    BY <1>3, <2>1
<1>7. {ofBook[i].sender : i \in DOMAIN ofBook} = watched
  BY <1>4, <1>5
<1>8. Book!Retain(beacon_rules, Book!OfBook) = ofBook
  BY BookRulesRetained DEF ofBook, P
<1> QED
  BY <1>6, <1>7, <1>8, BookLists DEF Book!WatchesFollowTheToggle

\* The book starts empty, also where another part moves.
LEMMA BookBegins == MCInit => BookInv
<1> SUFFICES ASSUME MCInit PROVE BookInv
  OBVIOUS
<1>1. /\ address_book = <<>> /\ beacon_rules = <<>>
      /\ log = [notified |-> <<>>, beacons |-> <<>>] /\ dialog = Book!Closed
      /\ heard = [c \in Call |-> 0] /\ watched = {} /\ moves = 0
  BY DEF MCInit, BookAtRest, Book!Init
<1>2. HearingsInv
  <2>1. address_book \in Seq(Entries) /\ heard \in [Call -> Nat]
    BY <1>1
  <2>2. \A c \in Call : heard[c] = 0 /\ Cardinality(HearingsIn(address_book, c)) \in Nat
    BY <1>1, <2>1, HearingsAreFinite
  <2> QED
    BY <2>1, <2>2 DEF HearingsInv, KeptIn
<1>3. DialogTyped /\ dialog.kind \notin {"log", "rules"}
  BY <1>1 DEF DialogTyped, Book!Closed
<1>4. LogInv
  <2>1. log \in [Logs -> Seq(Packets)] /\ \A which \in Logs : log[which] = <<>>
    <3>1. <<>> \in Seq(Packets)
      OBVIOUS
    <3>2. ASSUME NEW e, NEW l, l = [notified |-> e, beacons |-> e], e \in Seq(Packets)
          PROVE  l \in [Logs -> Seq(Packets)] /\ \A which \in Logs : l[which] = e
      BY <3>2 DEF Logs
    <3> QED
      BY <1>1, <3>1, <3>2
  <2>2. IdsDiffer(<<>>)
    BY DEF IdsDiffer
  <2> QED
    BY <1>3, <2>1, <2>2 DEF LogInv
<1>5. WatchInv
  BY <1>1 DEF WatchInv, OneRuleEach
<1> QED
  BY <1>1, <1>2, <1>3, <1>4, <1>5 DEF BookInv

\* No other part touches it.
LEMMA BookInvIsInductive == BookInv /\ [MCNext]_mcvars => BookInv'
<1> SUFFICES ASSUME BookInv, [MCNext]_mcvars PROVE BookInv'
  OBVIOUS
<1>1. ASSUME UNCHANGED stationvars, moves' \in Nat PROVE BookInv'
  BY <1>1, BookUntouched DEF BookInv, stationvars
<1>2. moves \in Nat
  BY DEF BookInv
<1>3. CASE part = "book" /\ Book!Next
  BY <1>3, BookStepKeeps
<1>4. CASE part = "timers" /\ Timers!Next /\ UNCHANGED stationvars
  <2>1. moves' = moves \/ moves' = moves + 1
    BY <1>4 DEF Timers!Next, Timers!GlobalSwitch, Timers!BeaconsButton, Timers!RowSwitch,
       Timers!RemoveBeacon, Timers!AddBeacon, Timers!SaveBeacon, Timers!EnableButton,
       Timers!SaveSettings, Timers!AddPort, Timers!SavePort, Timers!RemovePort,
       Timers!move_port, Timers!Move
  <2> QED
    BY <1>1, <1>2, <1>4, <2>1
<1>5. CASE UNCHANGED stationvars /\ UNCHANGED moves
  BY <1>1, <1>2, <1>5
<1> QED
  BY <1>3, <1>4, <1>5 DEF MCNext, mcvars

LEMMA BookInvariance == MCSpec => []BookInv
  BY BookBegins, BookInvIsInductive, PTL DEF MCSpec

\* For any number of stations, and however many dialogs are opened over older
\* clones of an entry: no hearing is lost while the entry is there
\* (address_book_dialog.rs:718).
THEOREM HearingsSurviveDialogs == MCSpec => []HeardIsKept
  BY BookInvariance, BookKeepsHearings, PTL

\* However long the logs get: the id in a row of the Notifications dialog is
\* that of the packet it shows (app_state.rs:296, 320).
THEOREM RowsStayTrue == MCSpec => []RowsDeleteWhatTheyShow
  BY BookInvariance, BookKeepsRows, PTL

\* The rules of the address book follow the toggles, whatever the rules dialog
\* removes and saves (incoming_beacons_dialog.rs:571).
THEOREM RulesFollowToggles == MCSpec => []WatchesFollowTheToggle
  BY BookInvariance, BookKeepsRules, PTL

-----------------------------------------------------------------------------
(* Beacons: what goes out is what the settings say.                        *)

\* What Beacons takes from the libraries is what is taken here.
LEMMA TimerLists ==
  /\ \A S : Timers!Min(S) = Min(S)
  /\ \A S : Timers!Max(S) = Max(S)
  /\ \A f : Timers!Range(f) = Range(f)
  /\ \A S : Timers!Cardinality(S) = Cardinality(S)
  /\ \A s, kept : Timers!Picked(s, kept) = Picked(s, kept)
<1>1. \A S : Timers!Min(S) = Min(S)
  BY DEF Timers!Min, Min
<1>2. \A S : Timers!Max(S) = Max(S)
  BY DEF Timers!Max, Max
<1>3. \A f : Timers!Range(f) = Range(f)
  BY DEF Timers!Range, Range
<1>4. \A S : Timers!Cardinality(S) = Cardinality(S)
  BY DEF Timers!Cardinality, Cardinality
<1>5. \A s, kept : Timers!Picked(s, kept) = Picked(s, kept)
  BY DEF Timers!Picked, Picked, Timers!Cardinality, Cardinality
<1> QED
  BY <1>1, <1>2, <1>3, <1>4, <1>5

PortRows == [id : Int, kind : {"radio", "terminal"}]
Aims == [port_id : Int, text : {"", "hi"}]
BeaconRows == [id : Int, pinned : BOOLEAN, enabled : BOOLEAN, aim : Aims]
Prefs == [enabled : BOOLEAN, text : {"", "hi"}, call : BOOLEAN, listen_ports : SUBSET Int]

\* A list of beacons, with an id for each.
BeaconList(list) ==
  /\ list \in Seq(BeaconRows)
  /\ \A i, j \in DOMAIN list : list[i].id = list[j].id => i = j

\* The positions of the switch that the timers may have been made for.
Positions == IF stale THEN BOOLEAN ELSE {enabled}

\* A timer for each beacon that is on, and no other.
TimersFit(timers, on, list) ==
  /\ DOMAIN timers = {list[i].id : i \in {j \in DOMAIN list : on /\ list[j].enabled}}
  /\ \A i \in DOMAIN list : on /\ list[i].enabled => timers[list[i].id] = list[i].aim

\* The timers of the beacons, up to what the header's button did, and those of
\* the availability beacons fit the settings.
TimersInv ==
  /\ moves \in Nat
  /\ ports \in Seq(PortRows) /\ enabled \in BOOLEAN /\ stale \in BOOLEAN
  /\ BeaconList(beacons)
  /\ lost = 0
  /\ \E on \in Positions : TimersFit(beacon_timers, on, beacons)
  /\ prefs \in [DOMAIN prefs -> Prefs]
  /\ avail_timers = [which \in DOMAIN prefs |-> Timers!Availability(prefs[which])]

\* An id is found for a new item: the list cannot have taken one more than it
\* has items.
LEMMA NextIdIsFree ==
  ASSUME NEW X, NEW rows_ \in Seq(X), \A i \in DOMAIN rows_ : rows_[i].id \in Int
  PROVE  /\ Timers!next_id(rows_) \in Nat
         /\ \A i \in DOMAIN rows_ : rows_[i].id # Timers!next_id(rows_)
<1> DEFINE n == Len(rows_)
           S == {k \in n..(2 * n) : Timers!Index(rows_, k) = {}}
<1>1. n \in Nat /\ DOMAIN rows_ = 1..n
  OBVIOUS
<1>2. S # {}
  <2> SUFFICES ASSUME S = {} PROVE FALSE
    OBVIOUS
  <2> DEFINE f == [k \in n..(2 * n) |-> CHOOSE i \in 1..n : rows_[i].id = k]
  <2>1. \A k \in n..(2 * n) : \E i \in 1..n : rows_[i].id = k
    BY <1>1 DEF Timers!Index
  <2>2. \A k \in n..(2 * n) : f[k] \in 1..n /\ rows_[f[k]].id = k
    BY <2>1
  <2>3. f \in Injection(n..(2 * n), 1..n)
    <3> HIDE DEF f
    <3>1. \A k, l \in n..(2 * n) : f[k] = f[l] => k = l
      BY <2>2
    <3>2. f \in [n..(2 * n) -> 1..n]
      BY <2>2 DEF f
    <3> QED
      BY <3>1, <3>2 DEF Injection, IsInjective
  <2>4. IsFiniteSet(1..n) /\ Cardinality(1..n) = n
    <3> HIDE DEF n
    <3>1. 1 \in Int /\ n \in Int
      BY <1>1
    <3>2. IsFiniteSet(1..n) /\ Cardinality(1..n) = IF 1 > n THEN 0 ELSE n - 1 + 1
      BY <3>1, FS_Interval
    <3> QED
      BY <1>1, <3>2
  <2>5. Cardinality(n..(2 * n)) = n + 1
    <3>1. 2 * n \in Int /\ n \in Int /\ n <= 2 * n
      BY <1>1
    <3>2. Cardinality(n..(2 * n)) = 2 * n - n + 1
      BY <3>1, FS_Interval
    <3> QED
      BY <1>1, <3>2
  <2>6. Cardinality(n..(2 * n)) <= Cardinality(1..n)
    <3> HIDE DEF f
    <3> QED
      BY <2>3, <2>4, FS_Injection
  <2> QED
    BY <1>1, <2>4, <2>5, <2>6
<1>3. S \subseteq Nat
  BY <1>1
<1>4. Min(S) \in S
  <2> HIDE DEF S
  <2> QED
    BY <1>2, <1>3, LeastIsThere
<1>5. Timers!next_id(rows_) = Min(S)
  BY TimerLists DEF Timers!next_id
<1> QED
  BY <1>3, <1>4, <1>5 DEF Timers!Index

\* The timers are rescheduled without one being lost.
LEMMA ScheduledFits ==
  ASSUME NEW on \in BOOLEAN, NEW list, BeaconList(list)
  PROVE  /\ Timers!Scheduled(on, list).lost = 0
         /\ TimersFit(Timers!Scheduled(on, list).timers, on, list)
<1> DEFINE due == {i \in DOMAIN list : on /\ list[i].enabled}
           ids == {list[i].id : i \in due}
           timers == [id \in ids |-> list[Max(Timers!Index(list, id) \cap due)].aim]
<1>1. /\ list \in Seq(BeaconRows) /\ \A i, j \in DOMAIN list : list[i].id = list[j].id => i = j
      /\ DOMAIN list = 1..Len(list) /\ Len(list) \in Nat
  BY DEF BeaconList
<1>2. Timers!Scheduled(on, list).timers = timers
  BY TimerLists DEF Timers!Scheduled
<1>3. Timers!Scheduled(on, list).lost = Cardinality(due) - Cardinality(ids)
  BY TimerLists DEF Timers!Scheduled
<1>4. IsFiniteSet(due)
  <2>1. IsFiniteSet(DOMAIN list)
    BY <1>1, FS_Interval
  <2> QED
    BY <2>1, FS_Subset
<1> DEFINE f == [i \in due |-> list[i].id]
<1>5. f \in Bijection(due, ids)
  <2>1. f \in [due -> ids] /\ \A i, j \in due : f[i] = f[j] => i = j
    BY <1>1
  <2>2. \A id \in ids : \E i \in due : f[i] = id
    OBVIOUS
  <2> HIDE DEF f, ids, due
  <2> QED
    BY <2>1, <2>2 DEF Bijection, Injection, Surjection, IsInjective
<1>6. Cardinality(due) = Cardinality(ids) /\ Cardinality(due) \in Nat
  <2> HIDE DEF f, ids, due
  <2> QED
    BY <1>4, <1>5, FS_Surjection, FS_CardinalityType DEF Bijection
<1>7. ASSUME NEW i \in due PROVE timers[list[i].id] = list[i].aim
  <2>1. Timers!Index(list, list[i].id) \cap due = {i}
    BY <1>1 DEF Timers!Index
  <2>2. Max({i}) = i
    <3>1. i \in Nat
      BY <1>1
    <3>2. IsFiniteSet({i})
      BY FS_Singleton, Zenon
    <3>3. {i} \subseteq Nat /\ {i} # {}
      BY <3>1
    <3>4. Max({i}) \in {i}
      BY <3>2, <3>3, GreatestIsThere
    <3> QED
      BY <3>4
  <2> QED
    BY <2>1, <2>2
<1>8. TimersFit(timers, on, list)
  BY <1>7 DEF TimersFit
<1> QED
  BY <1>2, <1>3, <1>6, <1>8

\* Whatever becomes of the list, the timers follow.
LEMMA ListedKeeps ==
  ASSUME TimersInv, NEW list, BeaconList(list), Timers!Listed(list), moves' \in Nat
  PROVE  TimersInv'
<1>1. enabled \in BOOLEAN /\ lost = 0
  BY DEF TimersInv
<1>2. /\ beacons' = list /\ stale' = FALSE /\ UNCHANGED <<ports, enabled, prefs, avail_timers>>
      /\ beacon_timers' = Timers!Scheduled(enabled, list).timers
      /\ lost' = lost + Timers!Scheduled(enabled, list).lost
  BY DEF Timers!Listed, Timers!Reschedule
<1>3. lost' = 0 /\ TimersFit(beacon_timers', enabled, list)
  BY <1>1, <1>2, ScheduledFits
<1>4. \E on \in Positions' : TimersFit(beacon_timers', on, beacons')
  BY <1>2, <1>3 DEF Positions
<1> QED
  BY <1>2, <1>3, <1>4 DEF TimersInv

\* A beacon is changed where it stands.
LEMMA BeaconChanged ==
  ASSUME NEW list, BeaconList(list), NEW i \in DOMAIN list, NEW b \in BeaconRows, b.id = list[i].id
  PROVE  BeaconList([list EXCEPT ![i] = b])
<1> DEFINE later == [list EXCEPT ![i] = b]
<1>1. list \in Seq(BeaconRows) /\ \A j, k \in DOMAIN list : list[j].id = list[k].id => j = k
  BY DEF BeaconList
<1>2. /\ later \in Seq(BeaconRows) /\ DOMAIN later = DOMAIN list
      /\ \A j \in DOMAIN list : later[j] = IF j = i THEN b ELSE list[j]
  BY <1>1
<1> HIDE DEF later
<1>3. \A j \in DOMAIN list : later[j].id = list[j].id
  BY <1>2
<1> QED
  BY <1>1, <1>2, <1>3 DEF BeaconList, later

\* The first with an id there is.
LEMMA IndexIsThere ==
  ASSUME NEW X, NEW list \in Seq(X), NEW b \in Range(list)
  PROVE  Min(Timers!Index(list, b.id)) \in DOMAIN list
         /\ list[Min(Timers!Index(list, b.id))].id = b.id
<1> DEFINE S == Timers!Index(list, b.id)
<1>1. S \subseteq Nat /\ S # {}
  BY DEF Timers!Index, Range
<1>2. Min(S) \in S
  <2> HIDE DEF S
  <2> QED
    BY <1>1, LeastIsThere
<1> QED
  BY <1>2 DEF Timers!Index

\* The Beacons dialog and the header's button.
LEMMA BeaconSteps ==
  ASSUME TimersInv,
         \/ Timers!GlobalSwitch \/ Timers!BeaconsButton
         \/ \E b \in Range(beacons) : Timers!RowSwitch(b.id) \/ Timers!RemoveBeacon(b.id)
         \/ \E p \in Range(ports), on \in BOOLEAN :
              \/ Timers!AddBeacon(p, "hi", on)
              \/ \E b \in Range(beacons) : Timers!SaveBeacon(b.id, p, "hi", on)
  PROVE  TimersInv'
<1>1. /\ moves \in Nat /\ ports \in Seq(PortRows) /\ enabled \in BOOLEAN /\ BeaconList(beacons)
      /\ lost = 0
  BY DEF TimersInv
<1>2. /\ beacons \in Seq(BeaconRows) /\ DOMAIN beacons = 1..Len(beacons) /\ Len(beacons) \in Nat
      /\ \A i, j \in DOMAIN beacons : beacons[i].id = beacons[j].id => i = j
      /\ \A i \in DOMAIN beacons : beacons[i] \in BeaconRows
  BY <1>1 DEF BeaconList
<1>3. CASE Timers!GlobalSwitch
  <2>1. /\ enabled' = ~enabled /\ stale' = FALSE
        /\ UNCHANGED <<ports, beacons, prefs, avail_timers, moves>>
        /\ beacon_timers' = Timers!Scheduled(enabled', beacons).timers
        /\ lost' = lost + Timers!Scheduled(enabled', beacons).lost
    BY <1>3 DEF Timers!GlobalSwitch, Timers!Reschedule
  <2>2. enabled' \in BOOLEAN
    BY <1>1, <2>1
  <2>3. lost' = 0 /\ TimersFit(beacon_timers', enabled', beacons')
    <3> DEFINE on == enabled'
    <3>1. on \in BOOLEAN
      BY <2>2
    <3>2. /\ Timers!Scheduled(on, beacons).lost = 0
          /\ TimersFit(Timers!Scheduled(on, beacons).timers, on, beacons)
      <4> HIDE DEF on
      <4> QED
        BY <1>1, <3>1, ScheduledFits
    <3>3. lost' = 0
      <4>1. Timers!Scheduled(enabled', beacons).lost = 0
        BY <3>2 DEF on
      <4> QED
        BY <1>1, <2>1, <4>1
    <3>4. TimersFit(beacon_timers', enabled', beacons')
      BY <2>1, <3>2, Zenon DEF on
    <3> QED
      BY <3>3, <3>4
  <2>4. BeaconList(beacons')
    BY <1>1, <2>1
  <2>5. \E on \in Positions' : TimersFit(beacon_timers', on, beacons')
    BY <2>1, <2>3 DEF Positions
  <2> QED
    BY <2>1, <2>2, <2>3, <2>4, <2>5 DEF TimersInv
<1>4. CASE Timers!BeaconsButton
  <2>1. /\ enabled' = ~enabled /\ stale' = TRUE
        /\ UNCHANGED <<ports, beacons, prefs, beacon_timers, lost, avail_timers, moves>>
    BY <1>4 DEF Timers!BeaconsButton
  <2>2. BeaconList(beacons')
    BY <1>1, <2>1
  <2>3. PICK on \in BOOLEAN : TimersFit(beacon_timers, on, beacons)
    BY DEF TimersInv, Positions
  <2>4. \E now \in Positions' : TimersFit(beacon_timers', now, beacons')
    BY <2>1, <2>3 DEF Positions
  <2> QED
    BY <2>1, <2>2, <2>4 DEF TimersInv
<1>5. ASSUME NEW b \in Range(beacons), Timers!RowSwitch(b.id) PROVE TimersInv'
  <2> DEFINE i == Min(Timers!Index(beacons, b.id))
             c == [beacons[i] EXCEPT !.enabled = ~beacons[i].enabled]
             later == [beacons EXCEPT ![i] = c]
  <2>1. i \in DOMAIN beacons
    BY <1>2, IndexIsThere
  <2> HIDE DEF i
  <2>2. c \in BeaconRows /\ c.id = beacons[i].id
    BY <1>2, <2>1 DEF BeaconRows
  <2>3. Timers!Listed(later) /\ UNCHANGED moves
    <3>1. later = [beacons EXCEPT ![i].enabled = ~@]
      BY <1>2, <2>1
    <3> QED
      BY <1>5, <3>1, TimerLists DEF Timers!RowSwitch, i
  <2> HIDE DEF c
  <2>4. BeaconList(later)
    BY <1>1, <2>1, <2>2, BeaconChanged
  <2> HIDE DEF later
  <2> QED
    BY <1>1, <2>3, <2>4, ListedKeeps
<1>6. ASSUME NEW b \in Range(beacons), Timers!RemoveBeacon(b.id) PROVE TimersInv'
  <2> DEFINE kept == {i \in DOMAIN beacons : beacons[i].id # b.id}
             later == Picked(beacons, kept)
  <2>1. Timers!Listed(later) /\ UNCHANGED moves
    BY <1>6, TimerLists DEF Timers!RemoveBeacon, Timers!Retain
  <2>2. kept \subseteq DOMAIN beacons
    OBVIOUS
  <2> HIDE DEF kept
  <2>3. /\ later \in Seq(BeaconRows)
        /\ \A k \in DOMAIN later : Place(kept, k) \in kept /\ later[k] = beacons[Place(kept, k)]
        /\ \A k, l \in DOMAIN later : Place(kept, k) = Place(kept, l) => k = l
    BY <1>2, <2>2, PickedIsThere
  <2> HIDE DEF later
  <2>4. BeaconList(later)
    BY <1>2, <2>2, <2>3 DEF BeaconList
  <2> QED
    BY <1>1, <2>1, <2>4, ListedKeeps
<1>7. ASSUME NEW p \in Range(ports), NEW on \in BOOLEAN
      PROVE  [port_id |-> p.id, text |-> "hi"] \in Aims
  <2>1. p \in PortRows
    BY <1>1 DEF Range
  <2> QED
    BY <2>1 DEF PortRows, Aims
<1>8. ASSUME NEW p \in Range(ports), NEW on \in BOOLEAN, Timers!AddBeacon(p, "hi", on)
      PROVE  TimersInv'
  <2> DEFINE aim == [port_id |-> p.id, text |-> "hi"]
             c == [id |-> Timers!next_id(beacons), pinned |-> FALSE, enabled |-> on, aim |-> aim]
             later == Append(beacons, c)
  <2>1. Timers!Listed(later) /\ moves' = moves + 1
    BY <1>8 DEF Timers!AddBeacon, Timers!Move
  <2>2. Timers!next_id(beacons) \in Nat /\ \A i \in DOMAIN beacons : beacons[i].id # Timers!next_id(beacons)
    <3>1. \A i \in DOMAIN beacons : beacons[i].id \in Int
      BY <1>2 DEF BeaconRows
    <3> QED
      BY <1>2, <3>1, NextIdIsFree
  <2>3. aim \in Aims
    BY <1>7
  <2> HIDE DEF aim
  <2>4. c \in BeaconRows /\ c.id = Timers!next_id(beacons)
    BY <2>2, <2>3 DEF BeaconRows
  <2> HIDE DEF c
  <2>5. /\ later \in Seq(BeaconRows) /\ DOMAIN later = 1..(Len(beacons) + 1)
        /\ later[Len(beacons) + 1] = c
        /\ \A i \in 1..Len(beacons) : later[i] = beacons[i]
    BY <1>2, <2>4
  <2> HIDE DEF later
  <2>6. BeaconList(later)
    BY <1>2, <2>2, <2>4, <2>5 DEF BeaconList
  <2> QED
    BY <1>1, <2>1, <2>6, ListedKeeps
<1>9. ASSUME NEW p \in Range(ports), NEW on \in BOOLEAN, NEW b \in Range(beacons),
             Timers!SaveBeacon(b.id, p, "hi", on)
      PROVE  TimersInv'
  <2> DEFINE i == Min(Timers!Index(beacons, b.id))
             aim == [port_id |-> p.id, text |-> "hi"]
             c == [beacons[i] EXCEPT !.aim = aim, !.enabled = on]
             later == [beacons EXCEPT ![i] = c]
  <2>1. i \in DOMAIN beacons
    BY <1>2, IndexIsThere
  <2>2. Timers!Listed(later) /\ moves' = moves + 1
    BY <1>9, TimerLists DEF Timers!SaveBeacon, Timers!Move
  <2>3. aim \in Aims
    BY <1>7
  <2> HIDE DEF i, aim
  <2>4. c \in BeaconRows /\ c.id = beacons[i].id
    BY <1>2, <2>1, <2>3 DEF BeaconRows
  <2> HIDE DEF c
  <2>5. BeaconList(later)
    BY <1>1, <2>1, <2>4, BeaconChanged
  <2> HIDE DEF later
  <2> QED
    BY <1>1, <2>2, <2>5, ListedKeeps
<1> QED
  BY <1>3, <1>4, <1>5, <1>6, <1>8, <1>9

\* The settings of the availability beacons.
SettingStep ==
  \E which \in DOMAIN prefs :
    \/ Timers!EnableButton(which)
    \/ \E profile, all \in BOOLEAN, text \in Timers!Text, on \in SUBSET {p.id : p \in Range(ports)} :
         Timers!SaveSettings(which, profile, text, all, on)

LEMMA SettingSteps ==
  ASSUME TimersInv, SettingStep
  PROVE  TimersInv'
<1>1. /\ moves \in Nat /\ ports \in Seq(PortRows) /\ enabled \in BOOLEAN /\ stale \in BOOLEAN
      /\ BeaconList(beacons) /\ lost = 0
      /\ \E on \in Positions : TimersFit(beacon_timers, on, beacons)
      /\ prefs \in [DOMAIN prefs -> Prefs]
      /\ avail_timers = [which \in DOMAIN prefs |-> Timers!Availability(prefs[which])]
  BY DEF TimersInv
<1>2. ASSUME NEW which \in DOMAIN prefs, NEW p \in Prefs, Timers!Set(which, p), moves' \in Nat
      PROVE  TimersInv'
  <2>1. /\ prefs' = [prefs EXCEPT ![which] = p]
        /\ avail_timers' = [avail_timers EXCEPT ![which] = Timers!Availability(prefs'[which])]
        /\ UNCHANGED <<ports, beacons, enabled, beacon_timers, lost, stale>>
    BY <1>2 DEF Timers!Set, Timers!RescheduleAvailability
  <2>2. prefs' \in [DOMAIN prefs' -> Prefs] /\ DOMAIN prefs' = DOMAIN prefs
    BY <1>1, <2>1
  <2>3. avail_timers' = [w \in DOMAIN prefs' |-> Timers!Availability(prefs'[w])]
    BY <1>1, <2>1, <2>2
  <2>4. BeaconList(beacons') /\ (\E on \in Positions' : TimersFit(beacon_timers', on, beacons'))
    BY <1>1, <2>1 DEF Positions
  <2> QED
    BY <1>1, <1>2, <2>1, <2>2, <2>3, <2>4 DEF TimersInv
<1>3. ASSUME NEW which \in DOMAIN prefs, Timers!EnableButton(which) PROVE TimersInv'
  <2> DEFINE p == [prefs[which] EXCEPT !.enabled = ~prefs[which].enabled]
  <2>1. Timers!Set(which, p) /\ UNCHANGED moves
    BY <1>3 DEF Timers!EnableButton
  <2>2. p \in Prefs
    BY <1>1 DEF Prefs
  <2> HIDE DEF p
  <2> QED
    BY <1>1, <1>2, <2>1, <2>2
<1>4. ASSUME NEW which \in DOMAIN prefs, NEW profile \in BOOLEAN, NEW text, text \in Timers!Text,
             NEW every, NEW on, Timers!SaveSettings(which, profile, text, every, on)
      PROVE  TimersInv'
  <2> DEFINE ids == Timers!collapse_listen_ports(every, on)
             p == [prefs[which] EXCEPT !.text = text, !.call = profile, !.listen_ports = ids]
  <2>1. Timers!Set(which, p) /\ moves' = moves + 1
    BY <1>4 DEF Timers!SaveSettings, Timers!Move
  <2>2. ids \subseteq Int
    <3>1. \A i \in DOMAIN ports : ports[i].id \in Int
      <4>1. \A i \in DOMAIN ports : ports[i] \in PortRows
        <5>1. ports \in Seq(PortRows)
          BY <1>1
        <5> QED
          BY <5>1
      <4> QED
        BY <4>1 DEF PortRows
    <3> QED
      BY <3>1 DEF Timers!collapse_listen_ports
  <2> HIDE DEF ids
  <2>3. p \in Prefs
    BY <1>1, <1>4, <2>2 DEF Prefs, Timers!Text
  <2> HIDE DEF p
  <2>4. moves' \in Nat
    BY <1>1, <2>1
  <2> QED
    BY <1>2, <2>1, <2>3, <2>4
<1> QED
  BY <1>3, <1>4 DEF SettingStep

\* The Ports dialog leaves the timers alone.
LEMMA PortSteps ==
  ASSUME TimersInv,
         \/ \E k \in {"radio", "terminal"} :
              Timers!AddPort(k) \/ \E p \in Range(ports) : Timers!SavePort(p.id, k)
         \/ \E p \in Range(ports) :
              Timers!RemovePort(p.id) \/ \E d \in {-1, 1} : Timers!move_port(p.id, d)
  PROVE  TimersInv'
<1>1. /\ moves \in Nat /\ ports \in Seq(PortRows) /\ BeaconList(beacons)
      /\ \E on \in Positions : TimersFit(beacon_timers, on, beacons)
  BY DEF TimersInv
<1>2. \A i \in DOMAIN ports : ports[i] \in PortRows
  BY <1>1
<1>3. ASSUME NEW list \in Seq(PortRows), Timers!Ports(list), moves' = moves + 1 PROVE TimersInv'
  <2>1. /\ ports' = list /\ moves' \in Nat
        /\ UNCHANGED <<beacons, enabled, prefs, beacon_timers, lost, avail_timers, stale>>
    BY <1>1, <1>3 DEF Timers!Ports
  <2>2. BeaconList(beacons') /\ (\E on \in Positions' : TimersFit(beacon_timers', on, beacons'))
    BY <1>1, <2>1 DEF Positions
  <2> QED
    BY <2>1, <2>2 DEF TimersInv
<1>4. ASSUME NEW k \in {"radio", "terminal"}, Timers!AddPort(k) PROVE TimersInv'
  <2> DEFINE p == [id |-> Timers!next_id(ports), kind |-> k]
  <2>1. Timers!Ports(Append(ports, p)) /\ moves' = moves + 1
    BY <1>4 DEF Timers!AddPort, Timers!Move
  <2>2. p \in PortRows
    <3>1. \A i \in DOMAIN ports : ports[i].id \in Int
      BY <1>2 DEF PortRows
    <3>2. Timers!next_id(ports) \in Nat
      BY <1>1, <3>1, NextIdIsFree
    <3> QED
      BY <3>2 DEF PortRows
  <2> HIDE DEF p
  <2>3. Append(ports, p) \in Seq(PortRows)
    BY <1>1, <2>2
  <2> QED
    BY <1>3, <2>1, <2>3
<1>5. ASSUME NEW k \in {"radio", "terminal"}, NEW q \in Range(ports), Timers!SavePort(q.id, k)
      PROVE  TimersInv'
  <2> DEFINE i == Min(Timers!Index(ports, q.id))
             p == [ports[i] EXCEPT !.kind = k]
  <2>1. i \in DOMAIN ports
    BY <1>1, IndexIsThere
  <2>2. Timers!Ports([ports EXCEPT ![i].kind = k]) /\ moves' = moves + 1
    BY <1>5, TimerLists DEF Timers!SavePort, Timers!Move
  <2> HIDE DEF i
  <2>3. p \in PortRows
    BY <1>2, <2>1 DEF PortRows
  <2>4. [ports EXCEPT ![i].kind = k] = [ports EXCEPT ![i] = p]
    BY <1>1, <2>1
  <2> HIDE DEF p
  <2>5. [ports EXCEPT ![i] = p] \in Seq(PortRows)
    BY <1>1, <2>1, <2>3
  <2> QED
    BY <1>3, <2>2, <2>4, <2>5
<1>6. ASSUME NEW q \in Range(ports), Timers!RemovePort(q.id) PROVE TimersInv'
  <2> DEFINE kept == {i \in DOMAIN ports : ports[i].id # q.id}
  <2>1. Timers!Ports(Picked(ports, kept)) /\ moves' = moves + 1
    BY <1>6, TimerLists DEF Timers!RemovePort, Timers!Retain, Timers!Move
  <2>2. kept \subseteq DOMAIN ports
    OBVIOUS
  <2> HIDE DEF kept
  <2>3. Picked(ports, kept) \in Seq(PortRows)
    BY <1>1, <2>2, PickedIsThere
  <2> QED
    BY <1>3, <2>1, <2>3
<1>7. ASSUME NEW q \in Range(ports), NEW d \in {-1, 1}, Timers!move_port(q.id, d) PROVE TimersInv'
  <2> DEFINE i == Min(Timers!Index(ports, q.id))
             list == [ports EXCEPT ![i] = ports[i + d], ![i + d] = ports[i]]
  <2>1. i \in DOMAIN ports
    BY <1>1, IndexIsThere
  <2>2. i + d \in DOMAIN ports /\ Timers!Ports(list) /\ moves' = moves + 1
    BY <1>7, TimerLists DEF Timers!move_port, Timers!Move
  <2> HIDE DEF i
  <2>3. list \in Seq(PortRows)
    BY <1>1, <1>2, <2>1, <2>2
  <2> HIDE DEF list
  <2> QED
    BY <1>3, <2>2, <2>3
<1> QED
  BY <1>4, <1>5, <1>6, <1>7

\* Whatever is set and edited, the timers fit.
LEMMA TimersStepKeeps == TimersInv /\ Timers!Next => TimersInv'
  BY TimerLists, BeaconSteps, SettingSteps, PortSteps DEF Timers!Next, SettingStep

\* The ticks of a timer that has a text to send, and of none.
LEMMA TicksOfOne ==
  ASSUME NEW p \in Prefs
  PROVE  Timers!Ticks(Timers!Availability(p)) =
           IF ~p.enabled \/ p.text = "" THEN {}
           ELSE {<<q.id, p.text>> : q \in {r \in Range(ports) :
                   Timers!Radio(r) /\ Timers!listens_on(p.listen_ports, r.id)}}
<1> DEFINE Sent(t) == {<<q.id, t.text>> : q \in {r \in Range(ports) :
                         Timers!Radio(r) /\ Timers!listens_on(t.listen_ports, r.id)}}
<1>1. \A a : Timers!Ticks(a) = UNION {Sent(t) : t \in Range(a)}
  BY TimerLists DEF Timers!Ticks
<1>2. CASE p.enabled /\ p.text # ""
  <2> DEFINE t == [text |-> p.text, listen_ports |-> p.listen_ports]
  <2>1. Timers!Availability(p) = <<t>>
    BY <1>2 DEF Timers!Availability
  <2>2. Range(<<t>>) = {t}
    <3> HIDE DEF t
    <3> QED
      BY DEF Range
  <2>3. Sent(t) = Sent(p)
    OBVIOUS
  <2> HIDE DEF t, Sent
  <2>4. Timers!Ticks(<<t>>) = Sent(t)
    BY <1>1, <2>2
  <2> QED
    BY <1>2, <2>1, <2>3, <2>4 DEF Sent
<1>3. CASE ~(p.enabled /\ p.text # "")
  <2>1. Timers!Availability(p) = <<>>
    BY <1>3 DEF Timers!Availability
  <2>2. Range(<<>>) = {}
    BY DEF Range
  <2> HIDE DEF Sent
  <2>3. Timers!Ticks(<<>>) = {}
    BY <1>1, <2>2
  <2> QED
    BY <1>3, <2>1, <2>3
<1> QED
  BY <1>2, <1>3

\* What the invariant says of what goes out.
LEMMA TimersThatFitFollow == TimersInv => TimersFollowSettings
<1> SUFFICES ASSUME TimersInv PROVE Timers!TimersFollowSettings
  BY DEF TimersFollowSettings
<1>1. lost = 0
  BY DEF TimersInv
<1>a. PICK on \in Positions : TimersFit(beacon_timers, on, beacons)
  BY DEF TimersInv
<1>2. /\ DOMAIN beacon_timers = {b.id : b \in {c \in Range(beacons) : on /\ c.enabled}}
      /\ \A b \in Range(beacons) : b.id \in DOMAIN beacon_timers => beacon_timers[b.id] = b.aim
  <2>1. /\ DOMAIN beacon_timers =
             {beacons[i].id : i \in {j \in DOMAIN beacons : on /\ beacons[j].enabled}}
        /\ \A i \in DOMAIN beacons :
             on /\ beacons[i].enabled => beacon_timers[beacons[i].id] = beacons[i].aim
    BY <1>a DEF TimersFit
  <2>2. \A i, j \in DOMAIN beacons : beacons[i].id = beacons[j].id => i = j
    BY DEF TimersInv, BeaconList
  <2>3. DOMAIN beacon_timers = {b.id : b \in {c \in Range(beacons) : on /\ c.enabled}}
    BY <2>1 DEF Range
  <2>4. ASSUME NEW b \in Range(beacons), b.id \in DOMAIN beacon_timers
        PROVE  beacon_timers[b.id] = b.aim
    <3>1. PICK i \in DOMAIN beacons : beacons[i] = b
      BY DEF Range
    <3>2. PICK j \in DOMAIN beacons : on /\ beacons[j].enabled /\ beacons[j].id = b.id
      BY <2>1, <2>4
    <3>3. i = j
      BY <2>2, <3>1, <3>2
    <3> QED
      BY <2>1, <3>1, <3>2, <3>3
  <2> QED
    BY <2>3, <2>4
<1>3. ASSUME NEW which \in DOMAIN prefs
      PROVE  Timers!Ticks(avail_timers[which]) =
               IF ~prefs[which].enabled \/ prefs[which].text = "" THEN {}
               ELSE {<<p.id, prefs[which].text>> :
                       p \in {q \in Range(ports) : Timers!Radio(q)
                                /\ Timers!listens_on(prefs[which].listen_ports, q.id)}}
  <2>1. prefs[which] \in Prefs /\ avail_timers[which] = Timers!Availability(prefs[which])
    BY DEF TimersInv
  <2> QED
    BY <2>1, TicksOfOne
<1> QED
  BY <1>1, <1>2, <1>3, TimerLists DEF Timers!TimersFollowSettings, Positions

\* The first start has its beacon off, and at rest there is nothing.
LEMMA TimersBegin == MCInit => TimersInv
<1> SUFFICES ASSUME MCInit PROVE TimersInv
  OBVIOUS
<1>3. <<>> \in Seq(PortRows)
  OBVIOUS
<1>0. /\ moves = 0
      /\ \/ Timers!Init
         \/ TimersAtRest
  BY DEF MCInit
<1>1. CASE Timers!Init
  <2> DEFINE b == [id |-> -1, pinned |-> TRUE, enabled |-> FALSE,
                   aim |-> [port_id |-> -1, text |-> ""]]
             W == {"keyboard_mode", "mailbox"}
  <2>1. /\ ports = <<>> /\ beacons = <<b>> /\ enabled = TRUE /\ beacon_timers = <<>>
        /\ lost = 0 /\ stale = FALSE /\ moves = 0
        /\ prefs = [which \in W |-> Timers!Off] /\ avail_timers = [which \in W |-> <<>>]
    BY <1>1 DEF Timers!Init, Timers!NoPort
  <2>2. b \in BeaconRows /\ ~b.enabled
    BY DEF BeaconRows, Aims
  <2> HIDE DEF b, W
  <2>3. beacons \in Seq(BeaconRows) /\ DOMAIN beacons = {1} /\ beacons[1] = b
    BY <2>1, <2>2
  <2>4. BeaconList(beacons)
    BY <2>3 DEF BeaconList
  <2>5. TimersFit(beacon_timers, enabled, beacons)
    <3>1. {j \in DOMAIN beacons : enabled /\ beacons[j].enabled} = {}
      BY <2>2, <2>3
    <3>2. DOMAIN beacon_timers = {}
      BY <2>1
    <3> QED
      BY <3>1, <3>2 DEF TimersFit
  <2>6. Timers!Off \in Prefs /\ Timers!Availability(Timers!Off) = <<>>
    BY DEF Timers!Off, Prefs, Timers!Availability
  <2>7. /\ prefs \in [DOMAIN prefs -> Prefs]
        /\ avail_timers = [which \in DOMAIN prefs |-> Timers!Availability(prefs[which])]
    BY <2>1, <2>6
  <2>8. moves \in Nat /\ ports \in Seq(PortRows) /\ enabled \in BOOLEAN /\ stale \in BOOLEAN
    BY <1>3, <2>1
  <2> QED
    BY <2>1, <2>4, <2>5, <2>7, <2>8 DEF TimersInv, Positions
<1>2. CASE TimersAtRest
  <2>1. /\ ports = <<>> /\ beacons = <<>> /\ enabled = FALSE /\ prefs = <<>>
        /\ beacon_timers = <<>> /\ lost = 0 /\ avail_timers = <<>> /\ stale = FALSE
    BY <1>2 DEF TimersAtRest
  <2>2. BeaconList(beacons)
    BY <2>1 DEF BeaconList
  <2>3. TimersFit(beacon_timers, enabled, beacons)
    BY <2>1 DEF TimersFit
  <2>4. DOMAIN prefs = {}
    BY <2>1
  <2>5. /\ prefs \in [DOMAIN prefs -> Prefs]
        /\ avail_timers = [which \in DOMAIN prefs |-> Timers!Availability(prefs[which])]
    BY <2>1, <2>4
  <2>6. moves \in Nat /\ ports \in Seq(PortRows) /\ enabled \in BOOLEAN /\ stale \in BOOLEAN
    BY <1>3, <1>0, <2>1
  <2> QED
    BY <2>1, <2>2, <2>3, <2>5, <2>6 DEF TimersInv, Positions
<1> QED
  BY <1>0, <1>1, <1>2

\* No other part touches it.
LEMMA TimersInvIsInductive == TimersInv /\ [MCNext]_mcvars => TimersInv'
<1> SUFFICES ASSUME TimersInv, [MCNext]_mcvars PROVE TimersInv'
  OBVIOUS
<1>1. ASSUME UNCHANGED beaconvars, moves' \in Nat PROVE TimersInv'
  <2>1. UNCHANGED <<ports, beacons, enabled, prefs, beacon_timers, lost, avail_timers, stale>>
    BY <1>1 DEF beaconvars
  <2>2. BeaconList(beacons') /\ (\E on \in Positions' : TimersFit(beacon_timers', on, beacons'))
    BY <2>1 DEF TimersInv, Positions
  <2> QED
    BY <1>1, <2>1, <2>2 DEF TimersInv
<1>2. moves \in Nat
  BY DEF TimersInv
<1>3. CASE part = "timers" /\ Timers!Next
  BY <1>3, TimersStepKeeps
<1>4. CASE part = "book" /\ Book!Next /\ UNCHANGED beaconvars
  <2>1. moves' = moves \/ moves' = moves + 1
    BY <1>4 DEF Book!Next, Book!BookNext, Book!LogNext, Book!StationHeard, Book!RemoveEntry,
       Book!Monitor, Book!NodesBroadcast, Book!SaveEntry, Book!StationConnects,
       Book!OpenDetail, Book!ToggleWatch, Book!OpenEdit, Book!CloseDialog, Book!OpenLog,
       Book!ToggleDirected, Book!OpenRules, Book!SaveRules, Book!AddRule, Book!ClearLog,
       Book!DeleteRow, Book!EditRule, Book!RemoveRule, Book!Move
  <2> QED
    BY <1>1, <1>2, <1>4, <2>1
<1>5. CASE UNCHANGED beaconvars /\ UNCHANGED moves
  BY <1>1, <1>2, <1>5
<1> QED
  BY <1>3, <1>4, <1>5 DEF MCNext, mcvars

\* For any number of ports and beacons, what goes out by itself is what the
\* settings say: no timer is lost and none is left behind (window.rs:291), and
\* after the header's button (window.rs:2448) with the next change in the dialog.
THEOREM BeaconsFollowSettings == MCSpec => []TimersFollowSettings
<1>1. MCSpec => []TimersInv
  BY TimersBegin, TimersInvIsInductive, PTL DEF MCSpec
<1> QED
  BY <1>1, TimersThatFitFollow, PTL

-----------------------------------------------------------------------------
(* Responders: contacts under way are open in the log.                     *)

\* What Responders takes from the libraries is what is taken here.
LEMMA AnsweringLists ==
  /\ \A S : Answering!Max(S) = Max(S)
  /\ \A S : Answering!Min(S) = Min(S)
  /\ \A f : Answering!Range(f) = Range(f)
  /\ \A S : Answering!Cardinality(S) = Cardinality(S)
  /\ \A s, kept : Answering!Picked(s, kept) = Picked(s, kept)
  /\ \A s, i : Answering!Without(s, i) = SubSeq(s, 1, i - 1) \o SubSeq(s, i + 1, Len(s))
<1>1. \A S : Answering!Max(S) = Max(S)
  BY DEF Answering!Max, Max
<1>2. \A S : Answering!Min(S) = Min(S)
  BY DEF Answering!Min, Min
<1>3. \A f : Answering!Range(f) = Range(f)
  BY DEF Answering!Range, Range
<1>4. \A S : Answering!Cardinality(S) = Cardinality(S)
  BY DEF Answering!Cardinality, Cardinality
<1>5. \A s, kept : Answering!Picked(s, kept) = Picked(s, kept)
  BY DEF Answering!Picked, Picked, Answering!Cardinality, Cardinality
<1>6. \A s, i : Answering!Without(s, i) = SubSeq(s, 1, i - 1) \o SubSeq(s, i + 1, Len(s))
  BY DEF Answering!Without
<1> QED
  BY <1>1, <1>2, <1>3, <1>4, <1>5, <1>6

Words == {"BYE", "CQ", "CR", "LF", "x"}
Sayings == {"logged", "73", "QTH?", "answer"}
MailboxStates == {"none", "Command", "AwaitingQth"}
TabRows ==
  [conn : {"none", "up"}, by : {"us", "them"}, mailbox_state : MailboxStates,
   k2k_active : BOOLEAN, mailbox_input : Seq(Words), closing : BOOLEAN,
   said : Seq(Sayings), cqs : Nat, heard : Seq(Words), greeted : {"none", "k2k", "mailbox"}]
Qsos == [ended : BOOLEAN, from_cq : BOOLEAN]

\* The line ends of a text, in order.
LEMMA LineEndsAreThere ==
  ASSUME NEW text \in Seq(Words)
  PROVE  /\ Answering!LineEnds(text) \subseteq 1..Len(text)
         /\ IsFiniteSet(Answering!LineEnds(text))
         /\ Cardinality(Answering!LineEnds(text)) \in Nat
         /\ Max(Answering!LineEnds(text) \cup {0}) \in Nat
         /\ Max(Answering!LineEnds(text) \cup {0}) <= Len(text)
         /\ Answering!Rest(text) \in Seq(Words)
<1> DEFINE S == Answering!LineEnds(text)
           m == Max(S \cup {0})
<1>1. S \subseteq 1..Len(text) /\ Len(text) \in Nat
  BY DEF Answering!LineEnds
<1> HIDE DEF S
<1>2. IsFiniteSet(S) /\ Cardinality(S) \in Nat
  BY <1>1, PlacesAreCounted
<1>3. IsFiniteSet(S \cup {0})
  BY <1>2, FS_AddElement
<1>4. S \cup {0} \subseteq Nat /\ S \cup {0} # {}
  BY <1>1
<1>5. m \in S \cup {0}
  BY <1>3, <1>4, GreatestIsThere
<1>6. m \in Nat /\ m <= Len(text)
  <2> HIDE DEF m
  <2>1. CASE m = 0
    BY <1>1, <2>1
  <2>2. CASE m \in 1..Len(text)
    BY <1>1, <2>2
  <2> QED
    BY <1>1, <1>5, <2>1, <2>2
<1>7. Answering!Rest(text) = SubSeq(text, 1 + m, Len(text))
  BY AnsweringLists DEF Answering!Rest, S
<1> HIDE DEF m
<1>8. SubSeq(text, 1 + m, Len(text)) \in Seq(Words)
  BY <1>1, <1>6
<1> QED
  BY <1>1, <1>2, <1>6, <1>7, <1>8 DEF S, m

\* A text has as many lines as line ends.
LEMMA LinesAreThere ==
  ASSUME NEW text \in Seq(Words)
  PROVE  /\ Len(Answering!Lines(text)) = Cardinality(Answering!LineEnds(text))
         /\ Len(Answering!Lines(text)) \in Nat
         /\ DOMAIN Answering!Lines(text) = 1..Cardinality(Answering!LineEnds(text))
<1> DEFINE S == Answering!LineEnds(text)
           all == [i \in DOMAIN text |-> i]
           ends == Picked(all, S)
<1>1. S \subseteq 1..Len(text) /\ Len(text) \in Nat /\ Cardinality(S) \in Nat
  <2>1. Len(text) \in Nat
    OBVIOUS
  <2>2. S \subseteq 1..Len(text) /\ Cardinality(S) \in Nat
    BY LineEndsAreThere
  <2> QED
    BY <2>1, <2>2
<1>2. all \in Seq(Nat) /\ DOMAIN all = 1..Len(text)
  BY <1>1
<1>3. ends \in Seq(Nat) /\ Len(ends) = Cardinality(S)
  <2> HIDE DEF all, S
  <2> QED
    BY <1>1, <1>2, PickedIsThere
<1>4. DOMAIN ends = 1..Cardinality(S)
  BY <1>3
<1>5. DOMAIN Answering!Lines(text) = DOMAIN ends
  BY AnsweringLists DEF Answering!Lines
<1>6. Answering!Lines(text) = [i \in 1..Cardinality(S) |-> Answering!Lines(text)[i]]
  <2> HIDE DEF ends, S
  <2> QED
    BY <1>4, <1>5, AnsweringLists DEF Answering!Lines, ends, all, S
<1>7. Len(Answering!Lines(text)) = Cardinality(S)
  <2> HIDE DEF S
  <2> QED
    BY <1>1, <1>6
<1> QED
  BY <1>1, <1>4, <1>5, <1>7

\* A line is answered on the tab it came on.
LEMMA LineKeepsTab ==
  ASSUME NEW tab \in TabRows, NEW line
  PROVE  Answering!Read(tab, line) \in TabRows /\ Answering!Read(tab, line).conn = tab.conn
<1>1. \A w \in Sayings : Append(tab.said, w) \in Seq(Sayings)
  BY DEF TabRows
<1>2. Answering!handle_line(tab, line) \in TabRows /\ Answering!handle_line(tab, line).conn = tab.conn
  <2>1. CASE tab.mailbox_state = "AwaitingQth"
    <3> DEFINE spoken == Append(tab.said, "logged")
               more == tab.cqs + 1
    <3>1. Answering!handle_line(tab, line) =
            [tab EXCEPT !.mailbox_state = "Command", !.said = spoken, !.cqs = more]
      BY <2>1 DEF Answering!handle_line
    <3>2. spoken \in Seq(Sayings)
      BY <1>1 DEF Sayings
    <3>3. more \in Nat
      BY DEF TabRows
    <3> HIDE DEF spoken, more
    <3>4. /\ [tab EXCEPT !.mailbox_state = "Command", !.said = spoken, !.cqs = more] \in TabRows
          /\ [tab EXCEPT !.mailbox_state = "Command", !.said = spoken, !.cqs = more].conn = tab.conn
      BY <3>2, <3>3 DEF TabRows, MailboxStates
    <3> QED
      BY <3>1, <3>4
  <2>2. CASE tab.mailbox_state # "AwaitingQth" /\ line = Answering!Bye
    <3> DEFINE spoken == Append(tab.said, "73")
    <3>1. Answering!handle_line(tab, line) =
            [tab EXCEPT !.mailbox_state = "none", !.said = spoken, !.closing = TRUE]
      BY <2>2 DEF Answering!handle_line, Answering!Bye
    <3>2. spoken \in Seq(Sayings)
      BY <1>1 DEF Sayings
    <3> HIDE DEF spoken
    <3>3. /\ [tab EXCEPT !.mailbox_state = "none", !.said = spoken, !.closing = TRUE] \in TabRows
          /\ [tab EXCEPT !.mailbox_state = "none", !.said = spoken, !.closing = TRUE].conn = tab.conn
      BY <3>2 DEF TabRows, MailboxStates
    <3> QED
      BY <3>1, <3>3
  <2>3. CASE tab.mailbox_state # "AwaitingQth" /\ line # Answering!Bye /\ line = <<"CQ">>
    <3> DEFINE spoken == Append(tab.said, "QTH?")
    <3>1. Answering!handle_line(tab, line) =
            [tab EXCEPT !.mailbox_state = "AwaitingQth", !.said = spoken]
      BY <2>3 DEF Answering!handle_line, Answering!Bye
    <3>2. spoken \in Seq(Sayings)
      BY <1>1 DEF Sayings
    <3> HIDE DEF spoken
    <3>3. /\ [tab EXCEPT !.mailbox_state = "AwaitingQth", !.said = spoken] \in TabRows
          /\ [tab EXCEPT !.mailbox_state = "AwaitingQth", !.said = spoken].conn = tab.conn
      BY <3>2 DEF TabRows, MailboxStates
    <3> QED
      BY <3>1, <3>3
  <2>4. CASE tab.mailbox_state # "AwaitingQth" /\ line # Answering!Bye /\ line # <<"CQ">>
    <3> DEFINE spoken == Append(tab.said, "answer")
    <3>1. Answering!handle_line(tab, line) = [tab EXCEPT !.said = spoken]
      BY <2>4 DEF Answering!handle_line, Answering!Bye
    <3>2. spoken \in Seq(Sayings)
      BY <1>1 DEF Sayings
    <3> HIDE DEF spoken
    <3>3. [tab EXCEPT !.said = spoken] \in TabRows /\ [tab EXCEPT !.said = spoken].conn = tab.conn
      BY <3>2 DEF TabRows, MailboxStates
    <3> QED
      BY <3>1, <3>3
  <2> QED
    BY <2>1, <2>2, <2>3, <2>4
<1> QED
  BY <1>2 DEF Answering!Read

\* And so are all that have arrived, one after the other.
LEMMA LinesKeepTab ==
  ASSUME NEW tab \in TabRows, NEW lines, Len(lines) \in Nat
  PROVE  Answering!Answered(tab, lines) \in TabRows /\ Answering!Answered(tab, lines).conn = tab.conn
<1> DEFINE Fits(n, f) == f = [i \in 0..n |-> IF i = 0 THEN tab
                                             ELSE Answering!Read(f[i - 1], lines[i])]
           None == {n \in Nat : ~\E f : Fits(n, f)}
           n == Len(lines)
           after == CHOOSE f : Fits(n, f)
<1>1. Answering!Answered(tab, lines) = after[n]
  BY DEF Answering!Answered
<1>2. None = {}
  <2> SUFFICES ASSUME None # {} PROVE FALSE
    OBVIOUS
  <2>1. None \subseteq Nat
    OBVIOUS
  <2> DEFINE m == Min(None)
  <2>2. m \in None /\ \A k \in None : m <= k
    <3> HIDE DEF None
    <3> QED
      BY <2>1, LeastIsThere
  <2> HIDE DEF m
  <2>3. m \in Nat /\ ~\E f : Fits(m, f)
    BY <2>2
  <2>4. CASE m = 0
    <3> DEFINE f == [i \in 0..0 |-> tab]
    <3>1. f = [i \in 0..0 |-> IF i = 0 THEN tab ELSE Answering!Read(f[i - 1], lines[i])]
      OBVIOUS
    <3> QED
      BY <2>3, <2>4, <3>1
  <2>5. CASE m # 0
    <3>1. m - 1 \in Nat /\ m - 1 \notin None
      BY <2>2, <2>3, <2>5
    <3>2. PICK f : Fits(m - 1, f)
      BY <3>1
    <3> DEFINE g == [i \in 0..m |-> IF i = m THEN Answering!Read(f[m - 1], lines[m]) ELSE f[i]]
    <3>3. \A i \in 0..(m - 1) : f[i] = IF i = 0 THEN tab ELSE Answering!Read(f[i - 1], lines[i])
      BY <3>2
    <3>4. \A i \in 0..m : g[i] = IF i = 0 THEN tab ELSE Answering!Read(g[i - 1], lines[i])
      <4> SUFFICES ASSUME NEW i \in 0..m
                   PROVE  g[i] = IF i = 0 THEN tab ELSE Answering!Read(g[i - 1], lines[i])
        OBVIOUS
      <4>1. CASE i = m
        <5>1. g[i] = Answering!Read(f[m - 1], lines[m]) /\ g[m - 1] = f[m - 1]
          BY <2>3, <2>5, <4>1
        <5> QED
          BY <2>5, <4>1, <5>1
      <4>2. CASE i # m
        <5>1. i \in 0..(m - 1) /\ g[i] = f[i]
          BY <2>3, <4>2
        <5>2. i # 0 => g[i - 1] = f[i - 1]
          BY <2>3, <4>2
        <5> HIDE DEF g
        <5> QED
          BY <3>3, <5>1, <5>2
      <4> QED
        BY <4>1, <4>2
    <3>5. g = [i \in 0..m |-> g[i]]
      OBVIOUS
    <3> HIDE DEF g
    <3>6. Fits(m, g)
      BY <3>4, <3>5
    <3> QED
      BY <2>3, <3>6
  <2> QED
    BY <2>4, <2>5
<1>3. n \in Nat /\ Fits(n, after)
  <2>1. \E f : Fits(n, f)
    BY <1>2
  <2> HIDE DEF Fits
  <2> QED
    BY <2>1
<1> HIDE DEF after
<1>4. \A i \in 0..n : after[i] = IF i = 0 THEN tab ELSE Answering!Read(after[i - 1], lines[i])
  BY <1>3
<1> DEFINE Wrong == {i \in 0..n : ~(after[i] \in TabRows /\ after[i].conn = tab.conn)}
<1>5. Wrong = {}
  <2> SUFFICES ASSUME Wrong # {} PROVE FALSE
    OBVIOUS
  <2>1. Wrong \subseteq Nat
    OBVIOUS
  <2> DEFINE m == Min(Wrong)
  <2>2. m \in Wrong /\ \A k \in Wrong : m <= k
    <3> HIDE DEF Wrong
    <3> QED
      BY <2>1, LeastIsThere
  <2> HIDE DEF m, n
  <2>3. m \in 0..n /\ m \in Nat /\ ~(after[m] \in TabRows /\ after[m].conn = tab.conn)
    BY <1>3, <2>2
  <2>4. m # 0
    BY <1>4, <2>3
  <2>5. m - 1 \in 0..n /\ m - 1 \notin Wrong
    BY <1>3, <2>2, <2>3, <2>4
  <2>6. after[m - 1] \in TabRows /\ after[m - 1].conn = tab.conn
    BY <2>5
  <2>7. after[m] = Answering!Read(after[m - 1], lines[m])
    BY <1>4, <2>3, <2>4
  <2> QED
    BY <2>3, <2>6, <2>7, LineKeepsTab
<1>6. n \in 0..n
  BY <1>3
<1> QED
  BY <1>1, <1>5, <1>6

\* Whoever drives a tab, it stays the tab of its connection.
LEMMA DrivenKeepsTab ==
  ASSUME NEW tab \in TabRows, NEW chunk \in Seq(Words)
  PROVE  Answering!Driven(tab, chunk) \in TabRows /\ Answering!Driven(tab, chunk).conn = tab.conn
<1> DEFINE text == tab.mailbox_input \o chunk
           left == Answering!Rest(text)
           fed == [tab EXCEPT !.mailbox_input = left]
           spoken == Append(tab.said, "73")
           signed == [tab EXCEPT !.mailbox_input = left, !.k2k_active = FALSE,
                                 !.said = spoken, !.closing = TRUE]
<1>1. text \in Seq(Words)
  <2>1. tab.mailbox_input \in Seq(Words)
    BY DEF TabRows
  <2> QED
    BY <2>1
<1>2. left \in Seq(Words)
  <2> HIDE DEF text
  <2> QED
    BY <1>1, LineEndsAreThere
<1>3. spoken \in Seq(Sayings)
  <2>1. tab.said \in Seq(Sayings) /\ "73" \in Sayings
    BY DEF TabRows, Sayings
  <2> QED
    BY <2>1
<1>4. /\ fed \in TabRows /\ fed.conn = tab.conn
      /\ signed \in TabRows /\ signed.conn = tab.conn
  <2> HIDE DEF left, spoken
  <2> QED
    BY <1>2, <1>3 DEF TabRows
<1>5. Len(Answering!Lines(text)) \in Nat
  <2> HIDE DEF text
  <2> QED
    BY <1>1, LinesAreThere
<1>6. /\ Answering!drive_mailbox(tab, text) \in TabRows
      /\ Answering!drive_mailbox(tab, text).conn = tab.conn
  <2>1. Answering!drive_mailbox(tab, text) = Answering!Answered(fed, Answering!Lines(text))
    BY DEF Answering!drive_mailbox
  <2> HIDE DEF fed, text
  <2> QED
    BY <1>4, <1>5, <2>1, LinesKeepTab
<1>7. Answering!drive_k2k(tab, text) = signed \/ Answering!drive_k2k(tab, text) = fed
  BY DEF Answering!drive_k2k
<1>8. \/ Answering!Driven(tab, chunk) = Answering!drive_mailbox(tab, text)
      \/ Answering!Driven(tab, chunk) = Answering!drive_k2k(tab, text)
      \/ Answering!Driven(tab, chunk) = tab
  BY DEF Answering!Driven
<1> HIDE DEF text, left, fed, spoken, signed
<1> QED
  BY <1>4, <1>6, <1>7, <1>8

\* The tabs that show a connection, and what is open in the log.
Up(all) == {t \in DOMAIN all : all[t].conn = "up"}
OpenIn(all) == {i \in DOMAIN all : ~all[i].ended /\ ~all[i].from_cq}

Covered(all, entries) == Cardinality(Up(all)) <= Cardinality(OpenIn(entries))

QsosInv ==
  /\ tabs \in Seq(TabRows) /\ qso_log \in Seq(Qsos)
  /\ Covered(tabs, qso_log)

\* Both are counted.
LEMMA BothAreCounted ==
  /\ \A all \in Seq(TabRows) :
       /\ Up(all) \subseteq 1..Len(all)
       /\ IsFiniteSet(Up(all)) /\ Cardinality(Up(all)) \in Nat
  /\ \A all \in Seq(Qsos) :
       /\ OpenIn(all) \subseteq 1..Len(all)
       /\ IsFiniteSet(OpenIn(all)) /\ Cardinality(OpenIn(all)) \in Nat
<1>1. ASSUME NEW all \in Seq(TabRows)
      PROVE  /\ Up(all) \subseteq 1..Len(all)
             /\ IsFiniteSet(Up(all)) /\ Cardinality(Up(all)) \in Nat
  <2>1. Up(all) \subseteq 1..Len(all) /\ Len(all) \in Nat
    BY DEF Up
  <2> QED
    BY <2>1, PlacesAreCounted
<1>2. ASSUME NEW all \in Seq(Qsos)
      PROVE  /\ OpenIn(all) \subseteq 1..Len(all)
             /\ IsFiniteSet(OpenIn(all)) /\ Cardinality(OpenIn(all)) \in Nat
  <2>1. OpenIn(all) \subseteq 1..Len(all) /\ Len(all) \in Nat
    BY DEF OpenIn
  <2> QED
    BY <2>1, PlacesAreCounted
<1> QED
  BY <1>1, <1>2

\* The property says it of the lists, the invariant of their places.
LEMMA CoveredIsOpen == QsosInv => LiveQsosAreOpen
<1> SUFFICES ASSUME QsosInv PROVE LiveQsosAreOpen
  OBVIOUS
<1>1. tabs \in Seq(TabRows) /\ qso_log \in Seq(Qsos) /\ Covered(tabs, qso_log)
  BY DEF QsosInv
<1>2. Up(tabs) \subseteq DOMAIN tabs /\ OpenIn(qso_log) \subseteq DOMAIN qso_log
  BY DEF Up, OpenIn
<1>3. Len(Picked(tabs, Up(tabs))) = Cardinality(Up(tabs))
  BY <1>1, <1>2, PickedIsThere
<1>4. Len(Picked(qso_log, OpenIn(qso_log))) = Cardinality(OpenIn(qso_log))
  BY <1>1, <1>2, PickedIsThere
<1>5. Len(Answering!Retain(tabs, LAMBDA tab : tab.conn = "up")) = Cardinality(Up(tabs))
  BY <1>3, AnsweringLists DEF Answering!Retain, Up
<1>6. Len(Answering!Retain(qso_log, LAMBDA e : ~e.ended /\ ~e.from_cq))
        = Cardinality(OpenIn(qso_log))
  BY <1>4, AnsweringLists DEF Answering!Retain, OpenIn
<1> QED
  BY <1>1, <1>5, <1>6 DEF Covered, LiveQsosAreOpen, Answering!LiveQsosAreOpen

\* An entry for a connection is open.
LEMMA StartedIsOpen ==
  ASSUME NEW all \in Seq(Qsos)
  PROVE  /\ Answering!log_qso_started(all) \in Seq(Qsos)
         /\ Cardinality(OpenIn(Answering!log_qso_started(all))) = Cardinality(OpenIn(all)) + 1
<1> DEFINE e == [ended |-> FALSE, from_cq |-> FALSE]
           more == Append(all, e)
           n == Len(all)
<1>1. e \in Qsos /\ ~e.ended /\ ~e.from_cq
  BY DEF Qsos
<1>2. Answering!log_qso_started(all) = more
  BY DEF Answering!log_qso_started
<1> HIDE DEF e
<1>3. /\ more \in Seq(Qsos) /\ n \in Nat /\ DOMAIN more = 1..(n + 1) /\ DOMAIN all = 1..n
      /\ more[n + 1] = e /\ \A i \in 1..n : more[i] = all[i]
  BY <1>1
<1> HIDE DEF more, n
<1>4. OpenIn(more) = OpenIn(all) \cup {n + 1} /\ n + 1 \notin OpenIn(all)
  BY <1>1, <1>3 DEF OpenIn
<1>5. Cardinality(OpenIn(more)) = Cardinality(OpenIn(all)) + 1
  BY <1>4, BothAreCounted, FS_AddElement
<1> QED
  BY <1>2, <1>3, <1>5

\* One that a tab shows takes its place among the tabs.
LEMMA OneMoreIsUp ==
  ASSUME NEW all \in Seq(TabRows), NEW tab \in TabRows
  PROVE  /\ Append(all, tab) \in Seq(TabRows)
         /\ Cardinality(Up(Append(all, tab))) <= Cardinality(Up(all)) + 1
         /\ \A t \in DOMAIN all : /\ [all EXCEPT ![t] = tab] \in Seq(TabRows)
                                  /\ Cardinality(Up([all EXCEPT ![t] = tab])) <= Cardinality(Up(all)) + 1
<1> DEFINE n == Len(all)
<1>1. ASSUME NEW t, NEW more \in Seq(TabRows), Up(more) \subseteq Up(all) \cup {t}
      PROVE  Cardinality(Up(more)) <= Cardinality(Up(all)) + 1
  <2>1. IsFiniteSet(Up(all)) /\ Cardinality(Up(all)) \in Nat /\ Cardinality(Up(more)) \in Nat
    BY <1>1, BothAreCounted
  <2>2. /\ IsFiniteSet(Up(all) \cup {t})
        /\ Cardinality(Up(all) \cup {t}) = IF t \in Up(all) THEN Cardinality(Up(all))
                                           ELSE Cardinality(Up(all)) + 1
    BY <2>1, FS_AddElement
  <2>3. Cardinality(Up(more)) <= Cardinality(Up(all) \cup {t})
    BY <1>1, <2>2, FS_Subset
  <2> QED
    BY <2>1, <2>2, <2>3
<1>2. Append(all, tab) \in Seq(TabRows) /\ Up(Append(all, tab)) \subseteq Up(all) \cup {n + 1}
  <2> DEFINE more == Append(all, tab)
  <2>1. /\ more \in Seq(TabRows) /\ n \in Nat /\ DOMAIN more = 1..(n + 1) /\ DOMAIN all = 1..n
        /\ \A i \in 1..n : more[i] = all[i]
    OBVIOUS
  <2> HIDE DEF more, n
  <2>2. Up(more) \subseteq Up(all) \cup {n + 1}
    BY <2>1 DEF Up
  <2> QED
    BY <2>1, <2>2 DEF more
<1>3. ASSUME NEW t \in DOMAIN all
      PROVE  /\ [all EXCEPT ![t] = tab] \in Seq(TabRows)
             /\ Up([all EXCEPT ![t] = tab]) \subseteq Up(all) \cup {t}
  <2>1. [all EXCEPT ![t] = tab] \in Seq(TabRows)
    BY <1>3
  <2>2. Up([all EXCEPT ![t] = tab]) \subseteq Up(all) \cup {t}
    BY DEF Up
  <2> QED
    BY <2>1, <2>2
<1>4. Cardinality(Up(Append(all, tab))) <= Cardinality(Up(all)) + 1
  BY <1>1, <1>2
<1>5. ASSUME NEW t \in DOMAIN all
      PROVE  Cardinality(Up([all EXCEPT ![t] = tab])) <= Cardinality(Up(all)) + 1
  BY <1>1, <1>3
<1> QED
  BY <1>2, <1>3, <1>4, <1>5

\* A station calls and is answered, or the user's call is.
LEMMA OpeningKeeps ==
  ASSUME QsosInv, (\E to \in {"ME-1", "ME-2"} : Answering!StationCalls(to)) \/ Answering!Dialed
  PROVE  QsosInv'
<1>1. tabs \in Seq(TabRows) /\ qso_log \in Seq(Qsos) /\ Covered(tabs, qso_log)
  BY DEF QsosInv
<1>2. qso_log' = Answering!log_qso_started(qso_log)
  BY DEF Answering!StationCalls, Answering!Dialed
<1>3. Answering!NewTab \in TabRows
  <2>1. <<>> \in Seq(Words) /\ <<>> \in Seq(Sayings)
    OBVIOUS
  <2> QED
    BY <2>1 DEF Answering!NewTab, TabRows, MailboxStates
<1>4. ASSUME NEW tab \in TabRows, NEW by, by \in {"us", "them"}
      PROVE  Answering!Opened(tab, by) \in TabRows
  BY <1>4 DEF Answering!Opened, TabRows
<1>5. \/ \E tab \in TabRows : tabs' = Append(tabs, tab)
      \/ \E t \in DOMAIN tabs : \E tab \in TabRows : tabs' = [tabs EXCEPT ![t] = tab]
  <2>1. ASSUME NEW to, Answering!StationCalls(to)
        PROVE  \E tab \in TabRows : tabs' = Append(tabs, tab)
    <3> DEFINE who == Answering!Responder(to)
               calm == Answering!Opened(Answering!NewTab, "them")
               st == IF who = "mailbox" THEN "Command" ELSE "none"
               k2k == (who = "k2k")
               tab == [calm EXCEPT !.k2k_active = k2k, !.greeted = who, !.mailbox_state = st]
    <3>1. tabs' = Append(tabs, tab)
      BY <2>1 DEF Answering!StationCalls
    <3>2. who \in {"none", "k2k", "mailbox"}
      BY DEF Answering!Responder
    <3>3. calm \in TabRows
      BY <1>3, <1>4
    <3>4. k2k \in BOOLEAN /\ st \in MailboxStates
      BY DEF MailboxStates
    <3> HIDE DEF who, calm, st, k2k
    <3>5. tab \in TabRows
      BY <3>2, <3>3, <3>4 DEF TabRows
    <3> QED
      BY <3>1, <3>5
  <2>2. CASE Answering!Dialed
    <3>1. CASE tabs' = Append(tabs, Answering!Opened(Answering!NewTab, "us"))
      BY <1>3, <1>4, <3>1
    <3>2. ASSUME NEW t \in DOMAIN tabs, tabs' = [tabs EXCEPT ![t] = Answering!Opened(@, "us")]
          PROVE  \E tab \in TabRows : tabs' = [tabs EXCEPT ![t] = tab]
      <4>1. tabs[t] \in TabRows
        BY <1>1
      <4>2. Answering!Opened(tabs[t], "us") \in TabRows
        BY <1>4, <4>1
      <4> QED
        BY <3>2, <4>2
    <3> QED
      BY <2>2, <3>1, <3>2 DEF Answering!Dialed
  <2> QED
    BY <2>1, <2>2
<1>6. tabs' \in Seq(TabRows) /\ Cardinality(Up(tabs')) <= Cardinality(Up(tabs)) + 1
  BY <1>1, <1>5, OneMoreIsUp
<1>7. /\ qso_log' \in Seq(Qsos)
      /\ Cardinality(OpenIn(qso_log')) = Cardinality(OpenIn(qso_log)) + 1
  BY <1>1, <1>2, StartedIsOpen
<1>8. /\ Cardinality(Up(tabs)) \in Nat /\ Cardinality(Up(tabs')) \in Nat
      /\ Cardinality(OpenIn(qso_log)) \in Nat
  BY <1>1, <1>6, BothAreCounted
<1> QED
  BY <1>1, <1>6, <1>7, <1>8 DEF QsosInv, Covered

\* What a station sends opens and ends nothing, its contacts by CQ apart.
LEMMA ReceivingKeeps ==
  ASSUME QsosInv, NEW t \in DOMAIN tabs, NEW chunk \in Answering!Chunks,
         Answering!Receives(t, chunk)
  PROVE  QsosInv'
<1> DEFINE tab == Answering!Driven(tabs[t], chunk)
           text == tab.heard \o chunk
           later == [tab EXCEPT !.heard = text, !.cqs = 0]
           n == tab.cqs
           byCq == [i \in 1..n |-> [ended |-> FALSE, from_cq |-> TRUE]]
<1>1. tabs \in Seq(TabRows) /\ qso_log \in Seq(Qsos) /\ Covered(tabs, qso_log)
  BY DEF QsosInv
<1>2. chunk \in Seq(Words)
  <2>1. Answering!Chunks \subseteq Seq(Words)
    BY DEF Answering!Chunks, Words
  <2> QED
    BY <2>1
<1>3. tabs[t] \in TabRows
  BY <1>1
<1>4. tab \in TabRows /\ tab.conn = tabs[t].conn
  BY <1>2, <1>3, DrivenKeepsTab
<1>5. tabs' = [tabs EXCEPT ![t] = later] /\ qso_log' = qso_log \o byCq
  BY DEF Answering!Receives, Answering!LogContacts
<1> HIDE DEF tab
<1>6. text \in Seq(Words) /\ n \in Nat
  <2>1. tab.heard \in Seq(Words) /\ n \in Nat
    BY <1>4 DEF TabRows
  <2> QED
    BY <1>2, <2>1
<1>7. later \in TabRows /\ later.conn = tabs[t].conn
  <2> HIDE DEF text
  <2> QED
    BY <1>4, <1>6 DEF TabRows
<1>8. tabs' \in Seq(TabRows) /\ Up(tabs') = Up(tabs)
  <2> HIDE DEF later
  <2>1. tabs' \in Seq(TabRows)
    BY <1>1, <1>5, <1>7
  <2>2. Up(tabs') = Up(tabs)
    BY <1>5, <1>7 DEF Up
  <2> QED
    BY <2>1, <2>2
<1> HIDE DEF n
<1>9. byCq \in Seq(Qsos) /\ Len(byCq) = n /\ \A i \in 1..n : byCq[i].from_cq
  <2>1. [ended |-> FALSE, from_cq |-> TRUE] \in Qsos
    BY DEF Qsos
  <2> QED
    BY <1>6, <2>1
<1> HIDE DEF byCq
<1>10. /\ qso_log' \in Seq(Qsos)
       /\ DOMAIN qso_log = 1..Len(qso_log) /\ Len(qso_log) \in Nat
       /\ DOMAIN qso_log' = 1..(Len(qso_log) + n)
       /\ \A i \in 1..Len(qso_log) : qso_log'[i] = qso_log[i]
       /\ \A i \in 1..(Len(qso_log) + n) :
            i > Len(qso_log) => qso_log'[i] = byCq[i - Len(qso_log)]
  BY <1>1, <1>5, <1>6, <1>9
<1>11. \A i \in 1..(Len(qso_log) + n) : i > Len(qso_log) => qso_log'[i].from_cq
  BY <1>6, <1>9, <1>10
<1>12. OpenIn(qso_log') = OpenIn(qso_log)
  BY <1>6, <1>10, <1>11 DEF OpenIn
<1> QED
  BY <1>1, <1>8, <1>10, <1>12 DEF QsosInv, Covered

\* A tab whose connection has gone shows none.
LEMMA UnboundIsTyped ==
  ASSUME NEW tab \in TabRows
  PROVE  Answering!Unbound(tab) \in TabRows /\ Answering!Unbound(tab).conn = "none"
<1>1. <<>> \in Seq(Words) /\ <<>> \in Seq(Sayings)
  OBVIOUS
<1> QED
  BY <1>1 DEF Answering!Unbound, Answering!NewTab, TabRows, MailboxStates

\* The end of a connection is logged for the latest open entry: if that is a
\* contact by CQ, more stay open than have to.
LEMMA EndingKeeps ==
  ASSUME QsosInv, NEW t \in DOMAIN tabs, Answering!Ends(t)
  PROVE  QsosInv'
<1> DEFINE calm == [tabs[t] EXCEPT !.mailbox_state = "none", !.k2k_active = FALSE]
           tab == Answering!Unbound(calm)
           open == {i \in DOMAIN qso_log : ~qso_log[i].ended}
           m == Max(open)
           n == Len(qso_log)
<1>1. tabs \in Seq(TabRows) /\ qso_log \in Seq(Qsos) /\ Covered(tabs, qso_log)
  BY DEF QsosInv
<1>2. calm \in TabRows
  <2>1. tabs[t] \in TabRows
    BY <1>1
  <2> QED
    BY <2>1 DEF TabRows, MailboxStates
<1>3. tabs[t].conn = "up" /\ tabs' = [tabs EXCEPT ![t] = tab]
  BY DEF Answering!Ends
<1> HIDE DEF calm
<1>4. tab \in TabRows /\ tab.conn = "none"
  BY <1>2, UnboundIsTyped
<1> HIDE DEF tab
<1>5. tabs' \in Seq(TabRows) /\ Up(tabs') = Up(tabs) \ {t} /\ t \in Up(tabs)
  <2>1. tabs' \in Seq(TabRows)
    BY <1>1, <1>3, <1>4
  <2>2. Up(tabs') = Up(tabs) \ {t} /\ t \in Up(tabs)
    BY <1>3, <1>4 DEF Up
  <2> QED
    BY <2>1, <2>2
<1>6. Cardinality(Up(tabs')) = Cardinality(Up(tabs)) - 1
  BY <1>1, <1>5, BothAreCounted, FS_RemoveElement
<1>7. open \subseteq 1..n /\ n \in Nat /\ DOMAIN qso_log = 1..n
  BY <1>1
<1>8. qso_log' = IF open = {} THEN qso_log ELSE [qso_log EXCEPT ![m].ended = TRUE]
  BY AnsweringLists DEF Answering!Ends, Answering!log_qso_ended
<1>9. open # {} => m \in 1..n
  <2> HIDE DEF open, n
  <2>1. IsFiniteSet(open)
    BY <1>7, PlacesAreCounted
  <2>2. open \subseteq Nat
    BY <1>7
  <2> QED
    BY <1>7, <2>1, <2>2, GreatestIsThere
<1> HIDE DEF m
<1>10. /\ qso_log' \in Seq(Qsos)
       /\ \E k : OpenIn(qso_log) \ {k} \subseteq OpenIn(qso_log')
  <2>1. CASE open = {}
    BY <1>1, <1>8, <2>1
  <2>2. CASE open # {}
    <3> DEFINE e == [qso_log[m] EXCEPT !.ended = TRUE]
    <3>1. qso_log[m] \in Qsos
      BY <1>1, <1>7, <1>9, <2>2
    <3>2. e \in Qsos
      BY <3>1 DEF Qsos
    <3>3. qso_log' = [qso_log EXCEPT ![m] = e] /\ m \in DOMAIN qso_log
      BY <1>7, <1>8, <1>9, <2>2
    <3> HIDE DEF e, n, open
    <3>4. qso_log' \in Seq(Qsos)
      BY <1>1, <3>2, <3>3
    <3>5. OpenIn(qso_log) \ {m} \subseteq OpenIn(qso_log')
      BY <3>3 DEF OpenIn
    <3> QED
      BY <3>4, <3>5
  <2> QED
    BY <2>1, <2>2
<1>11. Cardinality(OpenIn(qso_log')) >= Cardinality(OpenIn(qso_log)) - 1
  <2>1. PICK k : OpenIn(qso_log) \ {k} \subseteq OpenIn(qso_log')
    BY <1>10
  <2>2. /\ IsFiniteSet(OpenIn(qso_log)) /\ Cardinality(OpenIn(qso_log)) \in Nat
        /\ IsFiniteSet(OpenIn(qso_log')) /\ Cardinality(OpenIn(qso_log')) \in Nat
    BY <1>1, <1>10, BothAreCounted
  <2>3. Cardinality(OpenIn(qso_log) \ {k}) = IF k \in OpenIn(qso_log)
                                             THEN Cardinality(OpenIn(qso_log)) - 1
                                             ELSE Cardinality(OpenIn(qso_log))
    BY <2>2, FS_RemoveElement
  <2>4. Cardinality(OpenIn(qso_log) \ {k}) <= Cardinality(OpenIn(qso_log'))
    BY <2>1, <2>2, FS_Subset
  <2> QED
    BY <2>2, <2>3, <2>4
<1>12. /\ Cardinality(Up(tabs)) \in Nat
       /\ Cardinality(OpenIn(qso_log)) \in Nat /\ Cardinality(OpenIn(qso_log')) \in Nat
  BY <1>1, <1>10, BothAreCounted
<1> QED
  BY <1>1, <1>5, <1>6, <1>10, <1>11, <1>12 DEF QsosInv, Covered

\* A port that goes takes all connections with it, and the log is not told.
LEMMA PortGoingKeeps ==
  ASSUME QsosInv, Answering!PortGoes
  PROVE  QsosInv'
<1>1. tabs \in Seq(TabRows) /\ qso_log \in Seq(Qsos) /\ qso_log' = qso_log
  BY DEF QsosInv, Answering!PortGoes
<1>2. tabs' = [t \in DOMAIN tabs |-> IF tabs[t].conn = "up" THEN Answering!Unbound(tabs[t])
                                     ELSE tabs[t]]
  BY DEF Answering!PortGoes
<1>3. \A t \in DOMAIN tabs : tabs'[t] \in TabRows /\ tabs'[t].conn # "up"
  <2> SUFFICES ASSUME NEW t \in DOMAIN tabs PROVE tabs'[t] \in TabRows /\ tabs'[t].conn # "up"
    OBVIOUS
  <2>1. tabs[t] \in TabRows
    BY <1>1
  <2>2. Answering!Unbound(tabs[t]) \in TabRows /\ Answering!Unbound(tabs[t]).conn = "none"
    BY <2>1, UnboundIsTyped
  <2> QED
    BY <1>2, <2>1, <2>2
<1>4. DOMAIN tabs' = 1..Len(tabs) /\ Len(tabs) \in Nat
  BY <1>1, <1>2
<1>5. tabs' \in Seq(TabRows) /\ Up(tabs') = {}
  <2>1. tabs' = [t \in 1..Len(tabs) |-> tabs'[t]]
    BY <1>2, <1>4
  <2>2. \A t \in 1..Len(tabs) : tabs'[t] \in TabRows
    BY <1>1, <1>3
  <2>3. tabs' \in Seq(TabRows)
    BY <1>4, <2>1, <2>2
  <2>4. Up(tabs') = {}
    BY <1>1, <1>3, <1>4 DEF Up
  <2> QED
    BY <2>3, <2>4
<1>6. Cardinality(Up(tabs')) = 0
  BY <1>5, FS_EmptySet
<1>7. Cardinality(OpenIn(qso_log)) \in Nat
  BY <1>1, BothAreCounted
<1> QED
  BY <1>1, <1>5, <1>6, <1>7 DEF QsosInv, Covered

\* A tab that is closed leaves an entry that nobody ends.
LEMMA ClosingKeeps ==
  ASSUME QsosInv, NEW t \in DOMAIN tabs, Answering!CloseTab(t)
  PROVE  QsosInv'
<1> DEFINE n == Len(tabs)
           Was(i) == IF i < t THEN i ELSE i + 1
           f == [i \in Up(tabs') |-> Was(i)]
<1>1. tabs \in Seq(TabRows) /\ qso_log \in Seq(Qsos) /\ qso_log' = qso_log /\ Covered(tabs, qso_log)
  BY DEF QsosInv, Answering!CloseTab
<1>2. tabs' = SubSeq(tabs, 1, t - 1) \o SubSeq(tabs, t + 1, n)
  BY AnsweringLists DEF Answering!CloseTab
<1>3. t \in 1..n /\ n \in Nat /\ DOMAIN tabs = 1..n
  BY <1>1
<1>4. tabs' \in Seq(TabRows) /\ Len(tabs') = n - 1 /\ \A i \in 1..(n - 1) : tabs'[i] = tabs[Was(i)]
  <2> DEFINE before == SubSeq(tabs, 1, t - 1)
             after == SubSeq(tabs, t + 1, n)
  <2>1. before \in Seq(TabRows) /\ Len(before) = t - 1 /\ \A i \in 1..(t - 1) : before[i] = tabs[i]
    BY <1>1, <1>3
  <2>2. after \in Seq(TabRows) /\ Len(after) = n - t /\ \A i \in 1..(n - t) : after[i] = tabs[t + i]
    BY <1>1, <1>3
  <2> HIDE DEF before, after, n
  <2>3. tabs' = before \o after
    BY <1>2 DEF before, after, n
  <2>a. t - 1 \in Nat /\ n - t \in Nat /\ (t - 1) + (n - t) = n - 1 /\ n - 1 \in Nat
    BY <1>3
  <2>b. Len(before \o after) = Len(before) + Len(after)
    BY <2>1, <2>2
  <2>4. tabs' \in Seq(TabRows) /\ Len(tabs') = n - 1
    <3>1. tabs' \in Seq(TabRows)
      BY <2>1, <2>2, <2>3
    <3>2. Len(tabs') = n - 1
      BY <2>1, <2>2, <2>3, <2>a, <2>b
    <3> QED
      BY <3>1, <3>2
  <2>5. \A i \in 1..(n - 1) : tabs'[i] = IF i <= t - 1 THEN before[i] ELSE after[i - (t - 1)]
    BY <1>3, <2>1, <2>2, <2>3
  <2>6. \A i \in 1..(n - 1) : tabs'[i] = tabs[Was(i)]
    <3> SUFFICES ASSUME NEW i \in 1..(n - 1) PROVE tabs'[i] = tabs[Was(i)]
      OBVIOUS
    <3>1. CASE i < t
      <4>1. i \in 1..(t - 1) /\ i <= t - 1
        BY <1>3, <3>1
      <4>2. tabs'[i] = before[i]
        BY <2>5, <4>1
      <4> QED
        BY <2>1, <3>1, <4>1, <4>2
    <3>2. CASE ~(i < t)
      <4>1. i - (t - 1) \in 1..(n - t) /\ ~(i <= t - 1) /\ t + (i - (t - 1)) = i + 1
        BY <1>3, <3>2
      <4>2. tabs'[i] = after[i - (t - 1)]
        BY <2>5, <4>1
      <4> QED
        BY <2>2, <3>2, <4>1, <4>2
    <3> QED
      BY <3>1, <3>2
  <2> QED
    BY <2>4, <2>6
<1>5. Up(tabs') \subseteq 1..(n - 1) /\ Up(tabs) \subseteq 1..n
  <2>1. DOMAIN tabs' = 1..(n - 1)
    BY <1>3, <1>4
  <2> QED
    BY <1>3, <2>1 DEF Up
<1> HIDE DEF n
<1>6. \A i \in Up(tabs') : Was(i) \in Up(tabs)
  BY <1>3, <1>4, <1>5 DEF Up
<1>7. \A i, j \in Up(tabs') : Was(i) = Was(j) => i = j
  BY <1>3, <1>5
<1>8. f \in Injection(Up(tabs'), Up(tabs))
  <2>1. f \in [Up(tabs') -> Up(tabs)]
    BY <1>6
  <2>2. \A i, j \in Up(tabs') : f[i] = f[j] => i = j
    BY <1>7
  <2> QED
    BY <2>1, <2>2 DEF Injection, IsInjective
<1>9. /\ IsFiniteSet(Up(tabs)) /\ Cardinality(Up(tabs)) \in Nat /\ Cardinality(Up(tabs')) \in Nat
      /\ Cardinality(OpenIn(qso_log)) \in Nat
  BY <1>1, <1>4, BothAreCounted
<1>10. Cardinality(Up(tabs')) <= Cardinality(Up(tabs))
  <2> HIDE DEF f
  <2> QED
    BY <1>8, <1>9, FS_Injection
<1> QED
  BY <1>1, <1>4, <1>9, <1>10 DEF QsosInv, Covered

\* Clearing the contacts by CQ clears no connection's entry.
LEMMA ClearingKeeps ==
  ASSUME QsosInv, Answering!ClearContacts
  PROVE  QsosInv'
<1> DEFINE kept == {i \in DOMAIN qso_log : ~qso_log[i].from_cq}
           f == [i \in OpenIn(qso_log) |-> Rank(kept, i)]
<1>1. tabs \in Seq(TabRows) /\ qso_log \in Seq(Qsos) /\ tabs' = tabs /\ Covered(tabs, qso_log)
  BY DEF QsosInv, Answering!ClearContacts
<1>2. qso_log' = Picked(qso_log, kept)
  BY AnsweringLists DEF Answering!ClearContacts, Answering!Retain
<1>3. kept \subseteq DOMAIN qso_log /\ OpenIn(qso_log) \subseteq kept
  BY DEF OpenIn
<1> HIDE DEF kept
<1>4. /\ qso_log' \in Seq(Qsos)
      /\ \A i \in kept : Rank(kept, i) \in DOMAIN qso_log' /\ qso_log'[Rank(kept, i)] = qso_log[i]
  BY <1>1, <1>2, <1>3, PickedIsThere
<1>5. \A i \in kept : Place(kept, Rank(kept, i)) = i
  <2>1. kept \subseteq 1..Len(qso_log) /\ Len(qso_log) \in Nat
    BY <1>1, <1>3
  <2> QED
    BY <2>1, PlacesAreCounted
<1>6. \A i \in OpenIn(qso_log) : Rank(kept, i) \in OpenIn(qso_log')
  BY <1>3, <1>4 DEF OpenIn
<1>7. f \in Injection(OpenIn(qso_log), OpenIn(qso_log'))
  <2>1. f \in [OpenIn(qso_log) -> OpenIn(qso_log')]
    BY <1>6
  <2>2. ASSUME NEW i \in OpenIn(qso_log), NEW j \in OpenIn(qso_log), f[i] = f[j]
        PROVE  i = j
    <3>1. Rank(kept, i) = Rank(kept, j)
      BY <2>2
    <3> QED
      BY <1>3, <1>5, <3>1
  <2> QED
    BY <2>1, <2>2 DEF Injection, IsInjective
<1>8. /\ IsFiniteSet(OpenIn(qso_log')) /\ Cardinality(OpenIn(qso_log')) \in Nat
      /\ Cardinality(OpenIn(qso_log)) \in Nat /\ Cardinality(Up(tabs)) \in Nat
  BY <1>1, <1>4, BothAreCounted
<1>9. Cardinality(OpenIn(qso_log)) <= Cardinality(OpenIn(qso_log'))
  <2> HIDE DEF f
  <2> QED
    BY <1>7, <1>8, FS_Injection
<1> QED
  BY <1>1, <1>4, <1>8, <1>9 DEF QsosInv, Covered

\* At the start there are no tabs and no entries, in this part and at rest.
LEMMA QsosBegin == MCInit => QsosInv
<1> SUFFICES ASSUME MCInit PROVE QsosInv
  OBVIOUS
<1>1. tabs = <<>> /\ qso_log = <<>>
  BY DEF MCInit, Answering!Init, AnsweringAtRest
<1>2. <<>> \in Seq(TabRows) /\ <<>> \in Seq(Qsos)
  OBVIOUS
<1>3. tabs \in Seq(TabRows) /\ qso_log \in Seq(Qsos)
  BY <1>1, <1>2
<1>4. Up(tabs) = {}
  BY <1>1 DEF Up
<1>5. Cardinality(Up(tabs)) = 0 /\ Cardinality(OpenIn(qso_log)) \in Nat
  BY <1>3, <1>4, FS_EmptySet, BothAreCounted
<1> QED
  BY <1>3, <1>5 DEF QsosInv, Covered

\* Every event keeps it, and no other part touches it.
LEMMA QsosInvIsInductive == QsosInv /\ [MCNext]_mcvars => QsosInv'
<1> SUFFICES ASSUME QsosInv, [MCNext]_mcvars PROVE QsosInv'
  OBVIOUS
<1>1. CASE Answering!Next
  <2>1. CASE (\E to \in {"ME-1", "ME-2"} : Answering!StationCalls(to)) \/ Answering!Dialed
    BY <2>1, OpeningKeeps
  <2>2. CASE Answering!PortGoes
    BY <2>2, PortGoingKeeps
  <2>3. CASE Answering!ClearContacts
    BY <2>3, ClearingKeeps
  <2>4. ASSUME NEW t \in DOMAIN tabs, Answering!Ends(t) PROVE QsosInv'
    BY <2>4, EndingKeeps
  <2>5. ASSUME NEW t \in DOMAIN tabs, Answering!CloseTab(t) PROVE QsosInv'
    BY <2>5, ClosingKeeps
  <2>6. ASSUME NEW t \in DOMAIN tabs, NEW chunk \in Answering!Chunks, Answering!Receives(t, chunk)
        PROVE  QsosInv'
    BY <2>6, ReceivingKeeps
  <2> QED
    BY <1>1, <2>1, <2>2, <2>3, <2>4, <2>5, <2>6 DEF Answering!Next
<1>2. CASE UNCHANGED tabvars
  <2>1. UNCHANGED <<tabs, qso_log>>
    BY <1>2 DEF tabvars
  <2> QED
    BY <2>1 DEF QsosInv
<1> QED
  BY <1>1, <1>2 DEF MCNext, mcvars

\* Whatever is received, logged, closed and cleared, and in any number, a
\* contact that is under way is open in the log, although the end of one is
\* logged for the latest entry that is open (app_state.rs:213).
THEOREM ContactsStayOpen == MCSpec => []LiveQsosAreOpen
<1>1. MCSpec => []QsosInv
  BY QsosBegin, QsosInvIsInductive, PTL DEF MCSpec
<1> QED
  BY <1>1, CoveredIsOpen, PTL

-----------------------------------------------------------------------------
(* ConfigFiles: what was saved is loaded again.                            *)

\* What a file may hold, and what a list read from one.
FileContents ==
  Nat \cup {Files!Absent, Files!Blank, Files!Garbage, Files!Legacy, Files!NoEntries}
PartContents(p) == Nat \cup (IF p = "rules" THEN {Files!NoEntries} ELSE {})

\* load_part, of a content.
Reads(p, c) ==
  IF c = Files!Absent THEN 0
  ELSE IF c = Files!Blank \/ c = Files!NoEntries THEN IF p = "rules" THEN Files!NoEntries ELSE 0
  ELSE IF c = Files!Legacy THEN 1
  ELSE c

FilesTyped ==
  /\ disk \in [Files!Names -> FileContents]
  /\ \A p \in Files!Names : disk[p] = Files!Legacy => p = "config"
  /\ mem \in [Files!Names -> FileContents]
  /\ \A p \in Files!Names : mem[p] \in PartContents(p)
  /\ source \in [Files!Names -> Nat \cup {Files!NoEntries}]
  /\ phase \in {"off", "migrating", "idle", "saving"}
  /\ edits \in Nat
  /\ safe \in [Files!Names -> SUBSET FileContents]
  /\ IF phase = "saving" \/ phase = "migrating" THEN todo \in Seq(Files!Names) /\ todo # <<>>
     ELSE todo = <<>>

\* While ports.toml is missing, nothing but config.toml was ever written; if
\* that is the one from before the split, nothing was loaded either, and if it
\* is another that can be read, the first save stopped there.
PortsFirst ==
  disk["ports"] = Files!Absent =>
    /\ \A p \in Files!Names \ {"config"} : disk[p] = Files!Absent
    /\ phase = "saving" => todo = Files!Files
    /\ phase # "migrating"
    /\ phase = "idle" => disk["config"] \in {Files!Absent, Files!Garbage}
    /\ phase = "off" =>
         disk["config"] \in {Files!Absent, Files!Garbage, Files!Legacy} \/ hurt = "config"
    /\ disk["config"] = Files!Legacy =>
         /\ phase = "off"
         /\ \A p \in Files!Names :
              IF p \in Files!Range(Files!MigrationOrder) THEN 1 \in safe[p] ELSE 0 \in safe[p]

\* The highlight rules, taken from a config.toml that never had them.
Emptied(p, c) == p = "rules" /\ hurt = "config" /\ c = Files!NoEntries

\* A file holds something that is safe to load, if it is not the one being
\* written; what is still to be written is safe.
OldOrNew ==
  /\ /\ phase = "off" /\ hurt # "all"
     /\ ~(disk["config"] = Files!Legacy /\ disk["ports"] = Files!Absent)
     => \A p \in Files!Names : p # hurt => Reads(p, disk[p]) \in safe[p]
  /\ phase = "idle" => \A p \in Files!Names : Reads(p, disk[p]) \in safe[p] /\ mem[p] \in safe[p]
  /\ phase = "saving" =>
       /\ source = mem
       /\ \A p \in Files!Names : /\ mem[p] \in safe[p]
                                 /\ p # Head(todo) => Reads(p, disk[p]) \in safe[p]
                                 /\ p \notin Files!Range(todo) => disk[p] = mem[p]
  /\ phase = "migrating" /\ hurt # "all" =>
       \A p \in Files!Names :
         p # hurt =>
           IF p \in Files!Range(todo)
           THEN IF source[p] = Files!NoEntries
                THEN IF p = "rules" THEN hurt = "config" ELSE 0 \in safe[p]
                ELSE source[p] \in safe[p]
           ELSE Reads(p, disk[p]) \in safe[p] \/ Emptied(p, Reads(p, disk[p]))

FilesInv == FilesTyped /\ PortsFirst /\ OldOrNew

\* The eleven files, and the nine a migration writes.
LEMMA FilesAreThere ==
  /\ Files!Files \in Seq(Files!Names) /\ Files!Files # <<>> /\ Len(Files!Files) = 11
  /\ Head(Files!Files) = "config" /\ Files!Files[2] = "ports"
  /\ Files!Range(Files!Files) = Files!Names
  /\ "config" \in Files!Names /\ "ports" \in Files!Names
  /\ "rules" \in Files!Names /\ "beacons" \in Files!Names
  /\ Files!MigrationOrder \in Seq(Files!Names) /\ Files!MigrationOrder # <<>>
  /\ Head(Files!MigrationOrder) = "ports"
  /\ "config" \in Files!Range(Files!MigrationOrder)
  /\ "beacon_rules" \notin Files!Range(Files!MigrationOrder)
  /\ "incoming_beacons" \notin Files!Range(Files!MigrationOrder)
  /\ \A p \in Files!Names : \/ p \in Files!Range(Files!MigrationOrder)
                            \/ p = "beacon_rules" \/ p = "incoming_beacons"
<1> DEFINE all == Files!Files
           few == Files!Migrated
           last == <<"config">>
           order == Files!MigrationOrder
<1>1. /\ Len(all) = 11 /\ all # <<>> /\ DOMAIN all = 1..11
      /\ all[1] = "config" /\ all[2] = "ports" /\ all[3] = "address_book"
      /\ all[4] = "qso_log" /\ all[5] = "notified_packets" /\ all[6] = "rules"
      /\ all[7] = "pinned_sessions" /\ all[8] = "beacons" /\ all[9] = "mailbox"
      /\ all[10] = "beacon_rules" /\ all[11] = "incoming_beacons"
  BY DEF Files!Files
<1>2. Files!Range(all) = Files!Names
  BY DEF Files!Names
<1>3. Files!Names = {all[i] : i \in DOMAIN all}
  BY DEF Files!Names, Files!Range
<1>4. all \in Seq(Files!Names)
  <2>1. \A i \in 1..11 : all[i] \in Files!Names
    BY <1>1, <1>3
  <2>2. all = [i \in 1..11 |-> all[i]]
    BY DEF Files!Files
  <2> HIDE DEF all
  <2> QED
    BY <2>1, <2>2
<1>5. few = SubSeq(all, 2, 9)
  BY DEF Files!Migrated
<1>6. order = few \o last
  BY DEF Files!MigrationOrder
<1> HIDE DEF all, few, order
<1>7. few \in Seq(Files!Names) /\ Len(few) = 8 /\ \A i \in 1..8 : few[i] = all[i + 1]
  <2>1. few \in Seq(Files!Names)
    <3>1. \A i \in 2..9 : all[i] \in Files!Names
      BY <1>1, <1>3
    <3> DEFINE S == Files!Names
    <3> HIDE DEF S
    <3>2. SubSeq(all, 2, 9) \in Seq(S)
      BY <3>1, SubSeqProperties DEF S
    <3> QED
      BY <1>5, <3>2 DEF S
  <2>2. Len(few) = 8
    <3>1. Len(few) = 9 - 2 + 1
      BY <1>1, <1>4, <1>5
    <3> QED
      BY <3>1
  <2>3. \A i \in 1..8 : few[i] = all[2 + i - 1]
    BY <1>1, <1>4, <1>5, <2>2
  <2>4. \A i \in 1..8 : 2 + i - 1 = i + 1
    OBVIOUS
  <2> QED
    BY <2>1, <2>2, <2>3, <2>4
<1>8. last \in Seq(Files!Names) /\ Len(last) = 1 /\ last[1] = "config"
  <2>1. "config" \in Files!Names
    BY <1>1, <1>3
  <2> QED
    BY <2>1
<1> HIDE DEF last
<1>9. /\ order \in Seq(Files!Names) /\ Len(order) = 9
      /\ \A i \in 1..8 : order[i] = all[i + 1]
      /\ order[9] = "config"
  <2> DEFINE S == Files!Names
             both == few \o last
  <2> HIDE DEF S
  <2>a. few \in Seq(S) /\ last \in Seq(S) /\ Len(few) = 8 /\ Len(last) = 1
    BY <1>7, <1>8 DEF S
  <2>b. /\ both \in Seq(S) /\ Len(both) = Len(few) + Len(last)
        /\ \A i \in 1..Len(few) + Len(last) :
             both[i] = IF i <= Len(few) THEN few[i] ELSE last[i - Len(few)]
    BY <2>a, ConcatProperties
  <2> HIDE DEF both
  <2>0. order = both
    BY <1>6 DEF both
  <2>1. order \in Seq(Files!Names)
    BY <2>b, <2>0 DEF S
  <2>2. Len(order) = 9
    BY <2>a, <2>b, <2>0
  <2>3. \A i \in 1..9 : order[i] = IF i <= 8 THEN few[i] ELSE last[i - 8]
    BY <2>a, <2>b, <2>0
  <2>4. \A i \in 1..8 : order[i] = few[i]
    BY <2>3
  <2>5. order[9] = last[1]
    BY <2>3
  <2> QED
    BY <1>7, <1>8, <2>1, <2>2, <2>4, <2>5
<1>10. /\ order[1] = "ports" /\ order[2] = "address_book" /\ order[3] = "qso_log"
       /\ order[4] = "notified_packets" /\ order[5] = "rules" /\ order[6] = "pinned_sessions"
       /\ order[7] = "beacons" /\ order[8] = "mailbox" /\ order[9] = "config"
       /\ DOMAIN order = 1..9 /\ order # <<>>
  <2>1. /\ order[1] = all[2] /\ order[2] = all[3] /\ order[3] = all[4] /\ order[4] = all[5]
        /\ order[5] = all[6] /\ order[6] = all[7] /\ order[7] = all[8] /\ order[8] = all[9]
    BY <1>9
  <2>2. DOMAIN order = 1..9
    BY <1>9
  <2>3. order # <<>>
    <3>1. 1 \in DOMAIN order /\ 1 \notin DOMAIN <<>>
      BY <2>2
    <3> QED
      BY <3>1
  <2> QED
    BY <1>1, <1>9, <2>1, <2>2, <2>3
<1>11. Files!Range(order) = {order[i] : i \in 1..9}
  BY <1>10 DEF Files!Range
<1>12. Files!Range(order) = {"ports", "address_book", "qso_log", "notified_packets", "rules",
                             "pinned_sessions", "beacons", "mailbox", "config"}
  <2>1. 1..9 = {1, 2, 3, 4, 5, 6, 7, 8, 9}
    OBVIOUS
  <2> QED
    BY <1>10, <1>11, <2>1
<1>13. Files!Names = {"config", "ports", "address_book", "qso_log", "notified_packets", "rules",
                      "pinned_sessions", "beacons", "mailbox", "beacon_rules", "incoming_beacons"}
  <2>1. 1..11 = {1, 2, 3, 4, 5, 6, 7, 8, 9, 10, 11}
    OBVIOUS
  <2> QED
    BY <1>1, <1>3, <2>1
<1>14. Head(all) = "config" /\ Head(order) = "ports"
  BY <1>1, <1>4, <1>9, <1>10
<1> QED
  BY <1>1, <1>2, <1>4, <1>9, <1>10, <1>12, <1>13, <1>14 DEF all, order

\* What is read from a content, before and after a step.
LEMMA ContentsAreRead ==
  /\ \A p \in Files!Names : Files!LoadPart(p) = Reads(p, disk[p])
  /\ \A p \in Files!Names : Files!LoadPart(p)' = Reads(p, disk'[p])
  /\ \A p : \A c \in PartContents(p) : Reads(p, c) = c /\ c # Files!Garbage /\ c # Files!Legacy
  /\ \A p : \A c \in FileContents :
       /\ Reads(p, c) \in FileContents
       /\ c # Files!Garbage => Reads(p, c) \in PartContents(p)
<1>1. ASSUME NEW p \in Files!Names
      PROVE  /\ Files!LoadPart(p) = Reads(p, disk[p])
             /\ Files!LoadPart(p)' = Reads(p, disk'[p])
  BY DEF Files!LoadPart, Reads, Files!Absent, Files!Blank, Files!NoEntries, Files!Legacy
<1>2. ASSUME NEW p, NEW c \in PartContents(p)
      PROVE  Reads(p, c) = c /\ c # Files!Garbage /\ c # Files!Legacy
  BY DEF PartContents, Reads, Files!Absent, Files!Blank, Files!NoEntries, Files!Legacy, Files!Garbage
<1>3. ASSUME NEW p, NEW c \in FileContents
      PROVE  /\ Reads(p, c) \in FileContents
             /\ c # Files!Garbage => Reads(p, c) \in PartContents(p)
  BY DEF FileContents, PartContents, Reads, Files!Absent, Files!Blank, Files!NoEntries,
     Files!Legacy, Files!Garbage
<1> QED
  BY <1>1, <1>2, <1>3

\* What is written reads as itself, but for an empty list, and every mark is
\* one of its own.
LEMMA ContentsDiffer ==
  /\ \A c \in Nat \cup {Files!NoEntries} :
       /\ c \in FileContents
       /\ c # Files!Absent /\ c # Files!Blank /\ c # Files!Garbage /\ c # Files!Legacy
       /\ \A p : Reads(p, c) = IF c = Files!NoEntries /\ p # "rules" THEN 0 ELSE c
  /\ \A p : \A c \in PartContents(p) : c \in Nat \cup {Files!NoEntries}
  /\ Files!Blank \in FileContents /\ Files!Garbage \in FileContents
  /\ Files!Absent \in FileContents
  /\ Files!Blank # Files!Absent /\ Files!Blank # Files!Legacy
  /\ Files!Garbage # Files!Absent /\ Files!Garbage # Files!Legacy
  /\ Files!NoEntries \notin Nat
  /\ \A p : Reads(p, Files!Absent) = 0 /\ Reads(p, Files!Legacy) = 1
  /\ \A p : p # "rules" => Reads(p, Files!Blank) = 0
<1>1. \A c \in Nat \cup {Files!NoEntries} :
       /\ c \in FileContents
       /\ c # Files!Absent /\ c # Files!Blank /\ c # Files!Garbage /\ c # Files!Legacy
  BY DEF FileContents, Files!Absent, Files!Blank, Files!NoEntries, Files!Legacy, Files!Garbage
<1>2. \A c \in Nat \cup {Files!NoEntries} :
        \A p : Reads(p, c) = IF c = Files!NoEntries /\ p # "rules" THEN 0 ELSE c
  BY <1>1 DEF Reads
<1>3. \A p : \A c \in PartContents(p) : c \in Nat \cup {Files!NoEntries}
  BY DEF PartContents
<1>4. /\ Files!Blank \in FileContents /\ Files!Garbage \in FileContents
      /\ Files!Absent \in FileContents
      /\ Files!Blank # Files!Absent /\ Files!Blank # Files!Legacy
      /\ Files!Garbage # Files!Absent /\ Files!Garbage # Files!Legacy
      /\ Files!NoEntries \notin Nat
      /\ Files!Legacy # Files!Absent /\ Files!Legacy # Files!NoEntries
  BY DEF FileContents, Files!Absent, Files!Blank, Files!NoEntries, Files!Legacy, Files!Garbage
<1>5. /\ \A p : Reads(p, Files!Absent) = 0 /\ Reads(p, Files!Legacy) = 1
      /\ \A p : p # "rules" => Reads(p, Files!Blank) = 0
  BY <1>4 DEF Reads, Files!Legacy, Files!Absent, Files!Blank, Files!NoEntries
<1> QED
  BY <1>1, <1>2, <1>3, <1>4, <1>5

\* Files that are still to be written.
LEMMA TodoIsThere ==
  ASSUME NEW S, NEW s \in Seq(S), s # <<>>
  PROVE  /\ Head(s) \in S /\ Head(s) \in Files!Range(s) /\ Len(s) \in Nat
         /\ Len(s) = 1 => Files!Range(s) = {Head(s)}
         /\ Len(s) > 1 => /\ Tail(s) \in Seq(S) /\ Tail(s) # <<>>
                          /\ Head(Tail(s)) = s[2] /\ s[2] \in S /\ s[2] \in Files!Range(Tail(s))
                          /\ \A x : x \in Files!Range(s) <=> x = Head(s) \/ x \in Files!Range(Tail(s))
<1> DEFINE n == Len(s)
           t == Tail(s)
<1>1. /\ n \in Nat /\ n >= 1 /\ DOMAIN s = 1..n /\ Head(s) = s[1] /\ \A i \in 1..n : s[i] \in S
  OBVIOUS
<1>2. Head(s) \in S /\ Head(s) \in Files!Range(s)
  BY <1>1 DEF Files!Range
<1>3. n = 1 => Files!Range(s) = {Head(s)}
  BY <1>1 DEF Files!Range
<1>4. ASSUME n > 1
      PROVE  /\ t \in Seq(S) /\ t # <<>>
             /\ Head(t) = s[2] /\ s[2] \in S /\ s[2] \in Files!Range(t)
             /\ \A x : x \in Files!Range(s) <=> x = Head(s) \/ x \in Files!Range(t)
  <2>1. t \in Seq(S) /\ Len(t) = n - 1
    BY <1>1
  <2>2. \A i \in 1..(n - 1) : t[i] = s[i + 1]
    BY <1>1
  <2> HIDE DEF n, t
  <2>3. DOMAIN t = 1..(n - 1) /\ n - 1 \in Nat /\ 1 \in 1..(n - 1)
    BY <1>1, <1>4, <2>1
  <2>4. t # <<>> /\ Head(t) = t[1]
    BY <2>1, <2>3
  <2>5. t[1] = s[2] /\ s[2] \in S
    BY <1>1, <1>4, <2>2, <2>3
  <2>6. s[2] \in Files!Range(t)
    BY <2>3, <2>5 DEF Files!Range
  <2>7. ASSUME NEW x \in Files!Range(s) PROVE x = Head(s) \/ x \in Files!Range(t)
    <3>1. PICK i \in 1..n : x = s[i]
      BY <1>1, <2>7 DEF Files!Range
    <3>2. CASE i = 1
      BY <1>1, <3>1, <3>2
    <3>3. CASE i # 1
      <4>1. i - 1 \in 1..(n - 1) /\ (i - 1) + 1 = i
        BY <1>1, <3>3
      <4>2. t[i - 1] = x
        BY <2>2, <3>1, <4>1
      <4> QED
        BY <2>3, <4>1, <4>2 DEF Files!Range
    <3> QED
      BY <3>2, <3>3
  <2>8. ASSUME NEW x \in Files!Range(t) PROVE x \in Files!Range(s)
    <3>1. PICK i \in 1..(n - 1) : x = t[i]
      BY <2>3, <2>8 DEF Files!Range
    <3>2. i + 1 \in 1..n /\ x = s[i + 1]
      BY <1>1, <2>2, <3>1
    <3> QED
      BY <1>1, <3>2 DEF Files!Range
  <2> QED
    BY <1>2, <2>1, <2>4, <2>5, <2>6, <2>7, <2>8
<1> QED
  BY <1>1, <1>2, <1>3, <1>4

\* A file is written, and the next one begun.
LEMMA WriteFileKeeps ==
  ASSUME FilesInv, Files!WriteFile
  PROVE  FilesInv'
<1> DEFINE h == Head(todo)
           g == todo[2]
           later == Tail(todo)
<1>1. FilesTyped /\ PortsFirst /\ OldOrNew
  BY DEF FilesInv
<1>2. /\ phase = "saving" \/ phase = "migrating"
      /\ Len(todo) > 1 /\ todo' = later
      /\ UNCHANGED <<mem, phase, source, edits, safe, hurt>>
      /\ disk' = [[disk EXCEPT ![h] = source[h]] EXCEPT ![g] = Files!Blank]
  BY DEF Files!WriteFile, Files!Written
<1>3. todo \in Seq(Files!Names) /\ todo # <<>>
  BY <1>1, <1>2 DEF FilesTyped
<1>4. /\ h \in Files!Names /\ h \in Files!Range(todo) /\ later \in Seq(Files!Names) /\ later # <<>>
      /\ Head(later) = g /\ g \in Files!Names /\ g \in Files!Range(later)
      /\ \A x : x \in Files!Range(todo) <=> x = h \/ x \in Files!Range(later)
  <2> DEFINE S == Files!Names
  <2> HIDE DEF S
  <2>1. todo \in Seq(S)
    BY <1>3 DEF S
  <2> QED
    BY <1>2, <1>3, <2>1, TodoIsThere DEF S
<1> HIDE DEF h, g, later
<1>5. /\ disk \in [Files!Names -> FileContents]
      /\ \A p \in Files!Names : disk[p] = Files!Legacy => p = "config"
      /\ source \in [Files!Names -> Nat \cup {Files!NoEntries}]
      /\ source[h] \in Nat \cup {Files!NoEntries}
  BY <1>1, <1>4 DEF FilesTyped
<1>6. \A p \in Files!Names : disk'[p] = IF p = g THEN Files!Blank
                                        ELSE IF p = h THEN source[p] ELSE disk[p]
  BY <1>2, <1>4, <1>5
<1>7. /\ source[h] \in FileContents /\ source[h] # Files!Absent /\ source[h] # Files!Legacy
      /\ \A p : Reads(p, source[h]) = IF source[h] = Files!NoEntries /\ p # "rules" THEN 0
                                      ELSE source[h]
  BY <1>5, ContentsDiffer
<1>8. disk' \in [Files!Names -> FileContents]
  BY <1>2, <1>5, <1>7, ContentsDiffer
<1>9. \A p \in Files!Names : disk'[p] = Files!Legacy => p = "config"
  BY <1>5, <1>6, <1>7, ContentsDiffer
<1>10. FilesTyped'
  BY <1>1, <1>2, <1>4, <1>8, <1>9 DEF FilesTyped
<1>11. disk'["ports"] # Files!Absent
  <2> SUFFICES ASSUME disk'["ports"] = Files!Absent PROVE FALSE
    OBVIOUS
  <2>1. "ports" \in Files!Names
    BY FilesAreThere
  <2>2. "ports" # g /\ "ports" # h /\ disk["ports"] = Files!Absent
    BY <1>6, <1>7, <2>1, ContentsDiffer
  <2>3. todo = Files!Files
    BY <1>1, <1>2, <2>2 DEF PortsFirst
  <2> QED
    BY <2>2, <2>3, FilesAreThere DEF g
<1>12. PortsFirst'
  BY <1>11 DEF PortsFirst
<1>13. ASSUME phase = "saving"
       PROVE  /\ source = mem
              /\ \A p \in Files!Names : /\ mem[p] \in safe[p]
                                        /\ p # g => Reads(p, disk'[p]) \in safe[p]
                                        /\ p \notin Files!Range(later) => disk'[p] = mem[p]
  <2>1. /\ source = mem
        /\ \A p \in Files!Names : /\ mem[p] \in safe[p]
                                  /\ p # h => Reads(p, disk[p]) \in safe[p]
                                  /\ p \notin Files!Range(todo) => disk[p] = mem[p]
    BY <1>1, <1>13 DEF OldOrNew, h
  <2>2. \A p \in Files!Names : mem[p] \in PartContents(p)
    BY <1>1 DEF FilesTyped
  <2>3. Reads(h, source[h]) \in safe[h]
    BY <1>4, <2>1, <2>2, ContentsAreRead
  <2>4. \A p \in Files!Names : p # g => Reads(p, disk'[p]) \in safe[p]
    BY <1>6, <2>1, <2>3
  <2>5. \A p \in Files!Names : p \notin Files!Range(later) => disk'[p] = mem[p]
    BY <1>4, <1>6, <2>1
  <2> QED
    BY <2>1, <2>4, <2>5
<1>14. ASSUME phase = "migrating", hurt # "all", NEW p \in Files!Names, p # hurt
       PROVE  IF p \in Files!Range(later)
              THEN IF source[p] = Files!NoEntries
                   THEN IF p = "rules" THEN hurt = "config" ELSE 0 \in safe[p]
                   ELSE source[p] \in safe[p]
              ELSE Reads(p, disk'[p]) \in safe[p] \/ Emptied(p, Reads(p, disk'[p]))
  <2>1. IF p \in Files!Range(todo)
        THEN IF source[p] = Files!NoEntries
             THEN IF p = "rules" THEN hurt = "config" ELSE 0 \in safe[p]
             ELSE source[p] \in safe[p]
        ELSE Reads(p, disk[p]) \in safe[p] \/ Emptied(p, Reads(p, disk[p]))
    BY <1>1, <1>14 DEF OldOrNew
  <2>2. CASE p \in Files!Range(later)
    BY <1>4, <2>1, <2>2
  <2>3. CASE p \notin Files!Range(later) /\ p = h
    <3>1. disk'[p] = source[h]
      BY <1>4, <1>6, <2>3
    <3> QED
      BY <1>4, <1>7, <2>1, <2>3, <3>1 DEF Emptied
  <2>4. CASE p \notin Files!Range(later) /\ p # h
    <3>1. disk'[p] = disk[p]
      BY <1>4, <1>6, <2>4
    <3> QED
      BY <1>4, <2>1, <2>4, <3>1
  <2> QED
    BY <2>2, <2>3, <2>4
<1>15. OldOrNew'
  <2>1. phase' = "saving" =>
          /\ source' = mem'
          /\ \A p \in Files!Names : /\ mem'[p] \in safe'[p]
                                    /\ p # Head(todo)' => Reads(p, disk'[p]) \in safe'[p]
                                    /\ p \notin Files!Range(todo') => disk'[p] = mem'[p]
    BY <1>2, <1>4, <1>13
  <2>2. phase' = "migrating" /\ hurt' # "all" =>
          \A p \in Files!Names :
            p # hurt' =>
              IF p \in Files!Range(todo')
              THEN IF source'[p] = Files!NoEntries
                   THEN IF p = "rules" THEN hurt' = "config" ELSE 0 \in safe'[p]
                   ELSE source'[p] \in safe'[p]
              ELSE Reads(p, disk'[p]) \in safe'[p] \/ Emptied(p, Reads(p, disk'[p]))
    BY <1>2, <1>14
  <2>3. \A p, c : Emptied(p, c)' <=> p = "rules" /\ hurt' = "config" /\ c' = Files!NoEntries
    BY DEF Emptied
  <2> QED
    BY <1>2, <2>1, <2>2 DEF OldOrNew, Emptied
<1> QED
  BY <1>10, <1>12, <1>15 DEF FilesInv

\* The last file of a save: all of them are what is in memory.
LEMMA SaveEndsKeeps ==
  ASSUME FilesInv, Files!SaveEnds
  PROVE  FilesInv'
<1> DEFINE h == Head(todo)
<1>1. FilesTyped /\ PortsFirst /\ OldOrNew
  BY DEF FilesInv
<1>2. /\ phase = "saving" /\ phase' = "idle" /\ Len(todo) = 1 /\ todo' = <<>>
      /\ UNCHANGED <<mem, source, edits, stops, hurt>>
      /\ disk' = [disk EXCEPT ![h] = source[h]]
      /\ safe' = [p \in Files!Names |-> {mem[p]}]
  BY DEF Files!SaveEnds, Files!Written
<1>3. todo \in Seq(Files!Names) /\ todo # <<>>
  BY <1>1, <1>2 DEF FilesTyped
<1>4. h \in Files!Names /\ Files!Range(todo) = {h}
  <2> DEFINE S == Files!Names
  <2> HIDE DEF S
  <2>1. todo \in Seq(S)
    BY <1>3 DEF S
  <2> QED
    BY <1>2, <1>3, <2>1, TodoIsThere DEF S
<1>5. /\ disk \in [Files!Names -> FileContents] /\ mem \in [Files!Names -> FileContents]
      /\ \A p \in Files!Names : mem[p] \in PartContents(p)
  BY <1>1 DEF FilesTyped
<1>6. /\ source = mem
      /\ \A p \in Files!Names : p \notin Files!Range(todo) => disk[p] = mem[p]
  BY <1>1, <1>2 DEF OldOrNew
<1> HIDE DEF h
<1>7. \A p \in Files!Names : disk'[p] = mem[p]
  BY <1>2, <1>4, <1>5, <1>6
<1>8. disk' \in [Files!Names -> FileContents]
  BY <1>2, <1>4, <1>5, <1>6
<1>9. \A p \in Files!Names : disk'[p] # Files!Legacy /\ disk'[p] # Files!Absent
                             /\ Reads(p, disk'[p]) = mem[p]
  BY <1>5, <1>7, ContentsAreRead, ContentsDiffer
<1>10. safe' \in [Files!Names -> SUBSET FileContents]
  BY <1>2, <1>5
<1>11. FilesTyped'
  BY <1>1, <1>2, <1>8, <1>9, <1>10 DEF FilesTyped
<1>12. PortsFirst'
  BY <1>9, FilesAreThere DEF PortsFirst
<1>13. OldOrNew'
  BY <1>2, <1>9 DEF OldOrNew
<1> QED
  BY <1>11, <1>12, <1>13 DEF FilesInv

\* Whatever is loaded then may be what is loaded next.
LEMMA LoadedIsHeld ==
  ASSUME disk' \in [Files!Names -> FileContents],
         \A p \in Files!Names : disk'[p] = Files!Legacy => p = "config",
         source' \in [Files!Names -> Nat \cup {Files!NoEntries}],
         edits' \in Nat, phase' = "idle", todo' = <<>>,
         disk'["ports"] = Files!Absent =>
           /\ \A p \in Files!Names \ {"config"} : disk'[p] = Files!Absent
           /\ disk'["config"] \in {Files!Absent, Files!Garbage},
         safe' = [p \in Files!Names |-> {mem'[p], Reads(p, disk'[p])}],
         \/ mem' = Files!AllDefaults
         \/ /\ mem' = [p \in Files!Names |-> Reads(p, disk'[p])]
            /\ \A p \in Files!Names : disk'[p] # Files!Garbage
  PROVE  FilesInv'
<1>1. \A p \in Files!Names : Reads(p, disk'[p]) \in FileContents
  BY ContentsAreRead
<1>2. \A p \in Files!Names : mem'[p] \in PartContents(p)
  <2>1. CASE mem' = Files!AllDefaults
    BY <2>1 DEF Files!AllDefaults, PartContents
  <2>2. CASE /\ mem' = [p \in Files!Names |-> Reads(p, disk'[p])]
             /\ \A p \in Files!Names : disk'[p] # Files!Garbage
    BY <2>2, ContentsAreRead
  <2> QED
    BY <2>1, <2>2
<1>3. \A p \in Files!Names : mem'[p] \in FileContents
  BY <1>2, ContentsDiffer
<1>4. mem' = [p \in Files!Names |-> mem'[p]]
  BY DEF Files!AllDefaults
<1>5. mem' \in [Files!Names -> FileContents]
  BY <1>3, <1>4
<1>6. safe' \in [Files!Names -> SUBSET FileContents]
  BY <1>1, <1>3
<1>7. FilesTyped'
  BY <1>2, <1>5, <1>6 DEF FilesTyped
<1>8. PortsFirst'
  BY ContentsDiffer DEF PortsFirst
<1>9. OldOrNew'
  BY DEF OldOrNew
<1> QED
  BY <1>7, <1>8, <1>9 DEF FilesInv

\* What the property says of a step that ends a load.
SafeIsLoaded ==
  hurt # "all" /\ ~Files!Unreadable' =>
    \A p \in Files!Names \ {hurt} :
      \/ mem'[p] \in safe[p]
      \/ p = "rules" /\ phase = "migrating" /\ hurt = "config" /\ mem'[p] = Files!NoEntries

\* The migration is complete, and what it left is loaded.
LEMMA MigrationEndsKeeps ==
  ASSUME FilesInv, Files!MigrationEnds
  PROVE  FilesInv' /\ SafeIsLoaded
<1> DEFINE h == Head(todo)
<1>1. FilesTyped /\ PortsFirst /\ OldOrNew
  BY DEF FilesInv
<1>2. /\ phase = "migrating" /\ phase' = "idle" /\ Len(todo) = 1 /\ todo' = <<>>
      /\ UNCHANGED <<source, edits, stops>>
      /\ disk' = [disk EXCEPT ![h] = source[h]]
      /\ mem' = IF \E p \in Files!Names : disk'[p] = Files!Garbage THEN Files!AllDefaults
                ELSE [p \in Files!Names |-> Files!LoadPart(p)']
      /\ safe' = [p \in Files!Names |-> {mem'[p], Files!LoadPart(p)'}]
  BY DEF Files!MigrationEnds, Files!Written, Files!Loaded
<1>3. todo \in Seq(Files!Names) /\ todo # <<>>
  BY <1>1, <1>2 DEF FilesTyped
<1>4. h \in Files!Names /\ Files!Range(todo) = {h}
  <2> DEFINE S == Files!Names
  <2> HIDE DEF S
  <2>1. todo \in Seq(S)
    BY <1>3 DEF S
  <2> QED
    BY <1>2, <1>3, <2>1, TodoIsThere DEF S
<1>5. /\ disk \in [Files!Names -> FileContents]
      /\ source \in [Files!Names -> Nat \cup {Files!NoEntries}]
      /\ source[h] \in Nat \cup {Files!NoEntries}
      /\ \A p \in Files!Names : disk[p] = Files!Legacy => p = "config"
      /\ edits \in Nat
  BY <1>1, <1>4 DEF FilesTyped
<1>6. disk["ports"] # Files!Absent
  BY <1>1, <1>2 DEF PortsFirst
<1> HIDE DEF h
<1>7. /\ source[h] \in FileContents /\ source[h] # Files!Absent /\ source[h] # Files!Legacy
      /\ source[h] # Files!Garbage
      /\ \A p : Reads(p, source[h]) = IF source[h] = Files!NoEntries /\ p # "rules" THEN 0
                                      ELSE source[h]
  BY <1>5, ContentsDiffer
<1>8. \A p \in Files!Names : disk'[p] = IF p = h THEN source[h] ELSE disk[p]
  BY <1>2, <1>4, <1>5
<1>9. /\ disk' \in [Files!Names -> FileContents]
      /\ \A p \in Files!Names : disk'[p] = Files!Legacy => p = "config"
      /\ disk'["ports"] # Files!Absent
  <2>1. disk' \in [Files!Names -> FileContents]
    BY <1>2, <1>5, <1>7
  <2>2. \A p \in Files!Names : disk'[p] = Files!Legacy => p = "config"
    BY <1>5, <1>7, <1>8
  <2>3. disk'["ports"] # Files!Absent
    BY <1>6, <1>7, <1>8, FilesAreThere
  <2> QED
    BY <2>1, <2>2, <2>3
<1>10. \A p \in Files!Names : Files!LoadPart(p)' = Reads(p, disk'[p])
  BY ContentsAreRead
<1>11. safe' = [p \in Files!Names |-> {mem'[p], Reads(p, disk'[p])}]
  BY <1>2, <1>10
<1>12. \/ mem' = Files!AllDefaults
       \/ /\ mem' = [p \in Files!Names |-> Reads(p, disk'[p])]
          /\ \A p \in Files!Names : disk'[p] # Files!Garbage
  BY <1>2, <1>10
<1>13. FilesInv'
  BY <1>2, <1>5, <1>9, <1>11, <1>12, LoadedIsHeld
<1>14. SafeIsLoaded
  <2> SUFFICES ASSUME hurt # "all", ~Files!Unreadable', NEW p \in Files!Names, p # hurt
               PROVE  mem'[p] \in safe[p] \/ Emptied(p, mem'[p])
    BY <1>2 DEF SafeIsLoaded, Emptied
  <2>1. \A q \in Files!Names : disk'[q] # Files!Garbage
    BY DEF Files!Unreadable
  <2>2. mem'[p] = Reads(p, disk'[p])
    BY <1>2, <1>10, <2>1
  <2>3. IF p = h
        THEN IF source[p] = Files!NoEntries
             THEN IF p = "rules" THEN hurt = "config" ELSE 0 \in safe[p]
             ELSE source[p] \in safe[p]
        ELSE Reads(p, disk[p]) \in safe[p] \/ Emptied(p, Reads(p, disk[p]))
    BY <1>1, <1>2, <1>4 DEF OldOrNew
  <2>4. CASE p = h
    BY <1>7, <1>8, <2>2, <2>3, <2>4 DEF Emptied
  <2>5. CASE p # h
    BY <1>8, <2>2, <2>3, <2>5
  <2> QED
    BY <2>4, <2>5
<1> QED
  BY <1>13, <1>14

\* A change, and its save begins.
LEMMA EditKeeps ==
  ASSUME FilesInv, NEW p \in Files!Names, Files!EditAndSave(p)
  PROVE  FilesInv'
<1>1. FilesTyped /\ PortsFirst /\ OldOrNew
  BY DEF FilesInv
<1>2. /\ phase = "idle" /\ phase' = "saving" /\ edits' = edits + 1
      /\ mem' = [mem EXCEPT ![p] = edits + 2]
      /\ todo' = Files!Files /\ source' = mem'
      /\ disk' = [disk EXCEPT !["config"] = Files!Blank]
      /\ safe' = [q \in Files!Names |-> safe[q] \cup {mem'[q]}]
  BY FilesAreThere DEF Files!EditAndSave, Files!Begin
<1>3. /\ disk \in [Files!Names -> FileContents] /\ mem \in [Files!Names -> FileContents]
      /\ \A q \in Files!Names : mem[q] \in PartContents(q)
      /\ \A q \in Files!Names : disk[q] = Files!Legacy => q = "config"
      /\ edits \in Nat /\ safe \in [Files!Names -> SUBSET FileContents]
  BY <1>1 DEF FilesTyped
<1>4. edits + 2 \in Nat /\ edits + 1 \in Nat
  BY <1>3
<1>5. edits + 2 \in PartContents(p) /\ edits + 2 \in FileContents
  BY <1>4 DEF PartContents, FileContents
<1> DEFINE c == edits + 2
<1>a. mem' = [mem EXCEPT ![p] = c] /\ c \in PartContents(p) /\ c \in FileContents
  BY <1>2, <1>5
<1> HIDE DEF c
<1>6. /\ mem' \in [Files!Names -> FileContents]
      /\ \A q \in Files!Names : mem'[q] \in PartContents(q)
  BY <1>3, <1>a
<1>7. source' \in [Files!Names -> Nat \cup {Files!NoEntries}]
  <2>1. \A q \in Files!Names : mem'[q] \in Nat \cup {Files!NoEntries}
    BY <1>6, ContentsDiffer
  <2> QED
    BY <1>2, <1>6, <2>1
<1>8. \A q \in Files!Names : disk'[q] = IF q = "config" THEN Files!Blank ELSE disk[q]
  BY <1>2, <1>3
<1>9. /\ disk' \in [Files!Names -> FileContents]
      /\ \A q \in Files!Names : disk'[q] # Files!Legacy
  BY <1>2, <1>3, <1>8, ContentsDiffer
<1>10. safe' \in [Files!Names -> SUBSET FileContents]
  BY <1>2, <1>3, <1>6
<1>11. FilesTyped'
  BY <1>2, <1>4, <1>6, <1>7, <1>9, <1>10, FilesAreThere DEF FilesTyped
<1>12. PortsFirst'
  <2> SUFFICES ASSUME disk'["ports"] = Files!Absent PROVE PortsFirst'
    BY DEF PortsFirst
  <2>1. disk["ports"] = Files!Absent
    BY <1>8, FilesAreThere
  <2>2. \A q \in Files!Names \ {"config"} : disk[q] = Files!Absent
    BY <1>1, <2>1 DEF PortsFirst
  <2>3. \A q \in Files!Names \ {"config"} : disk'[q] = Files!Absent
    BY <1>8, <2>2
  <2>4. disk'["config"] # Files!Legacy
    BY <1>9, FilesAreThere
  <2> QED
    BY <1>2, <2>3, <2>4 DEF PortsFirst
<1>13. \A q \in Files!Names : /\ mem'[q] \in safe'[q]
                              /\ q # "config" => Reads(q, disk'[q]) \in safe'[q]
  <2>1. \A q \in Files!Names : Reads(q, disk[q]) \in safe[q]
    BY <1>1, <1>2 DEF OldOrNew
  <2> QED
    BY <1>2, <1>8, <2>1
<1>14. Head(todo)' = "config" /\ Files!Range(todo') = Files!Names
  BY <1>2, FilesAreThere
<1>15. OldOrNew'
  BY <1>2, <1>13, <1>14 DEF OldOrNew
<1> QED
  BY <1>11, <1>12, <1>15 DEF FilesInv

\* The program starts: it migrates what is from before the split, or loads.
LEMMA LoadsKeep ==
  ASSUME FilesInv, Files!Loads
  PROVE  FilesInv' /\ (phase' = "idle" => SafeIsLoaded)
<1>1. FilesTyped /\ PortsFirst /\ OldOrNew
  BY DEF FilesInv
<1>2. phase = "off" /\ UNCHANGED <<edits, stops>>
  BY DEF Files!Loads
<1>3. /\ disk \in [Files!Names -> FileContents]
      /\ \A p \in Files!Names : disk[p] = Files!Legacy => p = "config"
      /\ source \in [Files!Names -> Nat \cup {Files!NoEntries}]
      /\ edits \in Nat /\ todo = <<>>
  BY <1>1, <1>2 DEF FilesTyped
<1>4. "config" \in Files!Names /\ "ports" \in Files!Names
  BY FilesAreThere
<1>5. CASE Files!NeedsMigration /\ disk["config"] # Files!Garbage
  <2> DEFINE old == disk["config"] = Files!Legacy
             kept == Reads("config", disk["config"])
  <2>1. /\ disk["config"] # Files!Absent /\ disk["ports"] = Files!Absent
        /\ disk["config"] # Files!Garbage
    BY <1>5 DEF Files!NeedsMigration
  <2>2. /\ todo' = Files!MigrationOrder /\ source' = Files!Extracted
        /\ disk' = [disk EXCEPT !["ports"] = Files!Blank]
        /\ phase' = "migrating" /\ UNCHANGED <<mem, safe, hurt>>
    BY <1>5, FilesAreThere DEF Files!Loads, Files!Begin
  <2>3. kept \in Nat
    <3>1. kept \in PartContents("config")
      BY <1>3, <1>4, <2>1, ContentsAreRead
    <3> QED
      BY <3>1 DEF PartContents
  <2>4. \A p \in Files!Names : source'[p] = IF p = "config" THEN kept
                                            ELSE IF old THEN 1 ELSE Files!NoEntries
    BY <1>4, <2>2, ContentsAreRead DEF Files!Extracted
  <2>5. source' = [p \in Files!Names |-> source'[p]]
    BY <2>2 DEF Files!Extracted
  <2> HIDE DEF kept, old
  <2>6. source' \in [Files!Names -> Nat \cup {Files!NoEntries}]
    BY <2>3, <2>4, <2>5
  <2>7. \A p \in Files!Names : disk'[p] = IF p = "ports" THEN Files!Blank ELSE disk[p]
    BY <1>3, <2>2
  <2>8. /\ disk' \in [Files!Names -> FileContents]
        /\ \A p \in Files!Names : disk'[p] = Files!Legacy => p = "config"
        /\ disk'["ports"] # Files!Absent
    <3>1. disk' \in [Files!Names -> FileContents]
      BY <1>3, <2>2, ContentsDiffer
    <3>2. \A p \in Files!Names : disk'[p] = Files!Legacy => p = "config"
      BY <1>3, <2>7, ContentsDiffer
    <3>3. disk'["ports"] # Files!Absent
      BY <1>4, <2>7, ContentsDiffer
    <3> QED
      BY <3>1, <3>2, <3>3
  <2>9. FilesTyped'
    BY <1>1, <1>2, <2>2, <2>6, <2>8, FilesAreThere DEF FilesTyped
  <2>10. PortsFirst'
    BY <2>8 DEF PortsFirst
  <2>11. ASSUME hurt # "all", NEW p \in Files!Names, p # hurt
         PROVE  IF p \in Files!Range(Files!MigrationOrder)
                THEN IF source'[p] = Files!NoEntries
                     THEN IF p = "rules" THEN hurt = "config" ELSE 0 \in safe[p]
                     ELSE source'[p] \in safe[p]
                ELSE Reads(p, disk'[p]) \in safe[p] \/ Emptied(p, Reads(p, disk'[p]))
    <3>1. \A q \in Files!Names \ {"config"} : disk[q] = Files!Absent
      BY <1>1, <2>1 DEF PortsFirst
    <3>2. p # "config" => disk[p] = Files!Absent /\ Reads(p, disk[p]) = 0
      BY <3>1, ContentsDiffer
    <3>3. CASE old
      <4>1. IF p \in Files!Range(Files!MigrationOrder) THEN 1 \in safe[p] ELSE 0 \in safe[p]
        BY <1>1, <2>1, <3>3 DEF PortsFirst, old
      <4>2. kept = 1
        BY <3>3, ContentsDiffer DEF kept, old
      <4>3. source'[p] = 1
        BY <2>4, <3>3, <4>2
      <4>4. p \notin Files!Range(Files!MigrationOrder) => Reads(p, disk'[p]) = 0
        <5>1. p \notin Files!Range(Files!MigrationOrder) => p # "config"
          BY FilesAreThere
        <5>2. p \notin Files!Range(Files!MigrationOrder) => p # "ports" /\ p # "rules"
          BY FilesAreThere
        <5>3. p # "config" /\ p # "ports" => Reads(p, disk'[p]) = 0
          BY <2>7, <3>2, ContentsDiffer
        <5> QED
          BY <5>1, <5>2, <5>3
      <4> QED
        BY <4>1, <4>3, <4>4, ContentsDiffer
    <3>4. CASE ~old
      <4>1. Reads(p, disk[p]) \in safe[p]
        BY <1>1, <1>2, <2>11, <3>4 DEF OldOrNew, old
      <4>2. CASE p = "config"
        <5>1. source'[p] = Reads(p, disk[p]) /\ source'[p] # Files!NoEntries
          BY <1>4, <2>3, <2>4, <4>2, ContentsDiffer DEF kept
        <5> QED
          BY <4>1, <4>2, <5>1, FilesAreThere
      <4>3. CASE p # "config"
        <5>1. source'[p] = Files!NoEntries /\ 0 \in safe[p]
          BY <2>4, <3>2, <3>4, <4>1, <4>3
        <5>2. Reads(p, disk'[p]) = 0
          BY <2>7, <3>2, <4>3, ContentsDiffer
        <5>3. hurt = "config"
          BY <1>1, <1>2, <2>1, <3>4 DEF PortsFirst, old
        <5> QED
          BY <5>1, <5>2, <5>3
      <4> QED
        BY <4>2, <4>3
    <3> QED
      BY <3>3, <3>4
  <2>12. OldOrNew'
    BY <2>2, <2>11 DEF OldOrNew, Emptied
  <2> QED
    BY <2>2, <2>9, <2>10, <2>12 DEF FilesInv
<1>6. CASE ~(Files!NeedsMigration /\ disk["config"] # Files!Garbage)
  <2>1. /\ mem' = IF Files!Unreadable THEN Files!AllDefaults
                  ELSE [p \in Files!Names |-> Files!LoadPart(p)]
        /\ UNCHANGED <<disk, todo, source>> /\ phase' = "idle"
        /\ safe' = [p \in Files!Names |-> {mem'[p], Files!LoadPart(p)'}]
    BY <1>6 DEF Files!Loads, Files!Loaded
  <2>2. safe' = [p \in Files!Names |-> {mem'[p], Reads(p, disk'[p])}]
    BY <2>1, ContentsAreRead
  <2>3. \/ mem' = Files!AllDefaults
        \/ /\ mem' = [p \in Files!Names |-> Reads(p, disk'[p])]
           /\ \A p \in Files!Names : disk'[p] # Files!Garbage
    BY <2>1, ContentsAreRead DEF Files!Unreadable
  <2>4. ~(disk["config"] = Files!Legacy /\ disk["ports"] = Files!Absent)
    <3>1. Files!Legacy # Files!Absent /\ Files!Legacy # Files!Garbage
      BY DEF Files!Legacy, Files!Absent, Files!Garbage
    <3> QED
      BY <1>6, <3>1 DEF Files!NeedsMigration
  <2>5. disk'["ports"] = Files!Absent =>
           /\ \A p \in Files!Names \ {"config"} : disk'[p] = Files!Absent
           /\ disk'["config"] \in {Files!Absent, Files!Garbage}
    BY <1>1, <1>6, <2>1 DEF PortsFirst, Files!NeedsMigration
  <2>6. FilesInv'
    <3>1. /\ disk' \in [Files!Names -> FileContents]
          /\ \A p \in Files!Names : disk'[p] = Files!Legacy => p = "config"
          /\ source' \in [Files!Names -> Nat \cup {Files!NoEntries}]
          /\ edits' \in Nat /\ todo' = <<>> /\ phase' = "idle"
      BY <1>2, <1>3, <2>1
    <3> QED
      BY <2>2, <2>3, <2>5, <3>1, LoadedIsHeld
  <2>7. SafeIsLoaded
    <3> SUFFICES ASSUME hurt # "all", ~Files!Unreadable', NEW p \in Files!Names, p # hurt
                 PROVE  mem'[p] \in safe[p]
      BY DEF SafeIsLoaded
    <3>1. ~Files!Unreadable
      BY <2>1 DEF Files!Unreadable
    <3>2. mem'[p] = Reads(p, disk[p])
      BY <2>1, <3>1, ContentsAreRead
    <3> QED
      BY <1>1, <1>2, <2>4, <3>2 DEF OldOrNew
  <2> QED
    BY <2>6, <2>7
<1> QED
  BY <1>5, <1>6

\* The program ends, in the middle of a write or not.
LEMMA StopKeeps ==
  ASSUME FilesInv, Files!Stop
  PROVE  FilesInv'
<1> DEFINE h == Head(todo)
           cut == [disk EXCEPT ![h] = Files!Garbage]
           written == [disk EXCEPT ![h] = source[h]]
<1>1. FilesTyped /\ PortsFirst /\ OldOrNew
  BY DEF FilesInv
<1>2. /\ phase # "off" /\ phase' = "off" /\ todo' = <<>>
      /\ hurt' = (CASE phase = "idle" -> "" [] phase = "saving" -> h [] OTHER -> "all")
      /\ disk' \in IF todo = <<>> THEN {disk} ELSE {disk, cut, written}
      /\ UNCHANGED <<mem, source, edits, safe>>
  BY DEF Files!Stop, Files!Written
<1>3. /\ disk \in [Files!Names -> FileContents]
      /\ \A p \in Files!Names : disk[p] = Files!Legacy => p = "config"
      /\ phase = "idle" \/ phase = "saving" \/ phase = "migrating"
  BY <1>1, <1>2 DEF FilesTyped
<1>4. CASE phase = "idle"
  <2>1. disk' = disk /\ hurt' = ""
    BY <1>1, <1>2, <1>4 DEF FilesTyped
  <2>2. FilesTyped'
    BY <1>1, <1>2, <2>1 DEF FilesTyped
  <2>3. PortsFirst'
    BY <1>1, <1>2, <1>4, <2>1 DEF PortsFirst
  <2>4. OldOrNew'
    BY <1>1, <1>2, <1>4, <2>1 DEF OldOrNew
  <2> QED
    BY <2>2, <2>3, <2>4 DEF FilesInv
<1>5. CASE phase = "saving" \/ phase = "migrating"
  <2>1. /\ todo \in Seq(Files!Names) /\ todo # <<>>
        /\ source \in [Files!Names -> Nat \cup {Files!NoEntries}]
    BY <1>1, <1>5 DEF FilesTyped
  <2>2. h \in Files!Names
    BY <2>1
  <2>3. disk' = disk \/ disk' = cut \/ disk' = written
    BY <1>2, <2>1
  <2> HIDE DEF h
  <2>4. /\ source[h] \in FileContents /\ source[h] # Files!Absent /\ source[h] # Files!Legacy
    <3>1. source[h] \in Nat \cup {Files!NoEntries}
      BY <2>1, <2>2
    <3> QED
      BY <3>1, ContentsDiffer
  <2>5. \A p \in Files!Names : p # h => disk'[p] = disk[p]
    BY <1>3, <2>3
  <2>6. disk'[h] = disk[h] \/ disk'[h] = Files!Garbage \/ disk'[h] = source[h]
    BY <1>3, <2>2, <2>3
  <2>7. disk' \in [Files!Names -> FileContents]
    BY <1>3, <2>2, <2>3, <2>4, ContentsDiffer
  <2>8. \A p \in Files!Names : /\ disk'[p] = Files!Legacy => disk[p] = Files!Legacy
                               /\ disk'[p] = Files!Absent => disk[p] = Files!Absent
    BY <2>4, <2>5, <2>6, ContentsDiffer
  <2>9. FilesTyped'
    BY <1>1, <1>2, <1>3, <2>7, <2>8 DEF FilesTyped
  <2>10. PortsFirst'
    <3> SUFFICES ASSUME disk'["ports"] = Files!Absent PROVE PortsFirst'
      BY DEF PortsFirst
    <3>1. disk["ports"] = Files!Absent
      BY <2>8, FilesAreThere
    <3>2. /\ \A p \in Files!Names \ {"config"} : disk[p] = Files!Absent
          /\ phase = "saving" /\ todo = Files!Files
          /\ disk["config"] # Files!Legacy
      BY <1>1, <1>5, <3>1 DEF PortsFirst
    <3>3. h = "config"
      BY <3>2, FilesAreThere DEF h
    <3>4. \A p \in Files!Names \ {"config"} : disk'[p] = Files!Absent
      BY <2>5, <3>2, <3>3
    <3>5. disk'["config"] # Files!Legacy
      BY <2>8, <3>2, FilesAreThere
    <3>6. hurt' = "config"
      BY <1>2, <3>2, <3>3
    <3> QED
      BY <1>2, <3>4, <3>5, <3>6 DEF PortsFirst
  <2>11. ASSUME hurt' # "all" PROVE \A p \in Files!Names : p # hurt' => Reads(p, disk'[p]) \in safe[p]
    <3>1. phase = "saving" /\ hurt' = h
      BY <1>2, <1>5, <2>11
    <3>2. \A p \in Files!Names : p # h => Reads(p, disk[p]) \in safe[p]
      BY <1>1, <3>1 DEF OldOrNew, h
    <3> QED
      BY <2>5, <3>1, <3>2
  <2>12. OldOrNew'
    BY <1>2, <2>11 DEF OldOrNew
  <2> QED
    BY <2>9, <2>10, <2>12 DEF FilesInv
<1> QED
  BY <1>3, <1>4, <1>5

\* The first start finds nothing, or what is from before the split.
LEMMA FilesBegin == Files!Init => FilesInv
<1> SUFFICES ASSUME Files!Init PROVE FilesInv
  OBVIOUS
<1> DEFINE old == disk["config"] = Files!Legacy
<1>1. /\ \/ disk = [p \in Files!Names |-> Files!Absent]
         \/ disk = [p \in Files!Names |-> IF p = "config" THEN Files!Legacy ELSE Files!Absent]
      /\ mem = [p \in Files!Names |-> 0] /\ source = [p \in Files!Names |-> 0]
      /\ phase = "off" /\ todo = <<>> /\ edits = 0 /\ hurt = ""
      /\ safe = [p \in Files!Names |->
                   {IF old /\ p \notin {"beacon_rules", "incoming_beacons"} THEN 1 ELSE 0}]
  BY DEF Files!Init, Files!AllDefaults
<1>2. Files!Absent \in FileContents /\ Files!Legacy \in FileContents /\ Files!Absent # Files!Legacy
  BY DEF FileContents, Files!Absent, Files!Legacy
<1>3. /\ disk \in [Files!Names -> FileContents]
      /\ \A p \in Files!Names : p # "config" => disk[p] = Files!Absent
      /\ disk["config"] = Files!Absent \/ disk["config"] = Files!Legacy
  BY <1>1, <1>2, FilesAreThere
<1>4. 0 \in FileContents /\ 1 \in FileContents /\ \A p : 0 \in PartContents(p)
  BY DEF FileContents, PartContents
<1> HIDE DEF old
<1>5. safe \in [Files!Names -> SUBSET FileContents]
  BY <1>1, <1>4
<1>6. FilesTyped
  BY <1>1, <1>2, <1>3, <1>4, <1>5 DEF FilesTyped
<1>7. PortsFirst
  <2>1. old => \A p \in Files!Names :
                 IF p \in Files!Range(Files!MigrationOrder) THEN 1 \in safe[p] ELSE 0 \in safe[p]
    BY <1>1, FilesAreThere
  <2> QED
    BY <1>1, <1>3, <2>1 DEF PortsFirst, old
<1>8. OldOrNew
  <2>1. ASSUME ~old, NEW p \in Files!Names PROVE Reads(p, disk[p]) \in safe[p]
    <3>1. disk[p] = Files!Absent
      BY <1>3, <2>1 DEF old
    <3>2. safe[p] = {0}
      BY <1>1, <2>1
    <3> QED
      BY <3>1, <3>2, ContentsDiffer
  <2>2. old => disk["ports"] = Files!Absent
    BY <1>3, FilesAreThere
  <2> QED
    BY <1>1, <2>1, <2>2 DEF OldOrNew, old
<1> QED
  BY <1>6, <1>7, <1>8 DEF FilesInv

\* One step per action, and what ends a load loads what is safe.
LEMMA FilesStepKeeps ==
  ASSUME FilesInv, Files!Next
  PROVE  FilesInv' /\ (Files!Loaded => SafeIsLoaded)
<1>1. CASE Files!Loads
  BY <1>1, LoadsKeep DEF Files!Loaded
<1>2. CASE Files!WriteFile
  BY <1>2, WriteFileKeeps DEF Files!WriteFile, Files!Loaded
<1>3. CASE Files!SaveEnds
  BY <1>3, SaveEndsKeeps DEF Files!SaveEnds, Files!Loaded
<1>4. CASE Files!MigrationEnds
  BY <1>4, MigrationEndsKeeps
<1>5. ASSUME NEW p \in {"config", "rules", "beacons"}, Files!EditAndSave(p)
      PROVE  FilesInv' /\ ~Files!Loaded
  <2>1. p \in Files!Names
    BY FilesAreThere
  <2> QED
    BY <1>5, <2>1, EditKeeps DEF Files!EditAndSave, Files!Loaded
<1>6. CASE Files!Stop
  BY <1>6, StopKeeps DEF Files!Stop, Files!Loaded
<1> QED
  BY <1>1, <1>2, <1>3, <1>4, <1>5, <1>6 DEF Files!Next

FilesHold == part = "files" => FilesInv

\* For any number of changes and of stops: whatever was saved is loaded again,
\* and a migration loses nothing, in spite of a stop in the middle of a save
\* (config.rs:787).
THEOREM SavedComesBack == MCSpec => SavedIsLoaded
<1>1. MCInit => FilesHold
  BY FilesBegin DEF MCInit, FilesHold
<1>2. FilesHold /\ [MCNext]_mcvars => FilesHold'
  <2> SUFFICES ASSUME FilesHold, [MCNext]_mcvars, part' = "files" PROVE FilesInv'
    BY DEF FilesHold
  <2>1. FilesInv
    BY DEF FilesHold, MCNext, mcvars
  <2>2. CASE Files!Next
    BY <2>1, <2>2, FilesStepKeeps
  <2>3. CASE UNCHANGED filevars
    <3>1. UNCHANGED <<disk, mem, phase, todo, source, edits, stops, safe, hurt>>
      BY <2>3 DEF filevars
    <3> QED
      BY <2>1, <3>1 DEF FilesInv, FilesTyped, PortsFirst, OldOrNew, Emptied
  <2> QED
    BY <2>2, <2>3 DEF MCNext, mcvars
<1>3. FilesHold /\ [MCNext]_mcvars =>
        [Files!Loaded /\ hurt # "all" /\ ~Files!Unreadable' =>
           \A p \in Files!Names \ {hurt} :
             \/ mem'[p] \in safe[p]
             \/ p = "rules" /\ phase = "migrating" /\ hurt = "config"
                /\ mem'[p] = Files!NoEntries]_Files!vars
  <2> SUFFICES ASSUME FilesHold, [MCNext]_mcvars, Files!Loaded
               PROVE  SafeIsLoaded \/ UNCHANGED Files!vars
    BY DEF SafeIsLoaded
  <2>1. CASE part = "files" /\ Files!Next
    BY <2>1, FilesStepKeeps DEF FilesHold
  <2>2. CASE UNCHANGED filevars
    BY <2>2 DEF filevars, Files!vars
  <2> QED
    BY <2>1, <2>2 DEF MCNext, mcvars
<1> QED
  BY <1>1, <1>2, <1>3, PTL DEF MCSpec, SavedIsLoaded, Files!SavedIsLoaded

-----------------------------------------------------------------------------
(* Direwolf: the one that runs is held.                                    *)

\* Where a process is that the window has not been told the end of.
Unheard == {"running", "told to stop", "exited", "waited for"}

Places == {"unborn", "running", "told to stop", "exited", "waited for", "gone"}

ProcessTyped ==
  /\ pid \in {0} \cup Pids
  /\ children \in [Pids -> [at : Places, text : Int]]
  /\ config_text \in Int /\ file \in Int

\* A process whose end is not yet heard of is the one that is held.
UnheardIsHeld == \A p \in Pids : children[p].at \in Unheard => pid = p

\* One that is held is one whose end is not yet heard of, and the file is its.
HeldIsUnheard ==
  pid \in Pids => children[pid].at \in Unheard /\ children[pid].text = file

\* The button shows whether one is held.
ButtonIsTrue == state = "Running" <=> pid # 0

ProcessInv == ProcessTyped /\ UnheardIsHeld /\ HeldIsUnheard /\ ButtonIsTrue

USE DirewolfAssumption DEF Pids

\* At first there is no process.
LEMMA ProcessBegins == Init => ProcessInv
<1> SUFFICES ASSUME Init PROVE ProcessInv
  OBVIOUS
<1>1. ProcessTyped
  BY DEF Init, ProcessTyped, Places
<1>2. \A p \in Pids : children[p].at \notin Unheard
  BY DEF Init, Unheard
<1>3. pid = 0 /\ state = "Stopped"
  BY DEF Init
<1>4. UnheardIsHeld
  BY <1>2 DEF UnheardIsHeld
<1>5. HeldIsUnheard
  BY <1>3 DEF HeldIsUnheard
<1>6. ButtonIsTrue
  BY <1>3 DEF ButtonIsTrue
<1>7. QED
  BY <1>1, <1>4, <1>5, <1>6 DEF ProcessInv

\* A step of process p that leaves what is held.
LEMMA PlacesChange ==
  ASSUME ProcessInv, NEW p \in Pids, NEW where \in Unheard, children[p].at \in Unheard,
         children' = [children EXCEPT ![p].at = where],
         UNCHANGED <<pid, state, config_text, file>>
  PROVE  ProcessInv'
<1>0. ProcessTyped /\ UnheardIsHeld /\ HeldIsUnheard /\ ButtonIsTrue
  BY DEF ProcessInv
<1>1. ProcessTyped'
  BY <1>0 DEF ProcessTyped, Places, Unheard
<1>2. \A q \in Pids : children'[q].text = children[q].text
                      /\ (children'[q].at \in Unheard <=> children[q].at \in Unheard)
  BY <1>0 DEF ProcessTyped
<1>3. UnheardIsHeld'
  BY <1>0, <1>2 DEF UnheardIsHeld
<1>4. HeldIsUnheard'
  BY <1>0, <1>2 DEF HeldIsUnheard
<1>5. ButtonIsTrue'
  BY <1>0 DEF ButtonIsTrue
<1>6. QED
  BY <1>1, <1>3, <1>4, <1>5 DEF ProcessInv

\* One step per action.
LEMMA ProcessStepKeeps == ProcessInv /\ [Next]_vars => ProcessInv'
<1> SUFFICES ASSUME ProcessInv, [Next]_vars PROVE ProcessInv'
  OBVIOUS
<1>0. ProcessTyped /\ UnheardIsHeld /\ HeldIsUnheard /\ ButtonIsTrue
  BY DEF ProcessInv
<1>1. CASE StartFails
  <2>1. pid = 0 /\ UNCHANGED <<pid, children, config_text>> /\ state' = "FailedToStart"
    BY <1>1 DEF StartFails, is_running
  <2>2. file' \in {file, config_text, Cut}
    BY <1>1 DEF StartFails
  <2>3. ProcessTyped'
    BY <1>0, <2>1, <2>2 DEF ProcessTyped, Cut
  <2>4. UnheardIsHeld'
    BY <1>0, <2>1 DEF UnheardIsHeld
  <2>5. HeldIsUnheard'
    BY <2>1 DEF HeldIsUnheard
  <2>6. ButtonIsTrue'
    BY <2>1 DEF ButtonIsTrue
  <2>7. QED
    BY <2>3, <2>4, <2>5, <2>6 DEF ProcessInv
<1>2. ASSUME NEW p \in Pids, StartSucceeds(p) PROVE ProcessInv'
  <2>1. pid = 0
    BY <1>2 DEF StartSucceeds, is_running
  <2>2. pid' = p /\ state' = "Running" /\ file' = config_text /\ config_text' = config_text
    BY <1>2 DEF StartSucceeds
  <2>3. children' = [children EXCEPT ![p] = [at |-> "running", text |-> config_text]]
    BY <1>2 DEF StartSucceeds
  <2>4. \A q \in Pids : children[q].at \notin Unheard
    BY <1>0, <2>1 DEF UnheardIsHeld
  <2>5. ProcessTyped'
    BY <1>0, <2>2, <2>3 DEF ProcessTyped, Places
  <2>6. UnheardIsHeld'
    BY <1>0, <2>2, <2>3, <2>4 DEF ProcessTyped, UnheardIsHeld
  <2>7. HeldIsUnheard'
    BY <1>0, <2>2, <2>3 DEF ProcessTyped, HeldIsUnheard, Unheard
  <2>8. ButtonIsTrue'
    BY <2>2 DEF ButtonIsTrue
  <2>9. QED
    BY <2>5, <2>6, <2>7, <2>8 DEF ProcessInv
<1>3. CASE Stop
  <2>1. pid \in Pids /\ children[pid].at \in Unheard
    BY <1>0, <1>3 DEF ProcessTyped, HeldIsUnheard, Stop, is_running
  <2>2. UNCHANGED <<pid, state, config_text, file>>
    BY <1>3 DEF Stop, StillHeld
  <2>3. CASE children' = children
    BY <1>0, <2>2, <2>3 DEF ProcessInv, ProcessTyped, UnheardIsHeld, HeldIsUnheard, ButtonIsTrue
  <2>4. CASE children' = [children EXCEPT ![pid].at = "told to stop"]
    BY <2>1, <2>2, <2>4, PlacesChange DEF Unheard
  <2>5. QED
    BY <1>3, <2>3, <2>4 DEF Stop, At
<1>4. ASSUME NEW p \in Pids, Exits(p) \/ WaitReturns(p) PROVE ProcessInv'
  <2>1. children[p].at \in Unheard /\ UNCHANGED <<pid, state, config_text, file>>
    BY <1>4 DEF Exits, WaitReturns, Alive, Unheard
  <2>2. PICK where \in Unheard : children' = [children EXCEPT ![p].at = where]
    BY <1>4 DEF Exits, WaitReturns, At, Unheard
  <2>3. QED
    BY <2>1, <2>2, PlacesChange
<1>5. ASSUME NEW p \in Pids, HandleExit(p) PROVE ProcessInv'
  <2>1. children[p].at \in Unheard
    BY <1>5 DEF HandleExit, Unheard
  <2>2. children' = [children EXCEPT ![p].at = "gone"]
    BY <1>5 DEF HandleExit, At
  <2>3. pid' = 0 /\ state' = "Stopped" /\ UNCHANGED <<config_text, file>>
    BY <1>5 DEF HandleExit
  <2>4. ProcessTyped'
    BY <1>0, <2>2, <2>3 DEF ProcessTyped, Places
  <2>5. \A q \in Pids \ {p} : children[q].at \notin Unheard
    BY <1>0, <2>1 DEF UnheardIsHeld
  <2>6. \A q \in Pids : children'[q].at \notin Unheard
    BY <1>0, <2>2, <2>5 DEF ProcessTyped, Unheard
  <2>7. UnheardIsHeld'
    BY <2>6 DEF UnheardIsHeld
  <2>8. HeldIsUnheard'
    BY <2>3 DEF HeldIsUnheard
  <2>9. ButtonIsTrue'
    BY <2>3 DEF ButtonIsTrue
  <2>10. QED
    BY <2>4, <2>7, <2>8, <2>9 DEF ProcessInv
<1>6. CASE SaveSettings
  <2>1. UNCHANGED <<pid, state, children, file>> /\ config_text' = config_text + 1
    BY <1>6 DEF SaveSettings
  <2>2. ProcessTyped'
    BY <1>0, <2>1 DEF ProcessTyped
  <2>3. UnheardIsHeld' /\ HeldIsUnheard' /\ ButtonIsTrue'
    BY <1>0, <2>1 DEF UnheardIsHeld, HeldIsUnheard, ButtonIsTrue
  <2>4. QED
    BY <2>2, <2>3 DEF ProcessInv
<1>7. CASE UNCHANGED vars
  BY <1>0, <1>7 DEF vars, ProcessInv, ProcessTyped, UnheardIsHeld, HeldIsUnheard, ButtonIsTrue
<1>8. QED
  BY <1>1, <1>2, <1>3, <1>4, <1>5, <1>6, <1>7 DEF Next

\* One that runs is one whose end was not heard of.
LEMMA ProcessIsHeld == ProcessInv => RunningIsHeld
<1> SUFFICES ASSUME ProcessInv PROVE RunningIsHeld
  OBVIOUS
<1>0. ProcessTyped /\ UnheardIsHeld /\ HeldIsUnheard /\ ButtonIsTrue
  BY DEF ProcessInv
<1>1. \A p \in Started : Alive(p) => pid = p
  BY <1>0 DEF Started, Alive, UnheardIsHeld, Unheard
<1>2. (state = "Running") = is_running
  BY <1>0 DEF ButtonIsTrue, is_running
<1>3. is_running => children[pid].text = file
  BY <1>0 DEF ProcessTyped, HeldIsUnheard, is_running
<1>4. QED
  BY <1>1, <1>2, <1>3 DEF RunningIsHeld

\* However starts, stops, exits and their late news interleave, the Direwolf
\* that lives is the one the button stops, and runs with the file as it is
\* (direwolf.rs:149, 184).
THEOREM OneDirewolfIsHeld == Spec => []RunningIsHeld
<1>1. ProcessInv /\ [Next]_vars => ProcessInv'
  BY ProcessStepKeeps
<1>2. QED
  BY ProcessBegins, <1>1, ProcessIsHeld, PTL DEF Spec
=============================================================================
