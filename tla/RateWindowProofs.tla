-------------------------- MODULE RateWindowProofs --------------------------
(***************************************************************************)
(* The rate cap, proved for any number of searches, any window and any     *)
(* cap: every search that counts holds its slot in the deque, so no slot   *)
(* is granted while rate_cap searches count.  The deque need not be sorted *)
(* for this.                                                               *)
(***************************************************************************)
EXTENDS RateWindow, FiniteSetTheorems, SequenceTheorems, WellFoundedInduction, TLAPS

-----------------------------------------------------------------------------
(* Counting the entries of a deque *)

\* The places of a list that hold a member of T.
PlacesIn(list, T) == {n \in DOMAIN list : list[n] \in T}

LEMMA PlacesFinite ==
    ASSUME NEW S, NEW list \in Seq(S), NEW T
    PROVE  IsFiniteSet(PlacesIn(list, T)) /\ Cardinality(PlacesIn(list, T)) \in Nat
           /\ Cardinality(PlacesIn(list, T)) <= Len(list)
<1>1. IsFiniteSet(1..Len(list)) /\ Cardinality(1..Len(list)) = Len(list)
  <2>1. /\ IsFiniteSet(1..Len(list))
        /\ Cardinality(1..Len(list)) = IF 1 > Len(list) THEN 0 ELSE Len(list) - 1 + 1
    BY FS_Interval
  <2> QED
    BY <2>1
<1>2. PlacesIn(list, T) \in SUBSET (1..Len(list))
  BY DEF PlacesIn
<1>3. /\ IsFiniteSet(PlacesIn(list, T))
      /\ Cardinality(PlacesIn(list, T)) <= Cardinality(1..Len(list))
  BY <1>1, <1>2, FS_Subset
<1> QED
  BY <1>1, <1>3, FS_CardinalityType

\* A nonempty set of natural numbers has a least one.
LEMMA Least ==
    ASSUME NEW T, T \subseteq Nat, T # {}
    PROVE  \E n \in T : \A m \in T : n <= m
<1>1. PICK n \in T : \A m \in T : <<m, n>> \notin OpToRel(<, Nat)
  BY NatLessThanWellFounded, WFMin
<1>2. ASSUME NEW m \in T PROVE n <= m
  <2>1. <<m, n>> \in Nat \X Nat /\ ~(m < n)
    BY <1>1 DEF OpToRel
  <2> QED
    BY <2>1
<1> QED
  BY <1>2

\* A longer list is not emptier: what is found in one is found in the other.
LEMMA MovedPlaces ==
    ASSUME NEW S, NEW out \in Seq(S), NEW T, NEW places, NEW f \in [places -> PlacesIn(out, T)],
           \A m, n \in places : f[m] = f[n] => m = n
    PROVE  Cardinality(places) <= Cardinality(PlacesIn(out, T))
<1>1. f \in Injection(places, PlacesIn(out, T))
  BY DEF Injection, IsInjective
<1> QED
  BY <1>1, PlacesFinite, FS_Injection

\* Entries outside T leave from the left.
LEMMA LeftLeaves ==
    ASSUME NEW S, NEW list \in Seq(S), NEW n \in 0..Len(list), NEW T,
           \A m \in 1..n : list[m] \notin T
    PROVE  /\ SubSeq(list, n + 1, Len(list)) \in Seq(S)
           /\ Cardinality(PlacesIn(list, T)) <= Cardinality(PlacesIn(SubSeq(list, n + 1, Len(list)), T))
<1> DEFINE out == SubSeq(list, n + 1, Len(list))
<1>1. out \in Seq(S) /\ Len(out) = Len(list) - n /\ \A m \in 1..(Len(list) - n) : out[m] = list[m + n]
  OBVIOUS
<1> HIDE DEF out
<1>2. ASSUME NEW m \in PlacesIn(list, T) PROVE m - n \in PlacesIn(out, T) /\ m \in Int
  <2>1. m \in 1..Len(list) /\ list[m] \in T
    BY DEF PlacesIn
  <2>2. m - n \in 1..(Len(list) - n)
    BY <2>1
  <2>3. out[m - n] = list[m]
    BY <1>1, <2>1, <2>2
  <2> QED
    BY <1>1, <2>1, <2>2, <2>3 DEF PlacesIn
<1> DEFINE f == [m \in PlacesIn(list, T) |-> m - n]
<1>3. f \in [PlacesIn(list, T) -> PlacesIn(out, T)]
  BY <1>2
<1>4. \A m, k \in PlacesIn(list, T) : f[m] = f[k] => m = k
  BY <1>2
<1> HIDE DEF f
<1>5. Cardinality(PlacesIn(list, T)) <= Cardinality(PlacesIn(out, T))
  BY <1>1, <1>3, <1>4, MovedPlaces
<1> QED
  BY <1>1, <1>5 DEF out

\* The second of two joined lists.
LEMMA PlacesBehind ==
    ASSUME NEW S, NEW one \in Seq(S), NEW two \in Seq(S), NEW m \in 1..Len(two)
    PROVE  (one \o two)[m + Len(one)] = two[m]
<1>1. PICK k \in Nat, l \in Nat : k = Len(one) /\ l = Len(two)
  OBVIOUS
<1>2. \A i \in 1..(k + l) : (one \o two)[i] = IF i <= k THEN one[i] ELSE two[i - k]
  BY <1>1, ConcatProperties
<1>3. m + k \in 1..(k + l) /\ ~(m + k <= k) /\ (m + k) - k = m
  BY <1>1
<1> QED
  BY <1>1, <1>2, <1>3

\* One entry leaves.
LEMMA OneLeaves ==
    ASSUME NEW S, NEW list \in Seq(S), NEW n \in DOMAIN list, NEW T
    PROVE  LET out == SubSeq(list, 1, n - 1) \o SubSeq(list, n + 1, Len(list))
           IN  /\ out \in Seq(S)
               /\ Cardinality(PlacesIn(list, T) \ {n}) <= Cardinality(PlacesIn(out, T))
<1> DEFINE out == SubSeq(list, 1, n - 1) \o SubSeq(list, n + 1, Len(list))
           place(m) == IF m < n THEN m ELSE m - 1
           f == [m \in PlacesIn(list, T) \ {n} |-> place(m)]
<1>1. /\ out \in Seq(S) /\ Len(out) = Len(list) - 1
      /\ \A m \in 1..Len(list) : m # n => out[place(m)] = list[m]
  <2> DEFINE left  == SubSeq(list, 1, n - 1)
             right == SubSeq(list, n + 1, Len(list))
  <2>0. list \in Seq(S) /\ n \in 1..Len(list) /\ Len(list) \in Nat
    OBVIOUS
  <2>1. left \in Seq(S) /\ Len(left) = n - 1 /\ \A m \in 1..(n - 1) : left[m] = list[m]
    BY <2>0
  <2>2. right \in Seq(S) /\ Len(right) = Len(list) - n /\ \A m \in 1..(Len(list) - n) : right[m] = list[m + n]
    BY <2>0
  <2> HIDE DEF left, right
  <2>3. /\ left \o right \in Seq(S) /\ Len(left \o right) = Len(list) - 1
        /\ \A m \in 1..(n - 1) : (left \o right)[m] = left[m]
        /\ \A m \in 1..(Len(list) - n) : (left \o right)[m + (n - 1)] = right[m]
    <3>1. left \o right \in Seq(S) /\ Len(left \o right) = Len(list) - 1
      BY <2>0, <2>1, <2>2
    <3>2. ASSUME NEW m \in 1..(n - 1) PROVE (left \o right)[m] = left[m]
      BY <2>0, <2>1, <2>2, <3>1
    <3>3. ASSUME NEW m \in 1..(Len(list) - n) PROVE (left \o right)[m + (n - 1)] = right[m]
      <4>1. m \in 1..Len(right)
        BY <2>0, <2>2
      <4>2. (left \o right)[m + Len(left)] = right[m]
        BY <2>1, <2>2, <4>1, PlacesBehind
      <4> QED
        BY <2>1, <4>2
    <3> QED
      BY <3>1, <3>2, <3>3
  <2>4. ASSUME NEW m \in 1..Len(list), m # n PROVE (left \o right)[place(m)] = list[m]
    <3>1. CASE m < n
      <4>1. m \in 1..(n - 1) /\ place(m) = m
        BY <2>0, <3>1
      <4> HIDE DEF place
      <4> QED
        BY <2>1, <2>3, <4>1
    <3>2. CASE m > n
      <4>1. /\ place(m) = m - 1 /\ m - n \in 1..(Len(list) - n)
            /\ (m - n) + (n - 1) = m - 1 /\ (m - n) + n = m
        BY <2>0, <3>2
      <4> HIDE DEF place
      <4>2. PICK k \in 1..(Len(list) - n) : k = m - n
        BY <4>1
      <4>3. (left \o right)[k + (n - 1)] = right[k] /\ right[k] = list[k + n]
        BY <2>2, <2>3
      <4> QED
        BY <4>1, <4>2, <4>3
    <3>3. m < n \/ m > n
      BY <2>0, <2>4
    <3> HIDE DEF place
    <3> QED
      BY <3>1, <3>2, <3>3
  <2> QED
    BY <2>3, <2>4 DEF left, right
<1> HIDE DEF out
<1>2. ASSUME NEW m \in PlacesIn(list, T) \ {n} PROVE place(m) \in PlacesIn(out, T) /\ m \in Int
  <2>1. m \in 1..Len(list) /\ list[m] \in T /\ m # n
    BY DEF PlacesIn
  <2>2. place(m) \in 1..(Len(list) - 1)
    BY <2>1
  <2> QED
    BY <1>1, <2>1, <2>2 DEF PlacesIn
<1>3. f \in [PlacesIn(list, T) \ {n} -> PlacesIn(out, T)]
  BY <1>2
<1>4. \A m, k \in PlacesIn(list, T) \ {n} : f[m] = f[k] => m = k
  BY <1>2
<1> HIDE DEF f
<1>5. Cardinality(PlacesIn(list, T) \ {n}) <= Cardinality(PlacesIn(out, T))
  BY <1>1, <1>3, <1>4, MovedPlaces
<1> QED
  BY <1>1, <1>5 DEF out

\* One entry is added.
LEMMA OneJoins ==
    ASSUME NEW S, NEW list \in Seq(S), NEW x \in S, NEW T
    PROVE  Cardinality(PlacesIn(Append(list, x), T)) =
             Cardinality(PlacesIn(list, T)) + (IF x \in T THEN 1 ELSE 0)
<1> DEFINE last == Len(list) + 1
<1>1. /\ Append(list, x) \in Seq(S) /\ Len(Append(list, x)) = last
      /\ Append(list, x)[last] = x /\ \A n \in DOMAIN list : Append(list, x)[n] = list[n]
      /\ DOMAIN Append(list, x) = DOMAIN list \cup {last} /\ last \notin DOMAIN list
  OBVIOUS
<1> HIDE DEF last
<1>2. last \notin PlacesIn(list, T)
  BY <1>1 DEF PlacesIn
<1>3. CASE x \in T
  <2>1. PlacesIn(Append(list, x), T) = PlacesIn(list, T) \cup {last}
    BY <1>1, <1>3 DEF PlacesIn
  <2> QED
    BY <1>2, <1>3, <2>1, PlacesFinite, FS_AddElement
<1>4. CASE x \notin T
  <2>1. PlacesIn(Append(list, x), T) = PlacesIn(list, T)
    BY <1>1, <1>4 DEF PlacesIn
  <2> QED
    BY <1>4, <2>1, PlacesFinite
<1> QED
  BY <1>3, <1>4

LEMMA Bounds == MaxTime \in Nat /\ MaxSends \in Nat /\ MaxLost \in Nat
  BY BoundsAssumption

-----------------------------------------------------------------------------
(* The two operations on the deque *)

\* _prune_actions finds where to stop, and drops only stamps outside the window.
LEMMA PruningKeeps ==
    ASSUME stamps \in Seq(Times), now \in Int, NEW T \in SUBSET Times, \A t \in T : t >= now - Window
    PROVE  /\ Pruned \in Seq(Times)
           /\ Cardinality(PlacesIn(stamps, T)) <= Cardinality(PlacesIn(Pruned, T))
<1> DEFINE Stops(n) == /\ \A m \in 1..n : Outside(stamps[m])
                       /\ n < Len(stamps) => ~Outside(stamps[n + 1])
           first == {n \in 0..Len(stamps) : n = Len(stamps) \/ ~Outside(stamps[n + 1])}
           left == CHOOSE n \in 0..Len(stamps) : Stops(n)
<1>1. \E n \in 0..Len(stamps) : Stops(n)
  <2>1. first \subseteq Nat /\ Len(stamps) \in first
    OBVIOUS
  <2>2. PICK n \in first : \A m \in first : n <= m
    <3> HIDE DEF first
    <3> QED
      BY <2>1, Least
  <2>3. ASSUME NEW m \in 1..n PROVE Outside(stamps[m])
    <3>1. PICK k \in 0..Len(stamps) : k + 1 = m /\ k < n
      BY <2>2
    <3>2. k \notin first
      BY <2>2, <3>1
    <3> QED
      BY <3>1, <3>2
  <2>4. n \in 0..Len(stamps) /\ (n < Len(stamps) => ~Outside(stamps[n + 1]))
    BY <2>2
  <2> QED
    BY <2>3, <2>4
<1>2. left \in 0..Len(stamps) /\ Stops(left)
  <2> HIDE DEF Stops
  <2> QED
    BY <1>1
<1>3. Pruned = SubSeq(stamps, left + 1, Len(stamps))
  BY DEF Pruned
<1> HIDE DEF left
<1>4. \A m \in 1..left : stamps[m] \notin T
  <2> SUFFICES ASSUME NEW m \in 1..left, stamps[m] \in T PROVE FALSE
    OBVIOUS
  <2>1. stamps[m] < now - Window
    BY <1>2 DEF Outside
  <2>2. PICK t \in T : t = stamps[m]
    OBVIOUS
  <2>3. t \in Int /\ t >= now - Window
    BY Bounds DEF Times
  <2> QED
    BY <2>1, <2>2, <2>3, WindowAssumption
<1> QED
  BY <1>2, <1>3, <1>4, LeftLeaves

\* deque.remove takes one entry, an equal one, or none.
LEMMA RemovalTakesOne ==
    ASSUME stamps \in Seq(Times), NEW stamp, NEW T
    PROVE  /\ Without(stamp) \in Seq(Times)
           /\ Cardinality(PlacesIn(stamps, T)) <= Cardinality(PlacesIn(Without(stamp), T)) + (IF stamp \in T THEN 1 ELSE 0)
<1>0. /\ IsFiniteSet(PlacesIn(stamps, T)) /\ Cardinality(PlacesIn(stamps, T)) \in Nat
  BY PlacesFinite
<1>1. CASE \A n \in DOMAIN stamps : stamps[n] # stamp
  <2>1. Without(stamp) = stamps
    BY <1>1 DEF Without
  <2> QED
    BY <1>0, <2>1
<1>2. CASE \E n \in DOMAIN stamps : stamps[n] = stamp
  <2> DEFINE First(n) == stamps[n] = stamp /\ \A m \in 1..(n - 1) : stamps[m] # stamp
             equal == {n \in DOMAIN stamps : stamps[n] = stamp}
             gone == CHOOSE n \in DOMAIN stamps : First(n)
             out == SubSeq(stamps, 1, gone - 1) \o SubSeq(stamps, gone + 1, Len(stamps))
  <2>1. \E n \in DOMAIN stamps : First(n)
    <3>1. equal \subseteq Nat /\ equal # {}
      BY <1>2
    <3>2. PICK n \in equal : \A m \in equal : n <= m
      <4> HIDE DEF equal
      <4> QED
        BY <3>1, Least
    <3>3. ASSUME NEW m \in 1..(n - 1) PROVE stamps[m] # stamp
      <4>1. m \in DOMAIN stamps /\ ~(n <= m)
        BY <3>2
      <4> QED
        BY <3>2, <4>1
    <3> QED
      BY <3>2, <3>3
  <2>2. gone \in DOMAIN stamps /\ First(gone)
    <3> HIDE DEF First
    <3> QED
      BY <2>1
  <2>3. Without(stamp) = out
    BY <1>2 DEF Without
  <2> HIDE DEF gone
  <2>4. out \in Seq(Times) /\ Cardinality(PlacesIn(stamps, T) \ {gone}) <= Cardinality(PlacesIn(out, T))
    BY <2>2, OneLeaves
  <2> HIDE DEF out
  <2>5. Cardinality(PlacesIn(out, T)) \in Nat
    BY <2>4, PlacesFinite
  <2>6. gone \in PlacesIn(stamps, T) <=> stamp \in T
    BY <2>2 DEF PlacesIn
  <2>7. Cardinality(PlacesIn(stamps, T) \ {gone}) =
          IF gone \in PlacesIn(stamps, T) THEN Cardinality(PlacesIn(stamps, T)) - 1 ELSE Cardinality(PlacesIn(stamps, T))
    BY <1>0, FS_RemoveElement
  <2>8. Cardinality(PlacesIn(stamps, T)) <= Cardinality(PlacesIn(out, T)) + (IF stamp \in T THEN 1 ELSE 0)
    <3>1. Cardinality(PlacesIn(stamps, T) \ {gone}) \in Nat
      BY <1>0, FS_RemoveElement, FS_CardinalityType
    <3>2. CASE stamp \in T
      BY <1>0, <2>4, <2>5, <2>6, <2>7, <3>1, <3>2
    <3>3. CASE stamp \notin T
      BY <1>0, <2>4, <2>5, <2>6, <2>7, <3>1, <3>3
    <3> QED
      BY <3>2, <3>3
  <2> QED
    BY <2>3, <2>4, <2>8
<1> QED
  BY <1>1, <1>2

-----------------------------------------------------------------------------
(* The invariant *)

Holders(T) == {s \in Skills : token[s] \in T}
Uses(T)    == {use \in used \ lost : use.at \in T}

\* Searches are numbered as they come, and none runs without a grant.
Counted ==
    /\ IsFiniteSet(used)
    /\ \A use \in used : use.number <= Cardinality(used)
    /\ Cardinality(used) + Cardinality(Holders(Times)) <= granted

\* Whatever times within the window are asked about, the deque holds a stamp
\* for each search of them, finished or under way.  SlotsHeld asks about one
\* time, the cap about all of them at once.
SlotsCover ==
    \A T \in SUBSET Times : (\A t \in T : t >= now - Window) =>
        Cardinality(Uses(T)) + Cardinality(Holders(T)) <= Cardinality(PlacesIn(stamps, T))

WindowInv == TypeOK /\ Counted /\ SlotsCover

LEMMA HoldersFinite ==
    ASSUME NEW T PROVE IsFiniteSet(Holders(T)) /\ Cardinality(Holders(T)) \in Nat
<1>1. Holders(T) \in SUBSET Skills
  BY DEF Holders
<1> QED
  BY <1>1, SkillsAssumption, FS_Subset, FS_CardinalityType

LEMMA UsesFinite ==
    ASSUME IsFiniteSet(used), NEW T PROVE IsFiniteSet(Uses(T)) /\ Cardinality(Uses(T)) \in Nat
<1>1. Uses(T) \in SUBSET used
  BY DEF Uses
<1> QED
  BY <1>1, FS_Subset, FS_CardinalityType

\* A search takes a reservation.
LEMMA HolderJoins ==
    ASSUME token \in [Skills -> Times \cup {NoToken}], NEW s \in Skills, token[s] = NoToken,
           NEW t \in Times, token' = [token EXCEPT ![s] = t], NEW T \in SUBSET Times
    PROVE  Cardinality(Holders(T)') = Cardinality(Holders(T)) + (IF t \in T THEN 1 ELSE 0)
<1>1. s \notin Holders(T)
  BY Bounds DEF Holders, Times, NoToken
<1>2. CASE t \in T
  <2>1. Holders(T)' = Holders(T) \cup {s}
    BY <1>2 DEF Holders
  <2> QED
    BY <1>1, <1>2, <2>1, HoldersFinite, FS_AddElement
<1>3. CASE t \notin T
  <2>1. Holders(T)' = Holders(T)
    BY <1>1, <1>3 DEF Holders
  <2> QED
    BY <1>3, <2>1, HoldersFinite
<1> QED
  BY <1>2, <1>3

\* A search gives its reservation up.
LEMMA HolderLeaves ==
    ASSUME token \in [Skills -> Times \cup {NoToken}], NEW s \in Skills, token[s] # NoToken,
           Settles(s), NEW T \in SUBSET Times
    PROVE  Cardinality(Holders(T)) = Cardinality(Holders(T)') + (IF token[s] \in T THEN 1 ELSE 0)
<1>0. NoToken \notin T
  BY Bounds DEF Times, NoToken
<1>1. Holders(T)' = Holders(T) \ {s}
  BY <1>0 DEF Holders, Settles
<1>2. s \in Holders(T) <=> token[s] \in T
  BY DEF Holders
<1>3. Cardinality(Holders(T) \ {s}) = IF s \in Holders(T) THEN Cardinality(Holders(T)) - 1 ELSE Cardinality(Holders(T))
  BY HoldersFinite, FS_RemoveElement
<1>4. Cardinality(Holders(T)) \in Nat
  BY HoldersFinite
<1> QED
  BY <1>1, <1>2, <1>3, <1>4

\* A search *arr ran gets a number of its own.
LEMMA UseJoins ==
    ASSUME TypeOK, Counted, NEW t, NEW use, use = [number |-> Cardinality(used) + 1, at |-> t],
           used' = used \cup {use}
    PROVE  /\ use \notin used
           /\ IsFiniteSet(used') /\ Cardinality(used') = Cardinality(used) + 1 /\ Cardinality(used) \in Nat
           /\ \A u \in used' : u.number <= Cardinality(used')
<1>1. Cardinality(used) \in Nat
  BY FS_CardinalityType DEF Counted
<1>2. \A u \in used : u.number \in Int /\ u.number <= Cardinality(used)
  BY Bounds DEF TypeOK, Use, Counted
<1>3. use.number = Cardinality(used) + 1
  OBVIOUS
<1>4. use \notin used
  BY <1>1, <1>2, <1>3
<1>5. IsFiniteSet(used') /\ Cardinality(used') = Cardinality(used) + 1
  BY <1>4, FS_AddElement DEF Counted
<1>6. \A u \in used' : u.number <= Cardinality(used')
  BY <1>1, <1>2, <1>3, <1>5
<1> QED
  BY <1>1, <1>4, <1>5, <1>6

LEMMA WindowInit == Init => WindowInv
<1> SUFFICES ASSUME Init PROVE WindowInv
  OBVIOUS
<1>1. TypeOK
  BY Bounds DEF Init, TypeOK, Times
<1>2. \A T \in SUBSET Times : Holders(T) = {} /\ Uses(T) = {} /\ PlacesIn(stamps, T) = {}
  BY DEF Init, Holders, Uses, PlacesIn, NoToken, Times
<1>3. Cardinality({}) = 0 /\ IsFiniteSet({})
  BY FS_EmptySet
<1>4. Counted
  <2>1. Holders(Times) = {}
    BY <1>2
  <2> QED
    BY <1>3, <2>1 DEF Init, Counted
<1>5. SlotsCover
  BY <1>2, <1>3 DEF SlotsCover
<1> QED
  BY <1>1, <1>4, <1>5 DEF WindowInv

\* The part of the invariant about the deque, from what a step does to the
\* three numbers.
LEMMA CoverMoves ==
    ASSUME WindowInv, stamps' \in Seq(Times), IsFiniteSet(used'), UNCHANGED now,
           \A T \in SUBSET Times : (\A t \in T : t >= now - Window) =>
               \E n \in Int :
                   /\ Cardinality(Uses(T)') + Cardinality(Holders(T)') <= Cardinality(Uses(T)) + Cardinality(Holders(T)) + n
                   /\ Cardinality(PlacesIn(stamps, T)) + n <= Cardinality(PlacesIn(stamps', T))
    PROVE  SlotsCover'
<1> SUFFICES ASSUME NEW T \in SUBSET Times, \A t \in T : t >= now - Window
             PROVE  Cardinality(Uses(T)') + Cardinality(Holders(T)') <= Cardinality(PlacesIn(stamps', T))
  BY DEF SlotsCover, PlacesIn
<1>1. /\ Cardinality(Uses(T)) \in Nat /\ Cardinality(Holders(T)) \in Nat
      /\ Cardinality(PlacesIn(stamps, T)) \in Nat /\ Cardinality(PlacesIn(stamps', T)) \in Nat
  BY UsesFinite, HoldersFinite, PlacesFinite DEF WindowInv, Counted, TypeOK
<1>2. Cardinality(Holders(T)') \in Nat
  <2>1. Holders(T)' \in SUBSET Skills
    BY DEF Holders
  <2> QED
    BY <2>1, SkillsAssumption, FS_Subset, FS_CardinalityType
<1>3. Cardinality(Uses(T)') \in Nat
  <2>1. Uses(T)' \in SUBSET used'
    BY DEF Uses
  <2> QED
    BY <2>1, FS_Subset, FS_CardinalityType
<1>4. Cardinality(Uses(T)) + Cardinality(Holders(T)) <= Cardinality(PlacesIn(stamps, T))
  BY DEF WindowInv, SlotsCover
<1> QED
  BY <1>1, <1>2, <1>3, <1>4

\* A search that settles its reservation, with or without having run.
LEMMA Settling ==
    ASSUME WindowInv, NEW s \in Skills, token[s] # NoToken, Settles(s)
    PROVE  /\ token' \in [Skills -> Times \cup {NoToken}] /\ token[s] \in Times
           /\ Cardinality(used) + 1 <= MaxSends /\ Cardinality(used) \in Nat
           /\ Cardinality(used) + 1 + Cardinality(Holders(Times)') <= granted
           /\ Cardinality(Holders(Times)') \in Nat
<1>0. token \in [Skills -> Times \cup {NoToken}] /\ granted \in 0..MaxSends /\ granted \in Int
  BY Bounds DEF WindowInv, TypeOK
<1>1. token' \in [Skills -> Times \cup {NoToken}] /\ token[s] \in Times
  BY <1>0 DEF Settles
<1>2. Cardinality(Holders(Times)) = Cardinality(Holders(Times)') + 1
  BY <1>0, <1>1, HolderLeaves
<1>3. Cardinality(Holders(Times)') \in Nat
  <2>1. Holders(Times)' \in SUBSET Skills
    BY DEF Holders
  <2> QED
    BY <2>1, SkillsAssumption, FS_Subset, FS_CardinalityType
<1>4. Cardinality(used) \in Nat
  BY FS_CardinalityType DEF WindowInv, Counted
<1>5. Cardinality(used) + Cardinality(Holders(Times)) <= granted
  BY DEF WindowInv, Counted
<1>6. Cardinality(used) + 1 + Cardinality(Holders(Times)') <= granted
  BY <1>2, <1>3, <1>4, <1>5
<1>7. granted <= MaxSends
  BY <1>0, Bounds
<1>8. Cardinality(used) + 1 <= MaxSends
  BY <1>0, <1>3, <1>4, <1>6, <1>7, Bounds
<1> QED
  BY <1>1, <1>3, <1>4, <1>6, <1>8

\* The deque loses at most the stamp of the search that settles.
LEMMA SlotReturned ==
    ASSUME WindowInv, NEW s \in Skills, token[s] # NoToken, Settles(s), stamps' = Without(token[s]),
           UNCHANGED now, IsFiniteSet(used'), \A T \in SUBSET Times : Uses(T)' = Uses(T)
    PROVE  SlotsCover'
<1>0. stamps \in Seq(Times) /\ token \in [Skills -> Times \cup {NoToken}]
  BY DEF WindowInv, TypeOK
<1>1. stamps' \in Seq(Times)
  BY <1>0, RemovalTakesOne
<1>2. ASSUME NEW T \in SUBSET Times
      PROVE  \E n \in Int :
               /\ Cardinality(Uses(T)') + Cardinality(Holders(T)') <= Cardinality(Uses(T)) + Cardinality(Holders(T)) + n
               /\ Cardinality(PlacesIn(stamps, T)) + n <= Cardinality(PlacesIn(stamps', T))
  <2> DEFINE one == IF token[s] \in T THEN 1 ELSE 0
  <2>1. Cardinality(Holders(T)) = Cardinality(Holders(T)') + one
    BY <1>0, HolderLeaves
  <2>2. Cardinality(PlacesIn(stamps, T)) <= Cardinality(PlacesIn(stamps', T)) + one
    BY <1>0, RemovalTakesOne
  <2>3. /\ Cardinality(Uses(T)) \in Nat /\ Cardinality(Holders(T)) \in Nat
        /\ Cardinality(PlacesIn(stamps, T)) \in Nat /\ Cardinality(PlacesIn(stamps', T)) \in Nat
    BY <1>0, <1>1, UsesFinite, HoldersFinite, PlacesFinite DEF WindowInv, Counted
  <2>4. Cardinality(Holders(T)') \in Nat
    <3>1. Holders(T)' \in SUBSET Skills
      BY DEF Holders
    <3> QED
      BY <3>1, SkillsAssumption, FS_Subset, FS_CardinalityType
  <2>5. one \in Int /\ -one \in Int
    OBVIOUS
  <2>6. Uses(T)' = Uses(T)
    OBVIOUS
  <2> HIDE DEF one
  <2>7. Cardinality(Uses(T)') + Cardinality(Holders(T)') <= Cardinality(Uses(T)) + Cardinality(Holders(T)) + (-one)
    BY <2>1, <2>3, <2>4, <2>5, <2>6
  <2>8. Cardinality(PlacesIn(stamps, T)) + (-one) <= Cardinality(PlacesIn(stamps', T))
    BY <2>2, <2>3, <2>5
  <2> QED
    BY <2>5, <2>7, <2>8
<1> QED
  BY <1>1, <1>2, CoverMoves

LEMMA WindowStep == WindowInv /\ [Next]_vars => WindowInv'
<1> SUFFICES ASSUME WindowInv, [Next]_vars PROVE WindowInv'
  OBVIOUS
<1>0. /\ TypeOK /\ Counted /\ SlotsCover
      /\ stamps \in Seq(Times) /\ now \in Times /\ now \in Int /\ IsFiniteSet(used)
      /\ token \in [Skills -> Times \cup {NoToken}] /\ granted \in 0..MaxSends /\ granted \in Int
  BY Bounds DEF WindowInv, TypeOK, Counted, Times
<1>1. Pruned \in Seq(Times)
  <2>1. stamps \in Seq(Times) /\ now \in Int /\ {} \in SUBSET Times
    BY <1>0
  <2>2. \A t \in {} : t >= now - Window
    OBVIOUS
  <2> QED
    BY <2>1, <2>2, PruningKeeps
<1>2. ASSUME NEW T \in SUBSET Times, \A t \in T : t >= now - Window
      PROVE  Cardinality(PlacesIn(stamps, T)) <= Cardinality(PlacesIn(Pruned, T))
  BY <1>0, <1>2, PruningKeeps
<1>3. ASSUME NEW T
      PROVE  /\ Cardinality(Uses(T)) \in Nat /\ Cardinality(Holders(T)) \in Nat
             /\ Cardinality(PlacesIn(stamps, T)) \in Nat
  BY <1>0, UsesFinite, HoldersFinite, PlacesFinite
<1>4. CASE UNCHANGED vars
  BY <1>0, <1>4 DEF vars, WindowInv, TypeOK, Counted, SlotsCover, Holders, Uses, PlacesIn
<1>5. ASSUME stamps' = Pruned, UNCHANGED <<now, cap, token, granted, used, lost>> PROVE WindowInv'
  <2>1. TypeOK' /\ Counted'
    BY <1>0, <1>1, <1>5 DEF TypeOK, Counted, Holders
  <2>2. ASSUME NEW T PROVE Uses(T)' = Uses(T) /\ Holders(T)' = Holders(T)
    BY <1>5 DEF Uses, Holders
  <2>3. SlotsCover'
    <3> SUFFICES ASSUME NEW T \in SUBSET Times, \A t \in T : t >= now - Window
                 PROVE  \E n \in Int :
                   /\ Cardinality(Uses(T)') + Cardinality(Holders(T)') <= Cardinality(Uses(T)) + Cardinality(Holders(T)) + n
                   /\ Cardinality(PlacesIn(stamps, T)) + n <= Cardinality(PlacesIn(stamps', T))
      BY <1>0, <1>1, <1>5, CoverMoves
    <3>1. Cardinality(PlacesIn(stamps, T)) + 0 <= Cardinality(PlacesIn(stamps', T))
      BY <1>2, <1>3, <1>5
    <3>2. Cardinality(Uses(T)') + Cardinality(Holders(T)') <= Cardinality(Uses(T)) + Cardinality(Holders(T)) + 0
      BY <1>3, <2>2
    <3> QED
      BY <3>1, <3>2
  <2> QED
    BY <2>1, <2>3 DEF WindowInv
<1>6. ASSUME NEW s \in Skills, Reserve(s), Free(Pruned) PROVE WindowInv'
  <2>1. /\ token[s] = NoToken /\ token' = [token EXCEPT ![s] = now]
        /\ stamps' = Append(Pruned, now)
        /\ granted < MaxSends /\ granted' = granted + 1 /\ UNCHANGED <<now, cap, used, lost>>
    BY <1>6 DEF Reserve
  <2>2. ASSUME NEW T \in SUBSET Times
        PROVE  Cardinality(Holders(T)') = Cardinality(Holders(T)) + (IF now \in T THEN 1 ELSE 0)
    BY <1>0, <2>1, HolderJoins
  <2>3. TypeOK'
    BY <1>0, <1>1, <2>1, Bounds DEF TypeOK
  <2>4. Counted'
    <3>1. Cardinality(Holders(Times)') = Cardinality(Holders(Times)) + 1
      BY <1>0, <2>2
    <3>2. Cardinality(used) \in Nat
      BY <1>0, FS_CardinalityType
    <3> QED
      BY <1>0, <1>3, <2>1, <3>1, <3>2 DEF Counted
  <2>5. SlotsCover'
    <3> SUFFICES ASSUME NEW T \in SUBSET Times, \A t \in T : t >= now - Window
                 PROVE  \E n \in Int :
                   /\ Cardinality(Uses(T)') + Cardinality(Holders(T)') <= Cardinality(Uses(T)) + Cardinality(Holders(T)) + n
                   /\ Cardinality(PlacesIn(stamps, T)) + n <= Cardinality(PlacesIn(stamps', T))
      BY <1>0, <1>1, <2>1, <2>3, CoverMoves DEF TypeOK
    <3> DEFINE one == IF now \in T THEN 1 ELSE 0
    <3>1. Cardinality(PlacesIn(stamps', T)) = Cardinality(PlacesIn(Pruned, T)) + one
      BY <1>0, <1>1, <2>1, OneJoins
    <3>2. Cardinality(Holders(T)') = Cardinality(Holders(T)) + one
      BY <2>2
    <3>3. Uses(T)' = Uses(T)
      BY <2>1 DEF Uses
    <3>4. Cardinality(PlacesIn(Pruned, T)) \in Nat
      BY <1>1, PlacesFinite
    <3>5. one \in Int
      OBVIOUS
    <3> HIDE DEF one
    <3>6. Cardinality(PlacesIn(stamps, T)) + one <= Cardinality(PlacesIn(stamps', T))
      BY <1>2, <1>3, <3>1, <3>4, <3>5
    <3>7. Cardinality(Uses(T)') + Cardinality(Holders(T)') <= Cardinality(Uses(T)) + Cardinality(Holders(T)) + one
      BY <1>3, <3>2, <3>3, <3>5
    <3> QED
      BY <3>5, <3>6, <3>7
  <2> QED
    BY <2>3, <2>4, <2>5 DEF WindowInv
<1>7. ASSUME NEW s \in Skills, Reserve(s), ~Free(Pruned) PROVE WindowInv'
  BY <1>5, <1>7 DEF Reserve
<1>8. ASSUME NEW s \in Skills, Accepted(s) PROVE WindowInv'
  <2> DEFINE use == [number |-> Cardinality(used) + 1, at |-> token[s]]
  <2>1. /\ token[s] # NoToken /\ Settles(s) /\ used' = used \cup {use}
        /\ UNCHANGED <<now, cap, stamps, granted, lost>>
    BY <1>8 DEF Accepted
  <2>2. /\ token' \in [Skills -> Times \cup {NoToken}] /\ token[s] \in Times
        /\ Cardinality(used) + 1 <= MaxSends /\ Cardinality(used) \in Nat
        /\ Cardinality(used) + 1 + Cardinality(Holders(Times)') <= granted
    BY <2>1, Settling
  <2>3. use \in Use
    BY <2>2, Bounds DEF Use
  <2>4. /\ use \notin used
        /\ IsFiniteSet(used') /\ Cardinality(used') = Cardinality(used) + 1
        /\ \A u \in used' : u.number <= Cardinality(used')
    BY <1>0, <2>1, UseJoins
  <2>5. TypeOK' /\ Counted'
    <3>1. TypeOK'
      <4> HIDE DEF use
      <4> QED
        BY <1>0, <2>1, <2>2, <2>3 DEF TypeOK
    <3> QED
      BY <2>1, <2>2, <2>4, <3>1 DEF Counted
  <2>6. use.at = token[s]
    OBVIOUS
  <2> HIDE DEF use
  <2>7. SlotsCover'
    <3> SUFFICES ASSUME NEW T \in SUBSET Times, \A t \in T : t >= now - Window
                 PROVE  \E n \in Int :
                   /\ Cardinality(Uses(T)') + Cardinality(Holders(T)') <= Cardinality(Uses(T)) + Cardinality(Holders(T)) + n
                   /\ Cardinality(PlacesIn(stamps, T)) + n <= Cardinality(PlacesIn(stamps', T))
      BY <1>0, <2>1, <2>4, CoverMoves
    <3>1. Cardinality(Holders(T)) = Cardinality(Holders(T)') + (IF token[s] \in T THEN 1 ELSE 0)
      BY <1>0, <2>1, HolderLeaves
    <3>2. Cardinality(Uses(T)') = Cardinality(Uses(T)) + (IF token[s] \in T THEN 1 ELSE 0)
      <4>1. use \notin lost /\ use \notin Uses(T)
        BY <1>0, <2>4 DEF TypeOK, Uses
      <4>2. CASE token[s] \in T
        <5>1. Uses(T)' = Uses(T) \cup {use}
          BY <2>1, <2>6, <4>1, <4>2 DEF Uses
        <5> QED
          BY <1>0, <4>1, <4>2, <5>1, UsesFinite, FS_AddElement
      <4>3. CASE token[s] \notin T
        <5>1. Uses(T)' = Uses(T)
          BY <2>1, <2>6, <4>3 DEF Uses
        <5> QED
          BY <1>3, <4>3, <5>1
      <4> QED
        BY <4>2, <4>3
    <3>3. Cardinality(Holders(T)') \in Nat
      <4>1. Holders(T)' \in SUBSET Skills
        BY DEF Holders
      <4> QED
        BY <4>1, SkillsAssumption, FS_Subset, FS_CardinalityType
    <3>4. Cardinality(PlacesIn(stamps, T)) + 0 <= Cardinality(PlacesIn(stamps', T))
      BY <1>3, <2>1
    <3>5. Cardinality(Uses(T)') + Cardinality(Holders(T)') <= Cardinality(Uses(T)) + Cardinality(Holders(T)) + 0
      BY <1>3, <3>1, <3>2, <3>3
    <3> QED
      BY <3>4, <3>5
  <2> QED
    BY <2>5, <2>7 DEF WindowInv
<1>9. ASSUME NEW s \in Skills, Aborted(s) PROVE WindowInv'
  <2>1. /\ token[s] # NoToken /\ Settles(s)
        /\ UNCHANGED <<now, cap, stamps, granted, used, lost>>
    BY <1>9 DEF Aborted
  <2>2. /\ token' \in [Skills -> Times \cup {NoToken}]
        /\ Cardinality(used) \in Nat /\ Cardinality(Holders(Times)') \in Nat
        /\ Cardinality(used) + 1 + Cardinality(Holders(Times)') <= granted
    BY <2>1, Settling
  <2>3. TypeOK' /\ Counted'
    BY <1>0, <2>1, <2>2 DEF TypeOK, Counted
  <2>4. SlotsCover'
    <3> SUFFICES ASSUME NEW T \in SUBSET Times, \A t \in T : t >= now - Window
                 PROVE  \E n \in Int :
                   /\ Cardinality(Uses(T)') + Cardinality(Holders(T)') <= Cardinality(Uses(T)) + Cardinality(Holders(T)) + n
                   /\ Cardinality(PlacesIn(stamps, T)) + n <= Cardinality(PlacesIn(stamps', T))
      BY <1>0, <2>1, CoverMoves
    <3>1. Cardinality(Holders(T)) = Cardinality(Holders(T)') + (IF token[s] \in T THEN 1 ELSE 0)
      BY <1>0, <2>1, HolderLeaves
    <3>2. Uses(T)' = Uses(T)
      BY <2>1 DEF Uses
    <3>3. Cardinality(Holders(T)') \in Nat
      <4>1. Holders(T)' \in SUBSET Skills
        BY DEF Holders
      <4> QED
        BY <4>1, SkillsAssumption, FS_Subset, FS_CardinalityType
    <3>4. Cardinality(PlacesIn(stamps, T)) + 0 <= Cardinality(PlacesIn(stamps', T))
      BY <1>3, <2>1
    <3>5. Cardinality(Uses(T)') + Cardinality(Holders(T)') <= Cardinality(Uses(T)) + Cardinality(Holders(T)) + 0
      BY <1>3, <3>1, <3>2, <3>3
    <3> QED
      BY <3>4, <3>5
  <2> QED
    BY <2>3, <2>4 DEF WindowInv
<1>10. ASSUME NEW s \in Skills, Refused(s) PROVE WindowInv'
  <2>1. /\ token[s] # NoToken /\ Settles(s) /\ stamps' = Without(token[s])
        /\ UNCHANGED <<now, cap, granted, used, lost>>
    BY <1>10 DEF Refused
  <2>2. /\ token' \in [Skills -> Times \cup {NoToken}]
        /\ Cardinality(used) \in Nat /\ Cardinality(Holders(Times)') \in Nat
        /\ Cardinality(used) + 1 + Cardinality(Holders(Times)') <= granted
    BY <2>1, Settling
  <2>3. stamps' \in Seq(Times)
    BY <1>0, <2>1, RemovalTakesOne
  <2>4. TypeOK' /\ Counted'
    BY <1>0, <2>1, <2>2, <2>3 DEF TypeOK, Counted
  <2>5. \A T \in SUBSET Times : Uses(T)' = Uses(T)
    BY <2>1 DEF Uses
  <2>6. SlotsCover'
    BY <1>0, <2>1, <2>5, SlotReturned
  <2> QED
    BY <2>4, <2>6 DEF WindowInv
<1>11. ASSUME NEW s \in Skills, AnswerLost(s) PROVE WindowInv'
  <2> DEFINE use == [number |-> Cardinality(used) + 1, at |-> token[s]]
  <2>1. /\ token[s] # NoToken /\ Settles(s) /\ stamps' = Without(token[s])
        /\ used' = used \cup {use} /\ lost' = lost \cup {use}
        /\ UNCHANGED <<now, cap, granted>>
    BY <1>11 DEF AnswerLost
  <2>2. /\ token' \in [Skills -> Times \cup {NoToken}] /\ token[s] \in Times
        /\ Cardinality(used) + 1 <= MaxSends /\ Cardinality(used) \in Nat
        /\ Cardinality(used) + 1 + Cardinality(Holders(Times)') <= granted
    BY <2>1, Settling
  <2>3. use \in Use
    BY <2>2, Bounds DEF Use
  <2>4. /\ use \notin used
        /\ IsFiniteSet(used') /\ Cardinality(used') = Cardinality(used) + 1
        /\ \A u \in used' : u.number <= Cardinality(used')
    BY <1>0, <2>1, UseJoins
  <2> HIDE DEF use
  <2>5. stamps' \in Seq(Times)
    BY <1>0, <2>1, RemovalTakesOne
  <2>6. TypeOK'
    BY <1>0, <2>1, <2>2, <2>3, <2>5 DEF TypeOK
  <2>7. Counted'
    BY <2>1, <2>2, <2>4 DEF Counted
  <2>8. \A T \in SUBSET Times : Uses(T)' = Uses(T)
    BY <2>1, <2>4 DEF Uses
  <2>9. SlotsCover'
    BY <1>0, <2>1, <2>4, <2>8, SlotReturned
  <2> QED
    BY <2>6, <2>7, <2>9 DEF WindowInv
<1>12. CASE Tick
  <2>1. now' = now + 1 /\ now < MaxTime /\ UNCHANGED <<cap, stamps, token, granted, used, lost>>
    BY <1>12 DEF Tick
  <2>2. now' \in Times
    BY <1>0, <2>1, Bounds DEF Times
  <2>3. TypeOK' /\ Counted'
    BY <1>0, <2>1, <2>2 DEF TypeOK, Counted, Holders
  <2>4. ASSUME NEW T \in SUBSET Times, \A t \in T : t >= now' - Window PROVE \A t \in T : t >= now - Window
    BY <1>0, <2>1, <2>4, WindowAssumption, Bounds DEF Times
  <2>5. SlotsCover'
    BY <1>0, <2>1, <2>4 DEF SlotsCover, Uses, Holders, PlacesIn
  <2> QED
    BY <2>3, <2>5 DEF WindowInv
<1>13. CASE CapChanges
  <2>1. cap' \in Caps /\ UNCHANGED <<now, stamps, token, granted, used, lost>>
    BY <1>13 DEF CapChanges
  <2>2. TypeOK' /\ Counted'
    BY <1>0, <2>1 DEF TypeOK, Counted, Holders
  <2>3. SlotsCover'
    BY <1>0, <2>1 DEF SlotsCover, Uses, Holders, PlacesIn
  <2> QED
    BY <2>2, <2>3 DEF WindowInv
<1>14. CASE Shown
  BY <1>5, <1>14 DEF Shown
<1> QED
  BY <1>4, <1>6, <1>7, <1>8, <1>9, <1>10, <1>11, <1>12, <1>13, <1>14 DEF Next

-----------------------------------------------------------------------------
(* What follows *)

\* TypeOK: cap, clock, deque, reservations and searches are what their types
\* say, for any number of skills and any length of the window.
THEOREM TypesHold == Spec => []TypeOK
<1>1. WindowInv => TypeOK
  BY DEF WindowInv
<1> QED
  BY <1>1, WindowInit, WindowStep, PTL DEF Spec

\* SlotsHeld: every search that counts holds its slot in the deque.
THEOREM EverySlotHeld == Spec => []SlotsHeld
<1>1. WindowInv => SlotsHeld
  <2> SUFFICES ASSUME WindowInv, NEW t \in Times, t >= now - Window
               PROVE  Cardinality({n \in DOMAIN stamps : stamps[n] = t}) >=
                        Cardinality({use \in used \ lost : use.at = t}) + Cardinality({s \in Skills : token[s] = t})
    BY DEF SlotsHeld
  <2>1. Cardinality(Uses({t})) + Cardinality(Holders({t})) <= Cardinality(PlacesIn(stamps, {t}))
    BY DEF WindowInv, SlotsCover
  <2>2. /\ {n \in DOMAIN stamps : stamps[n] = t} = PlacesIn(stamps, {t})
        /\ {use \in used \ lost : use.at = t} = Uses({t})
        /\ {s \in Skills : token[s] = t} = Holders({t})
    BY DEF PlacesIn, Uses, Holders
  <2>3. /\ Cardinality(Uses({t})) \in Nat /\ Cardinality(Holders({t})) \in Nat
        /\ Cardinality(PlacesIn(stamps, {t})) \in Nat
    BY UsesFinite, HoldersFinite, PlacesFinite DEF WindowInv, Counted, TypeOK
  <2> QED
    BY <2>1, <2>2, <2>3
<1> QED
  BY <1>1, WindowInit, WindowStep, PTL DEF Spec

\* CapKept: a slot is granted only while fewer searches count than the cap
\* allows, those whose answer was lost aside.
THEOREM CapIsKept == Spec => CapKept
<1>1. WindowInv /\ [Next]_vars => [\A s \in Skills : Grants(s) => Counting < cap + Cardinality(lost)]_vars
  <2> SUFFICES ASSUME WindowInv, NEW s \in Skills, Grants(s) PROVE Counting < cap + Cardinality(lost)
    OBVIOUS
  <2> DEFINE T == {t \in Times : t >= now - Window}
  <2>0. /\ stamps \in Seq(Times) /\ now \in Int /\ cap \in Int /\ IsFiniteSet(used) /\ lost \subseteq used
        /\ used \subseteq Use /\ token \in [Skills -> Times \cup {NoToken}]
    BY CapsAssumption, Bounds DEF WindowInv, TypeOK, Counted, Times
  <2>1. Len(Pruned) < cap
    BY DEF Grants, Reserve, Free
  <2>2. Cardinality(PlacesIn(stamps, T)) <= Cardinality(PlacesIn(Pruned, T)) /\ Pruned \in Seq(Times)
    BY <2>0, PruningKeeps
  <2>3. Cardinality(PlacesIn(Pruned, T)) <= Len(Pruned) /\ Cardinality(PlacesIn(Pruned, T)) \in Nat
    BY <2>2, PlacesFinite
  <2>4. Cardinality(Uses(T)) + Cardinality(Holders(T)) <= Cardinality(PlacesIn(stamps, T))
    BY DEF WindowInv, SlotsCover
  <2>5. Holding(IF now > Window THEN now - Window ELSE 0) = Holders(T)
    BY <2>0, WindowAssumption, Bounds DEF Holding, Holders, Times, NoToken
  <2>6. /\ Cardinality(Since(now - Window)) <= Cardinality(Uses(T)) + Cardinality(lost)
        /\ Cardinality(Since(now - Window)) \in Nat /\ Cardinality(lost) \in Nat
    <3>1. IsFiniteSet(lost) /\ IsFiniteSet(Uses(T))
      BY <2>0, UsesFinite, FS_Subset
    <3>2. Since(now - Window) \in SUBSET (Uses(T) \cup lost)
      BY <2>0 DEF Since, Uses, Use
    <3>3. /\ IsFiniteSet(Uses(T) \cup lost)
          /\ Cardinality(Uses(T) \cup lost) <= Cardinality(Uses(T)) + Cardinality(lost)
      <4>1. /\ IsFiniteSet(Uses(T) \cup lost)
            /\ Cardinality(Uses(T) \cup lost) = Cardinality(Uses(T)) + Cardinality(lost) - Cardinality(Uses(T) \cap lost)
        BY <3>1, FS_Union
      <4>2. Uses(T) \cap lost \in SUBSET lost
        OBVIOUS
      <4>3. Cardinality(Uses(T) \cap lost) \in Nat
        BY <3>1, <4>2, FS_Subset, FS_CardinalityType
      <4>4. Cardinality(Uses(T)) \in Nat /\ Cardinality(lost) \in Nat
        BY <3>1, FS_CardinalityType
      <4> QED
        BY <4>1, <4>3, <4>4
    <3>4. /\ IsFiniteSet(Since(now - Window))
          /\ Cardinality(Since(now - Window)) <= Cardinality(Uses(T) \cup lost)
      BY <3>2, <3>3, FS_Subset
    <3> QED
      BY <3>1, <3>3, <3>4, FS_CardinalityType
  <2>7. /\ Cardinality(Uses(T)) \in Nat /\ Cardinality(Holders(T)) \in Nat
        /\ Cardinality(PlacesIn(stamps, T)) \in Nat /\ Len(Pruned) \in Nat
    BY <2>0, <2>2, UsesFinite, HoldersFinite, PlacesFinite
  <2> HIDE DEF T
  <2> QED
    BY <2>0, <2>1, <2>2, <2>3, <2>4, <2>5, <2>6, <2>7 DEF Counting
<1> QED
  BY <1>1, WindowInit, WindowStep, PTL DEF Spec, CapKept
=============================================================================
