-------------------------- MODULE VerifyPassProofs --------------------------
(***************************************************************************)
(* What holds of the verification passes of one instance for any number of *)
(* items, any batch, any length of the hour and any number of outages,     *)
(* switches, aborts, errors and restarts: who is given up, how often       *)
(* housekeeping begins, and that nobody in the order of the passes is      *)
(* overtaken, which is what keeps an item from waiting for ever.           *)
(***************************************************************************)
EXTENDS VerifyPass, FiniteSetTheorems, SequenceTheorems, WellFoundedInduction, TLAPS

----------------------------------------------------------------------------
(* Giving up *)

\* What is late, or will be once the pass marks its answers, was heard.
HeardInv ==
    /\ pass = [pc |-> pass.pc, todo |-> pass.todo, answered |-> pass.answered]
    /\ status \in [Items -> {"unfiled", "open", "settled", "expired"}]
    /\ late \subseteq heard
    /\ pass.answered \cap old \subseteq heard
    /\ GivenUpWasHeard

\* It holds at the start ...
LEMMA HeardInit ==
    ASSUME Init
    PROVE  HeardInv
  BY DEF Init, HeardInv, NoPass, GivenUpWasHeard

\* ... and every step keeps it.
LEMMA HeardStep ==
    ASSUME HeardInv, [Next]_vars
    PROVE  HeardInv'
<1> USE DEF HeardInv, GivenUpWasHeard, NoPass, items, keeping
<1>1. CASE StartPass
  BY <1>1 DEF StartPass
<1>2. CASE Ask
  <2> DEFINE asked == Asked
  <2>1. /\ pass.pc = "ask"
        /\ UNCHANGED <<old, late>>
        /\ \/ /\ status' = [status EXCEPT ![asked] = "settled"]
              /\ pass' = [pass EXCEPT !.todo = Tail(@)]
              /\ UNCHANGED heard
           \/ /\ pass' = [pass EXCEPT !.todo = Tail(@), !.answered = @ \cup {asked}]
              /\ heard' = IF asked \in old THEN heard \cup {asked} ELSE heard
              /\ UNCHANGED status
           \/ /\ pass' = [pass EXCEPT !.todo = Tail(@)]
              /\ UNCHANGED <<status, heard>>
    BY <1>2 DEF Ask
  <2> HIDE DEF asked
  <2> QED
    BY <2>1
<1>3. CASE AskingEnds
  BY <1>3 DEF AskingEnds
<1>4. CASE MarkChecked
  BY <1>4 DEF MarkChecked
<1>5. CASE ExpireStaleItems
  BY <1>5 DEF ExpireStaleItems, Open
<1>6. CASE AgentClaims \/ AgentSwept \/ PassFails
  BY <1>6 DEF AgentClaims, AgentSwept, PassFails
<1>7. CASE AppClaims \/ AppRefused \/ AppSwept
  BY <1>7 DEF AppClaims, AppRefused, AppSwept
<1>8. CASE FileItem
  BY <1>8 DEF FileItem
<1>9. ASSUME NEW i \in Items, Ages(i)
      PROVE  HeardInv'
  BY <1>9 DEF Ages, Open
<1>10. CASE ArrGoesDown \/ ArrComesBack \/ Switch \/ Restart \/ Tick \/ UNCHANGED vars
  BY <1>10 DEF ArrGoesDown, ArrComesBack, Switch, Restart, Tick, vars
<1> HIDE DEF HeardInv
<1> QED
  BY <1>1, <1>2, <1>3, <1>4, <1>5, <1>6, <1>7, <1>8, <1>9, <1>10, Zenon DEF Next, PassStep

\* No item is given up that *arr was not heard about past its 24 hours
\* (expire_stale_items), whatever outages, switches and restarts there are.
THEOREM HeardBeforeGivenUp == Spec => []GivenUpWasHeard
<1>1. HeardInv => GivenUpWasHeard
  BY DEF HeardInv
<1> QED
  BY <1>1, HeardInit, HeardStep, PTL DEF Spec

----------------------------------------------------------------------------
(* Housekeeping *)

\* Two hours, and one more for each round that was given up.
LEMMA HoursMissed ==
    ASSUME NEW n \in Nat
    PROVE  /\ (2 + n) * Hour \in Nat
           /\ 2 * Hour <= (2 + n) * Hour
           /\ (2 + (n + 1)) * Hour = (2 + n) * Hour + Hour
<1>1. Hour \in Nat
  BY LimitsAssumption
<1>2. PICK extra : extra = n * Hour
  OBVIOUS
<1>3. extra \in Nat
  BY <1>1, <1>2
<1>4. (2 + n) * Hour = 2 * Hour + extra
  BY <1>1, <1>2
<1>5. (2 + (n + 1)) * Hour = 3 * Hour + extra
  BY <1>1, <1>2
<1> QED
  BY <1>1, <1>3, <1>4, <1>5

\* The time since housekeeping last began is bounded by what is left until the
\* orchestrator's next round and by the rounds given up since, and who keeps
\* house used up the hour.
KeepingInv ==
    /\ {since, loop} \subseteq 0 .. Hour /\ gap \in Nat /\ missed \in Nat
    /\ gap + loop < (2 + missed) * Hour
    /\ since < Hour => gap = since
    /\ sweepers # {} => since = 0
    /\ \A who, other \in sweepers : who = other

\* It holds at the start ...
LEMMA KeepingInit ==
    ASSUME Init
    PROVE  KeepingInv
<1>1. gap = 0 /\ loop \in 0 .. Hour /\ missed = 0 /\ since = Hour /\ sweepers = {}
  BY DEF Init
<1>2. (2 + missed) * Hour = 2 * Hour
  BY <1>1, LimitsAssumption
<1> QED
  BY <1>1, <1>2, LimitsAssumption DEF KeepingInv

\* Claiming keeps it, and so does being turned away by the throttle.
LEMMA ClaimKeeps ==
    ASSUME KeepingInv, NEW sweeper, Claim(sweeper), NEW left \in {loop, Hour}
    PROVE  loop' = left => KeepingInv'
<1>1. PICK limit : limit = (2 + missed) * Hour
  OBVIOUS
<1>2. Hour \in Nat \ {0} /\ limit \in Nat /\ 2 * Hour <= limit
  BY <1>1, LimitsAssumption, HoursMissed DEF KeepingInv
<1>3. /\ since \in 0 .. Hour /\ loop \in 0 .. Hour /\ gap \in Nat /\ missed \in Nat
      /\ since < Hour => gap = since
      /\ sweepers # {} => since = 0
      /\ \A one, other \in sweepers : one = other
  BY DEF KeepingInv
<1>4. left \in 0 .. Hour
  BY <1>2, <1>3
<1>5. CASE since < Hour
  <2>1. UNCHANGED <<since, sweepers, gap, missed>>
    BY <1>5 DEF Claim
  <2>2. gap + left < limit
    BY <1>2, <1>3, <1>4, <1>5
  <2> QED
    BY <1>1, <1>3, <1>4, <2>1, <2>2, Zenon DEF KeepingInv
<1>6. CASE ~(since < Hour)
  <2>1. since' = 0 /\ gap' = 0 /\ missed' = 0 /\ sweepers' = sweepers \cup {sweeper}
    BY <1>6 DEF Claim
  <2>2. sweepers = {}
    BY <1>2, <1>3, <1>6
  <2>3. 0 + left < (2 + 0) * Hour /\ 0 \in 0 .. Hour /\ 0 \in Nat
    BY <1>2, <1>4
  <2> QED
    BY <1>4, <2>1, <2>2, <2>3, Zenon DEF KeepingInv
<1> QED
  BY <1>5, <1>6

\* ... and every step keeps it.
LEMMA KeepingStep ==
    ASSUME KeepingInv, [Next]_vars
    PROVE  KeepingInv'
<1> USE DEF KeepingInv, items, keeping
<1>h. Hour \in Nat \ {0} /\ MaxFaults \in Nat
  BY SizesAssumption, LimitsAssumption
<1>l. PICK limit : limit = (2 + missed) * Hour
  OBVIOUS
<1>m. limit \in Nat /\ 2 * Hour <= limit
  BY <1>l, HoursMissed
<1>1. CASE StartPass \/ Ask \/ AskingEnds \/ MarkChecked \/ ExpireStaleItems \/ PassFails
  BY <1>1 DEF StartPass, Ask, AskingEnds, MarkChecked, ExpireStaleItems, PassFails
<1>2. CASE AgentClaims
  <2>1. Claim("agent") /\ loop' = loop
    BY <1>2 DEF AgentClaims
  <2> QED
    BY <2>1, ClaimKeeps
<1>3. CASE AgentSwept
  BY <1>3 DEF AgentSwept
<1>4. CASE AppClaims
  <2>1. Claim("app") /\ loop = 0 /\ loop' = Hour
    BY <1>4 DEF AppClaims
  <2> QED
    BY <2>1, ClaimKeeps
<1>5. CASE AppSwept
  BY <1>5 DEF AppSwept
<1>6. CASE AppRefused
  <2>1. loop = 0 /\ loop' = Hour /\ missed' = missed + 1 /\ UNCHANGED <<since, sweepers, gap>>
    BY <1>6 DEF AppRefused
  <2>2. (2 + missed') * Hour = limit + Hour
    BY <1>l, <2>1, HoursMissed
  <2>3. gap + loop' < limit + Hour
    BY <1>h, <1>l, <1>m, <2>1
  <2> QED
    BY <1>h, <2>1, <2>2, <2>3
<1>7. CASE FileItem \/ \E i \in Items : Ages(i)
  BY <1>7 DEF FileItem, Ages
<1>8. CASE ArrGoesDown \/ ArrComesBack \/ Switch
  BY <1>8 DEF ArrGoesDown, ArrComesBack, Switch
<1>9. CASE Restart
  <2>1. since' = Hour /\ sweepers' = {} /\ loop' = 0 /\ UNCHANGED <<gap, missed>>
    BY <1>9 DEF Restart
  <2>2. (2 + missed') * Hour = limit
    BY <1>l, <2>1
  <2>3. gap + loop' < limit
    BY <1>h, <1>l, <1>m, <2>1
  <2> QED
    BY <1>h, <2>1, <2>2, <2>3
<1>10. CASE Tick
  <2>1. /\ loop > 0 /\ loop' = loop - 1 /\ sweepers = {} /\ UNCHANGED <<sweepers, missed>>
        /\ since' = IF since < Hour THEN since + 1 ELSE since
        /\ gap' = IF gap < (2 + MaxFaults) * Hour THEN gap + 1 ELSE gap
    BY <1>10 DEF Tick
  <2>2. (2 + missed') * Hour = limit
    BY <1>l, <2>1
  <2>3. gap' \in {gap, gap + 1} /\ (gap < 2 * Hour => gap' = gap + 1)
    BY <1>h, <2>1, HoursMissed
  <2>4. gap' + loop' < limit
    BY <1>h, <1>l, <1>m, <2>1, <2>3
  <2>5. since' < Hour => gap' = since'
    BY <1>h, <2>1, <2>3
  <2> QED
    BY <1>h, <2>1, <2>2, <2>3, <2>4, <2>5
<1>11. CASE UNCHANGED vars
  BY <1>11 DEF vars
<1> HIDE DEF KeepingInv
<1> QED
  BY <1>1, <1>2, <1>3, <1>4, <1>5, <1>6, <1>7, <1>8, <1>9, <1>10, <1>11, Zenon DEF Next, PassStep

\* Housekeeping of an instance begins within two hours, one more for each of the
\* orchestrator's rounds that could not read the instances, wherever the hours of
\* agent and orchestrator begin, and the two never do it at once
\* (_last_housekeeping, Orchestrator.housekeeping).
THEOREM HousekeepingIsKept == Spec => []HousekeepingGoesOn
<1>1. KeepingInv => HousekeepingGoesOn
  <2>1. ASSUME KeepingInv PROVE gap < (2 + missed) * Hour
    <3>1. (2 + missed) * Hour \in Nat
      BY <2>1, HoursMissed DEF KeepingInv
    <3> QED
      BY <2>1, <3>1, LimitsAssumption DEF KeepingInv
  <2>2. KeepingInv => sweepers # {"agent", "app"}
    <3>1. "agent" \in {"agent", "app"} /\ "app" \in {"agent", "app"} /\ "agent" # "app"
      OBVIOUS
    <3> QED
      BY <3>1, Zenon DEF KeepingInv
  <2> QED
    BY <2>1, <2>2 DEF HousekeepingGoesOn
<1> QED
  BY <1>1, KeepingInit, KeepingStep, PTL DEF Spec

----------------------------------------------------------------------------
(* Ordered lists *)

Rising(seq) == \A m, n \in DOMAIN seq : m < n => seq[m] < seq[n]

\* A nonempty set of natural numbers has a least one.
LEMMA Least ==
    ASSUME NEW T, T \subseteq Nat, T # {}
    PROVE  \E n \in T : \A m \in T : n <= m
<1>1. PICK n \in T : \A m \in T : <<m, n>> \notin OpToRel(<, Nat)
  BY NatLessThanWellFounded, WFMin
<1>2. ASSUME NEW m \in T PROVE n <= m
  <2>1. <<m, n>> \in Nat \X Nat /\ ~(m < n)
    BY <1>1 DEF OpToRel
  <2> QED
    BY <2>1
<1> QED
  BY <1>2

\* The least number in front of the ordered rest.
LEMMA Prepended ==
    ASSUME NEW T, T \subseteq Nat, NEW e \in T, \A m \in T : e <= m,
           NEW size \in Nat, NEW rest \in [1 .. size -> T \ {e}], Rising(rest)
    PROVE  \E seq \in [1 .. (size + 1) -> T] : Rising(seq)
<1>1. PICK seq : seq = [n \in 1 .. (size + 1) |-> IF n = 1 THEN e ELSE rest[n - 1]]
  OBVIOUS
<1>2. seq \in [1 .. (size + 1) -> T]
  <2>1. ASSUME NEW n \in 1 .. (size + 1), n # 1 PROVE rest[n - 1] \in T
    BY <2>1
  <2> QED
    BY <1>1, <2>1
<1>3. ASSUME NEW m \in DOMAIN seq, NEW n \in DOMAIN seq, m < n
      PROVE  seq[m] < seq[n]
  <2>1. m \in 1 .. (size + 1) /\ n \in 1 .. (size + 1)
    BY <1>1, <1>3
  <2>2. n - 1 \in 1 .. size /\ seq[n] = rest[n - 1]
    BY <1>1, <1>3, <2>1
  <2>3. rest[n - 1] \in T \ {e}
    BY <2>2
  <2>4. CASE m = 1
    <3>1. seq[m] = e
      BY <1>1, <2>1, <2>4
    <3>2. e <= rest[n - 1] /\ e # rest[n - 1] /\ e \in Nat /\ rest[n - 1] \in Nat
      BY <2>3
    <3> QED
      BY <2>2, <3>1, <3>2
  <2>5. CASE m # 1
    <3>1. m - 1 \in 1 .. size /\ seq[m] = rest[m - 1] /\ m - 1 < n - 1
      BY <1>1, <1>3, <2>1, <2>5
    <3> QED
      BY <2>2, <3>1 DEF Rising
  <2> QED
    BY <2>4, <2>5
<1> QED
  BY <1>2, <1>3 DEF Rising

\* Every finite set of natural numbers can be listed in order.
LEMMA Listable ==
    ASSUME NEW S, S \subseteq Nat, IsFiniteSet(S)
    PROVE  \E seq \in [1 .. Cardinality(S) -> S] : Rising(seq)
<1> DEFINE Good(T) == \E seq \in [1 .. Cardinality(T) -> T] : Rising(seq)
           Bad == {T \in FiniteSubsetsOf(S) : ~Good(T)}
<1>1. SUFFICES ASSUME Bad # {} PROVE FALSE
  BY DEF FiniteSubsetsOf
<1>2. PICK T \in Bad : \A U \in Bad : <<U, T>> \notin StrictSubsetOrdering(S)
  <2>1. IsWellFoundedOn(StrictSubsetOrdering(S), FiniteSubsetsOf(S))
    BY FS_StrictSubsetOrderingWellFounded
  <2>2. Bad \subseteq FiniteSubsetsOf(S)
    OBVIOUS
  <2> HIDE DEF Bad
  <2> QED
    BY <1>1, <2>1, <2>2, WFMin
<1>3. T \subseteq S /\ T \subseteq Nat /\ IsFiniteSet(T) /\ ~Good(T) /\ Cardinality(T) \in Nat
  BY <1>2, FS_CardinalityType DEF FiniteSubsetsOf
<1>4. T # {}
  <2>1. SUFFICES ASSUME T = {} PROVE Good(T)
    BY <1>3
  <2>2. Cardinality(T) = 0
    BY <2>1, FS_EmptySet
  <2>3. PICK seq : seq = [n \in 1 .. 0 |-> 0]
    OBVIOUS
  <2>4. seq \in [1 .. Cardinality(T) -> T] /\ Rising(seq)
    BY <2>2, <2>3 DEF Rising
  <2> QED
    BY <2>4
<1>5. PICK e \in T : \A m \in T : e <= m
  BY <1>3, <1>4, Least
<1>6. PICK U : U = T \ {e}
  OBVIOUS
<1>7. IsFiniteSet(U) /\ Cardinality(U) = Cardinality(T) - 1 /\ Cardinality(U) \in Nat
  BY <1>3, <1>5, <1>6, FS_RemoveElement, FS_CardinalityType
<1>8. U \in FiniteSubsetsOf(S) /\ <<U, T>> \in StrictSubsetOrdering(S)
  BY <1>3, <1>5, <1>6, <1>7 DEF FiniteSubsetsOf, StrictSubsetOrdering
<1>9. Good(U)
  BY <1>2, <1>8
<1>10. PICK rest \in [1 .. Cardinality(U) -> T \ {e}] : Rising(rest)
  BY <1>6, <1>9
<1>11. \E seq \in [1 .. (Cardinality(U) + 1) -> T] : Rising(seq)
  BY <1>3, <1>5, <1>7, <1>10, Prepended
<1>12. Cardinality(U) + 1 = Cardinality(T)
  BY <1>3, <1>7
<1> QED
  BY <1>3, <1>11, <1>12

\* ById lists the set, each member once, in order.
LEMMA ByIdLists ==
    ASSUME NEW S, S \subseteq Nat, IsFiniteSet(S)
    PROVE  /\ ById(S) \in Seq(S)
           /\ ToSet(ById(S)) = S
           /\ IsInjective(ById(S))
           /\ Rising(ById(S))
<1>1. PICK seq : seq = ById(S)
  OBVIOUS
<1>2. PICK size \in Nat : size = Cardinality(S)
  BY FS_CardinalityType
<1>3. seq \in [1 .. size -> S] /\ Rising(seq)
  BY <1>1, <1>2, Listable, Zenon DEF ById, Rising
<1>4. \A m, n \in 1 .. size : seq[m] = seq[n] => m = n
  <2>1. \A m, n \in 1 .. size : m < n => seq[m] < seq[n]
    BY <1>3 DEF Rising
  <2>2. ASSUME NEW m \in 1 .. size, NEW n \in 1 .. size, seq[m] = seq[n]
        PROVE  m = n
    <3>1. seq[m] \in Nat /\ seq[n] \in Nat
      BY <1>3
    <3> QED
      BY <2>1, <2>2, <3>1
  <2> QED
    BY <2>2
<1>5. seq \in Seq(S)
  BY <1>3, SeqDef
<1>6. ToSet(seq) = S
  <2>1. PICK range : range = {seq[n] : n \in 1 .. size}
    OBVIOUS
  <2>2. range \subseteq S /\ seq \in Injection(1 .. size, range)
    BY <1>3, <1>4, <2>1 DEF Injection, IsInjective
  <2>3. IsFiniteSet(range)
    BY <2>2, FS_Subset
  <2>4. IsFiniteSet(1 .. size) /\ Cardinality(1 .. size) = size
    BY FS_Interval
  <2>5. Cardinality(1 .. size) <= Cardinality(range)
    BY <2>2, <2>3, FS_Injection
  <2>6. Cardinality(range) <= Cardinality(S) /\ (Cardinality(S) = Cardinality(range) => S = range)
    BY <2>2, FS_Subset
  <2>7. Cardinality(range) \in Nat
    BY <2>3, FS_CardinalityType
  <2>8. S = range
    BY <1>2, <2>4, <2>5, <2>6, <2>7
  <2> QED
    BY <1>3, <2>1, <2>8 DEF ToSet
<1> QED
  BY <1>1, <1>3, <1>4, <1>5, <1>6 DEF IsInjective

\* Whoever leaves the line, the others stay in their order.
LEMMA LineWithout ==
    ASSUME NEW S, line \in Seq(Items), IsInjective(line)
    PROVE  /\ Without(S) \in Seq(Items)
           /\ IsInjective(Without(S))
           /\ ToSet(Without(S)) = ToSet(line) \ S
           /\ \A i, j \in Items : Follows(Without(S), i, j) => Follows(line, i, j)
<1>1. PICK stay : stay = {n \in DOMAIN line : line[n] \notin S}
  OBVIOUS
<1>2. DOMAIN line = 1 .. Len(line) /\ Len(line) \in Nat /\ \A n \in DOMAIN line : line[n] \in Items
  OBVIOUS
<1>3. stay \subseteq DOMAIN line /\ stay \subseteq Nat /\ IsFiniteSet(stay)
  <2>1. IsFiniteSet(1 .. Len(line))
    BY <1>2, FS_Interval
  <2>2. stay \in SUBSET (1 .. Len(line))
    BY <1>1, <1>2
  <2>3. IsFiniteSet(stay)
    BY <2>1, <2>2, FS_Subset
  <2> QED
    BY <1>2, <2>2, <2>3
<1>4. PICK places : places = ById(stay)
  OBVIOUS
<1>5. /\ places \in Seq(stay) /\ ToSet(places) = stay
      /\ IsInjective(places) /\ Rising(places)
  BY <1>3, <1>4, ByIdLists
<1>6. /\ DOMAIN places = 1 .. Len(places) /\ Len(places) \in Nat
      /\ \A m \in DOMAIN places : places[m] \in stay
  BY <1>5
<1>7. PICK seq : seq = [m \in DOMAIN places |-> line[places[m]]]
  OBVIOUS
<1>8. seq = Without(S)
  BY <1>1, <1>4, <1>7 DEF Without
<1>9. DOMAIN seq = DOMAIN places /\ \A m \in DOMAIN places : seq[m] = line[places[m]] /\ seq[m] \in Items \ S
  BY <1>1, <1>2, <1>6, <1>7
<1>10. seq \in Seq(Items)
  <2>1. seq \in [1 .. Len(places) -> Items]
    BY <1>6, <1>7, <1>9
  <2> QED
    BY <1>6, <2>1, SeqDef
<1>11. IsInjective(seq)
  <2>1. ASSUME NEW m \in DOMAIN places, NEW n \in DOMAIN places, seq[m] = seq[n]
        PROVE  m = n
    <3>1. places[m] = places[n]
      BY <1>3, <1>6, <1>9, <2>1 DEF IsInjective
    <3> QED
      BY <1>5, <3>1 DEF IsInjective
  <2> QED
    BY <1>9, <2>1 DEF IsInjective
<1>12. ToSet(seq) = ToSet(line) \ S
  <2>1. ASSUME NEW i \in ToSet(line), i \notin S PROVE i \in ToSet(seq)
    <3>1. PICK n \in stay : line[n] = i
      BY <1>1, <2>1 DEF ToSet
    <3>2. PICK m \in DOMAIN places : places[m] = n
      BY <1>5, <3>1 DEF ToSet
    <3> QED
      BY <1>9, <3>1, <3>2 DEF ToSet
  <2>2. ASSUME NEW i \in ToSet(seq) PROVE i \in ToSet(line) \ S
    <3>1. PICK m \in DOMAIN places : seq[m] = i
      BY <1>9, <2>2 DEF ToSet
    <3>2. places[m] \in DOMAIN line
      BY <1>3, <1>6, <3>1
    <3> QED
      BY <1>9, <3>1, <3>2 DEF ToSet
  <2> QED
    BY <2>1, <2>2
<1>13. ASSUME NEW i \in Items, NEW j \in Items, Follows(seq, i, j)
       PROVE  Follows(line, i, j)
  <2>1. PICK m, n \in DOMAIN places : m < n /\ seq[m] = i /\ seq[n] = j
    BY <1>9, <1>13 DEF Follows
  <2>2. places[m] \in DOMAIN line /\ places[n] \in DOMAIN line /\ places[m] < places[n]
    BY <1>3, <1>5, <1>6, <2>1 DEF Rising
  <2>3. line[places[m]] = i /\ line[places[n]] = j
    BY <1>9, <2>1
  <2> QED
    BY <2>2, <2>3 DEF Follows
<1> QED
  BY <1>8, <1>10, <1>11, <1>12, <1>13

\* One list behind another, without common members.
LEMMA Joined ==
    ASSUME NEW one \in Seq(Items), IsInjective(one), NEW two \in Seq(Items), IsInjective(two),
           ToSet(one) \cap ToSet(two) = {}
    PROVE  /\ one \o two \in Seq(Items)
           /\ IsInjective(one \o two)
           /\ ToSet(one \o two) = ToSet(one) \cup ToSet(two)
           /\ \A i, j \in Items : Follows(one \o two, i, j) =>
                 \/ Follows(one, i, j) \/ Follows(two, i, j)
                 \/ i \in ToSet(one) /\ j \in ToSet(two)
<1>1. PICK both : both = one \o two
  OBVIOUS
<1>2. PICK k \in Nat, l \in Nat : k = Len(one) /\ l = Len(two)
  OBVIOUS
<1>3. both \in Seq(Items) /\ Len(both) = k + l /\ DOMAIN both = 1 .. (k + l)
  BY <1>1, <1>2
<1>4. /\ DOMAIN one = 1 .. k /\ DOMAIN two = 1 .. l
      /\ \A n \in 1 .. k : n \in 1 .. (k + l) /\ both[n] = one[n] /\ one[n] \in ToSet(one)
      /\ \A n \in 1 .. l : k + n \in 1 .. (k + l) /\ both[k + n] = two[n] /\ two[n] \in ToSet(two)
  <2>1. DOMAIN one = 1 .. k /\ DOMAIN two = 1 .. l
    BY <1>2
  <2>2. ASSUME NEW n \in 1 .. k
        PROVE  n \in 1 .. (k + l) /\ both[n] = one[n] /\ one[n] \in ToSet(one)
    BY <1>1, <1>2, <2>1 DEF ToSet
  <2>3. ASSUME NEW n \in 1 .. l
        PROVE  k + n \in 1 .. (k + l) /\ both[k + n] = two[n] /\ two[n] \in ToSet(two)
    <3>1. \A m \in 1 .. (k + l) : both[m] = IF m <= k THEN one[m] ELSE two[m - k]
      BY <1>1, <1>2, ConcatProperties
    <3>2. k + n \in 1 .. (k + l) /\ ~(k + n <= k) /\ (k + n) - k = n
      OBVIOUS
    <3> QED
      BY <2>1, <3>1, <3>2 DEF ToSet
  <2> QED
    BY <2>1, <2>2, <2>3
<1>5. \A n \in 1 .. (k + l) : n \in 1 .. k \/ \E m \in 1 .. l : n = k + m
  <2>1. ASSUME NEW n \in 1 .. (k + l), n \notin 1 .. k PROVE n - k \in 1 .. l /\ n = k + (n - k)
    BY <2>1
  <2> QED
    BY <2>1
<1>6. IsInjective(both)
  <2>1. ASSUME NEW m \in 1 .. (k + l), NEW n \in 1 .. (k + l), both[m] = both[n]
        PROVE  m = n
    <3>1. CASE m \in 1 .. k /\ n \in 1 .. k
      BY <1>4, <2>1, <3>1 DEF IsInjective
    <3>2. CASE m \in 1 .. k /\ n \notin 1 .. k
      BY <1>4, <1>5, <2>1, <3>2
    <3>3. CASE m \notin 1 .. k /\ n \in 1 .. k
      BY <1>4, <1>5, <2>1, <3>3
    <3>4. CASE m \notin 1 .. k /\ n \notin 1 .. k
      <4>1. PICK x \in 1 .. l : m = k + x
        BY <1>5, <3>4
      <4>2. PICK y \in 1 .. l : n = k + y
        BY <1>5, <3>4
      <4>3. two[x] = two[y]
        BY <1>4, <2>1, <4>1, <4>2
      <4>4. x = y
        BY <1>4, <4>3 DEF IsInjective
      <4> QED
        BY <4>1, <4>2, <4>4
    <3> QED
      BY <3>1, <3>2, <3>3, <3>4
  <2> QED
    BY <1>3, <2>1 DEF IsInjective
<1>7. ToSet(both) = ToSet(one) \cup ToSet(two)
  <2>1. ASSUME NEW i \in ToSet(one) PROVE i \in ToSet(both)
    <3>1. PICK n \in 1 .. k : one[n] = i
      BY <1>4, <2>1 DEF ToSet
    <3> QED
      BY <1>3, <1>4, <3>1 DEF ToSet
  <2>2. ASSUME NEW i \in ToSet(two) PROVE i \in ToSet(both)
    <3>1. PICK n \in 1 .. l : two[n] = i
      BY <1>4, <2>2 DEF ToSet
    <3>2. k + n \in DOMAIN both /\ both[k + n] = i
      BY <1>3, <1>4, <3>1
    <3> QED
      BY <3>2 DEF ToSet
  <2>3. ASSUME NEW i \in ToSet(both) PROVE i \in ToSet(one) \cup ToSet(two)
    <3>1. PICK n \in 1 .. (k + l) : both[n] = i
      BY <1>3, <2>3 DEF ToSet
    <3> QED
      BY <1>4, <1>5, <3>1
  <2> QED
    BY <2>1, <2>2, <2>3
<1>8. ASSUME NEW i \in Items, NEW j \in Items, Follows(both, i, j)
      PROVE  Follows(one, i, j) \/ Follows(two, i, j) \/ (i \in ToSet(one) /\ j \in ToSet(two))
  <2>1. PICK m, n \in 1 .. (k + l) : m < n /\ both[m] = i /\ both[n] = j
    BY <1>3, <1>8 DEF Follows
  <2>2. CASE n \in 1 .. k
    <3>1. m \in 1 .. k
      BY <2>1, <2>2
    <3> QED
      BY <1>4, <2>1, <2>2, <3>1 DEF Follows
  <2>3. CASE m \notin 1 .. k
    <3>1. n \notin 1 .. k
      BY <2>1, <2>3
    <3>2. PICK x \in 1 .. l : m = k + x
      BY <1>5, <2>3
    <3>3. PICK y \in 1 .. l : n = k + y
      BY <1>5, <3>1
    <3>4. x < y /\ two[x] = i /\ two[y] = j
      BY <1>4, <2>1, <3>2, <3>3
    <3> QED
      BY <1>4, <3>4 DEF Follows
  <2>4. CASE m \in 1 .. k /\ n \notin 1 .. k
    <3>1. PICK y \in 1 .. l : n = k + y
      BY <1>5, <2>4
    <3> QED
      BY <1>4, <2>1, <2>4, <3>1
  <2> QED
    BY <2>2, <2>3, <2>4
<1> QED
  BY <1>1, <1>3, <1>6, <1>7, <1>8

----------------------------------------------------------------------------
(* The order of the passes: nobody is overtaken *)

\* Only open items wait in the line, and items are filed in the order of their ids.
LineInv ==
    /\ line \in Seq(Items) /\ IsInjective(line)
    /\ ToSet(line) \subseteq Open
    /\ \A i \in Open, j \in Items : status[j] = "unfiled" => i < j

\* A pass asks each item once, and what it has asked or will ask is open.
PassInv ==
    /\ pass.pc = "ask" => IsInjective(pass.todo)
    /\ pass.pc # "ask" => pass.todo = <<>>
    /\ pass.pc \notin {"ask", "mark"} => pass.answered = {}
    /\ ToSet(pass.todo) \subseteq Open /\ pass.answered \subseteq Open
    /\ ToSet(pass.todo) \cap pass.answered = {}

OrderInv == TypeOK /\ LineInv /\ PassInv

\* All open items in the order they are asked in.
Queue == ById(Open \ ToSet(line)) \o line

LEMMA OpenListed ==
    ASSUME NEW S \in SUBSET Items
    PROVE  /\ ById(S) \in Seq(Items) /\ ToSet(ById(S)) = S /\ IsInjective(ById(S))
           /\ \A i, j \in Items : Follows(ById(S), i, j) => i < j
<1>1. S \subseteq Nat /\ IsFiniteSet(S)
  <2>1. IsFiniteSet(Items)
    BY SizesAssumption, FS_Interval DEF Items
  <2>2. IsFiniteSet(S)
    BY <2>1, FS_Subset
  <2> QED
    BY <2>2 DEF Items
<1>2. PICK seq : seq = ById(S)
  OBVIOUS
<1>3. seq \in Seq(S) /\ ToSet(seq) = S /\ IsInjective(seq) /\ Rising(seq)
  BY <1>1, <1>2, ByIdLists
<1>4. seq \in Seq(Items)
  BY <1>3, SeqMonotonic
<1>5. \A i, j \in Items : Follows(seq, i, j) => i < j
  BY <1>3 DEF Follows, Rising
<1> QED
  BY <1>2, <1>3, <1>4, <1>5

\* The queue holds every open item once, in the order of Before.
LEMMA QueueHolds ==
    ASSUME LineInv
    PROVE  /\ Queue \in Seq(Items) /\ IsInjective(Queue) /\ ToSet(Queue) = Open
           /\ \A i, j \in Items : Follows(Queue, i, j) => Before(i, j)
<1>1. PICK new : new = ById(Open \ ToSet(line))
  OBVIOUS
<1>2. /\ new \in Seq(Items) /\ ToSet(new) = Open \ ToSet(line) /\ IsInjective(new)
      /\ \A i, j \in Items : Follows(new, i, j) => i < j
  <2>1. Open \ ToSet(line) \in SUBSET Items
    BY DEF Open
  <2> QED
    BY <1>1, <2>1, OpenListed
<1>3. line \in Seq(Items) /\ IsInjective(line) /\ ToSet(line) \subseteq Open
  BY DEF LineInv
<1>4. ToSet(new) \cap ToSet(line) = {} /\ ToSet(new) \cup ToSet(line) = Open
  BY <1>2, <1>3
<1>5. /\ new \o line \in Seq(Items) /\ IsInjective(new \o line)
      /\ ToSet(new \o line) = Open
      /\ \A i, j \in Items : Follows(new \o line, i, j) =>
            \/ Follows(new, i, j) \/ Follows(line, i, j)
            \/ i \in ToSet(new) /\ j \in ToSet(line)
  BY <1>2, <1>3, <1>4, Joined
<1>6. ASSUME NEW i \in Items, NEW j \in Items, Follows(new, i, j)
      PROVE  i \in ToSet(new)
  BY <1>6 DEF Follows, ToSet
<1>7. \A i, j \in Items : Follows(new \o line, i, j) => Before(i, j)
  BY <1>2, <1>5, <1>6 DEF Before
<1> QED
  BY <1>1, <1>5, <1>7 DEF Queue

\* What a pass takes: the queue, or as much of it as a pass asks about.
LEMMA BatchTaken ==
    ASSUME LineInv
    PROVE  /\ PendingItems \in Seq(Items) /\ IsInjective(PendingItems)
           /\ ToSet(PendingItems) \subseteq Open
           /\ \A i \in Open \ ToSet(PendingItems) :
                 /\ Len(PendingItems) = MaxPerRun
                 /\ \A j \in ToSet(PendingItems) : Before(j, i)
<1>1. PICK queue : queue = Queue
  OBVIOUS
<1>2. /\ queue \in Seq(Items) /\ IsInjective(queue) /\ ToSet(queue) = Open
      /\ \A i, j \in Items : Follows(queue, i, j) => Before(i, j)
  BY <1>1, QueueHolds
<1>3. PICK size : size = IF MaxPerRun < Len(queue) THEN MaxPerRun ELSE Len(queue)
  OBVIOUS
<1>4. PICK batch : batch = SubSeq(queue, 1, size)
  OBVIOUS
<1>5. batch = PendingItems
  BY <1>1, <1>3, <1>4 DEF PendingItems, Prefix, Queue
<1>6. /\ Len(queue) \in Nat /\ DOMAIN queue = 1 .. Len(queue) /\ size \in 0 .. Len(queue)
      /\ size < Len(queue) => size = MaxPerRun
  BY <1>2, <1>3, LimitsAssumption
<1>7. /\ batch \in Seq(Items) /\ Len(batch) = size /\ DOMAIN batch = 1 .. size
      /\ \A n \in 1 .. size : n \in DOMAIN queue /\ batch[n] = queue[n]
  BY <1>2, <1>4, <1>6
<1>8. IsInjective(batch)
  BY <1>2, <1>7 DEF IsInjective
<1>9. ToSet(batch) \subseteq Open
  <2>1. ASSUME NEW n \in 1 .. size PROVE batch[n] \in ToSet(queue)
    BY <1>7, <2>1 DEF ToSet
  <2> QED
    BY <1>2, <1>7, <2>1 DEF ToSet
<1>10. ASSUME NEW i \in Open \ ToSet(batch)
       PROVE  size = MaxPerRun /\ \A j \in ToSet(batch) : Before(j, i)
  <2>1. PICK n \in 1 .. Len(queue) : queue[n] = i
    BY <1>2, <1>6, <1>10 DEF ToSet
  <2>2. n \notin 1 .. size
    BY <1>7, <1>10, <2>1 DEF ToSet
  <2>3. size < n /\ size < Len(queue)
    BY <1>6, <2>1, <2>2
  <2>4. ASSUME NEW j \in ToSet(batch) PROVE Before(j, i)
    <3>1. PICK m \in 1 .. size : batch[m] = j
      BY <1>7, <2>4 DEF ToSet
    <3>2. m < n /\ m \in DOMAIN queue /\ n \in DOMAIN queue /\ queue[m] = j
      BY <1>6, <1>7, <2>1, <2>3, <3>1
    <3>3. Follows(queue, j, i)
      BY <2>1, <3>2 DEF Follows
    <3>4. i \in Items /\ j \in Items
      BY <1>9, <1>10, <2>4 DEF Open
    <3> QED
      BY <1>2, <3>3, <3>4
  <2> QED
    BY <1>6, <2>3, <2>4
<1> QED
  BY <1>5, <1>7, <1>8, <1>9, <1>10

LEMMA OrderInit ==
    ASSUME Init
    PROVE  OrderInv
<1> USE DEF Init, Items, Open, NoPass
<1>1. /\ line = <<>> /\ ToSet(line) = {} /\ IsInjective(line)
      /\ pass.todo = <<>> /\ ToSet(pass.todo) = {} /\ IsInjective(pass.todo)
  BY DEF ToSet, IsInjective
<1>2. line \in Seq(Items) /\ pass.todo \in Seq(Items)
  BY <1>1
<1>3. TypeOK
  BY <1>1, <1>2, SizesAssumption, LimitsAssumption DEF TypeOK, Pass
<1> QED
  BY <1>1, <1>2, <1>3 DEF OrderInv, LineInv, PassInv

\* The pass asks for nothing more.
LEMMA NothingToAsk == <<>> \in Seq(Items) /\ ToSet(<<>>) = {} /\ IsInjective(<<>>)
  BY DEF ToSet, IsInjective

\* The item asked about, and the rest of the batch.
LEMMA HeadAsked ==
    ASSUME NEW todo \in Seq(Items), IsInjective(todo), todo # <<>>
    PROVE  /\ Head(todo) \in ToSet(todo) /\ Tail(todo) \in Seq(Items) /\ IsInjective(Tail(todo))
           /\ ToSet(Tail(todo)) = ToSet(todo) \ {Head(todo)}
<1>1. PICK size \in Nat : size = Len(todo)
  OBVIOUS
<1>2. PICK rest : rest = Tail(todo)
  OBVIOUS
<1>3. size >= 1 /\ DOMAIN todo = 1 .. size /\ Head(todo) = todo[1] /\ 1 \in 1 .. size
  BY <1>1
<1>4. /\ rest \in Seq(Items) /\ DOMAIN rest = 1 .. (size - 1)
      /\ \A n \in 1 .. (size - 1) : n + 1 \in 1 .. size /\ rest[n] = todo[n + 1]
  BY <1>1, <1>2, <1>3
<1>5. \A n \in 1 .. size : n = 1 \/ (n - 1 \in 1 .. (size - 1) /\ (n - 1) + 1 = n)
  OBVIOUS
<1>6. IsInjective(rest)
  <2>1. ASSUME NEW m \in 1 .. (size - 1), NEW n \in 1 .. (size - 1), rest[m] = rest[n]
        PROVE  m = n
    <3>1. PICK x \in 1 .. size, y \in 1 .. size : x = m + 1 /\ y = n + 1
      BY <1>4
    <3>2. todo[x] = todo[y]
      BY <1>4, <2>1, <3>1
    <3>3. x = y
      BY <1>3, <3>2 DEF IsInjective
    <3> QED
      BY <2>1, <3>1, <3>3
  <2> QED
    BY <1>4, <2>1 DEF IsInjective
<1>7. ASSUME NEW i \in ToSet(todo), i # Head(todo) PROVE i \in ToSet(rest)
  <2>1. PICK n \in 1 .. size : todo[n] = i
    BY <1>3, <1>7 DEF ToSet
  <2>2. n - 1 \in 1 .. (size - 1) /\ rest[n - 1] = i
    BY <1>3, <1>4, <1>5, <1>7, <2>1
  <2> QED
    BY <1>4, <2>2 DEF ToSet
<1>8. ASSUME NEW i \in ToSet(rest) PROVE i \in ToSet(todo) /\ i # Head(todo)
  <2>1. PICK n \in 1 .. (size - 1) : rest[n] = i
    BY <1>4, <1>8 DEF ToSet
  <2>2. n + 1 \in 1 .. size /\ todo[n + 1] = i /\ n + 1 # 1
    BY <1>4, <2>1
  <2>3. todo[n + 1] # todo[1]
    BY <1>3, <2>2 DEF IsInjective
  <2> QED
    BY <1>3, <2>2, <2>3 DEF ToSet
<1> QED
  BY <1>2, <1>3, <1>4, <1>6, <1>7, <1>8 DEF ToSet

\* Steps that leave the items and the pass alone.
LEMMA OrderRests ==
    ASSUME OrderInv, UNCHANGED <<status, line, pass>>, TypeOK'
    PROVE  OrderInv'
  BY DEF OrderInv, LineInv, PassInv, Open

\* The types of what does not concern the order.
RestTyped ==
    /\ {old, late, heard} \subseteq SUBSET Items
    /\ {up, enabled} \subseteq BOOLEAN
    /\ since \in 0 .. Hour /\ sweepers \subseteq {"agent", "app"} /\ loop \in 0 .. Hour
    /\ faults \in 0 .. MaxFaults
    /\ gap \in 0 .. (2 + MaxFaults) * Hour
    /\ missed \in 0 .. faults

LEMMA KeepsTypes ==
    ASSUME OrderInv, [Next]_vars
    PROVE  RestTyped'
<1>0. /\ RestTyped /\ pass.answered \in SUBSET Items
      /\ Hour \in Nat \ {0} /\ MaxFaults \in Nat /\ (2 + MaxFaults) * Hour \in Nat
  BY SizesAssumption, LimitsAssumption, HoursMissed DEF OrderInv, TypeOK, Pass, RestTyped
<1>1. CASE StartPass
  BY <1>0, <1>1 DEF StartPass, items, keeping, RestTyped
<1>2. CASE Ask
  <2>1. /\ UNCHANGED <<old, late, up, enabled, since, sweepers, loop, gap, missed, faults>>
        /\ heard' = heard \/ heard' = heard \cup {Asked}
    BY <1>2 DEF Ask, keeping
  <2>2. Asked \in Items
    <3>1. pass.todo \in Seq(Items) /\ pass.todo # <<>> /\ IsInjective(pass.todo) /\ ToSet(pass.todo) \subseteq Open
      BY <1>2 DEF Ask, OrderInv, TypeOK, PassInv, Pass
    <3> QED
      BY <3>1, HeadAsked DEF Asked, Open
  <2> QED
    BY <1>0, <2>1, <2>2 DEF RestTyped
<1>3. CASE AskingEnds \/ ExpireStaleItems \/ PassFails
  BY <1>0, <1>3 DEF AskingEnds, ExpireStaleItems, PassFails, Fault, items, keeping, RestTyped
<1>4. CASE MarkChecked
  BY <1>0, <1>4 DEF MarkChecked, keeping, RestTyped
<1>5. CASE AgentClaims \/ AppClaims
  <2>1. /\ UNCHANGED <<old, late, up, enabled, faults, heard>> /\ loop' \in {loop, Hour}
        /\ \/ UNCHANGED <<since, sweepers, gap, missed>>
           \/ since' = 0 /\ gap' = 0 /\ missed' = 0 /\ \E who \in {"agent", "app"} : sweepers' = sweepers \cup {who}
    BY <1>5 DEF AgentClaims, AppClaims, Claim, items
  <2>2. /\ since' \in {since, 0} /\ gap' \in {gap, 0} /\ missed' \in {missed, 0}
        /\ sweepers' = sweepers \/ \E who \in {"agent", "app"} : sweepers' = sweepers \cup {who}
    BY <2>1
  <2>3. since' \in 0 .. Hour /\ loop' \in 0 .. Hour /\ gap' \in 0 .. (2 + MaxFaults) * Hour
        /\ missed' \in 0 .. faults'
    BY <1>0, <2>1, <2>2 DEF RestTyped
  <2>4. sweepers' \subseteq {"agent", "app"}
    BY <1>0, <2>2 DEF RestTyped
  <2> QED
    BY <1>0, <2>1, <2>3, <2>4 DEF RestTyped
<1>6. CASE AgentSwept \/ AppSwept
  BY <1>0, <1>6 DEF AgentSwept, AppSwept, items, RestTyped
<1>13. CASE AppRefused
  <2>1. /\ UNCHANGED <<old, late, heard, up, enabled, since, sweepers, gap>>
        /\ loop' = Hour /\ missed' = missed + 1
        /\ faults < MaxFaults /\ faults' = faults + 1
    BY <1>13 DEF AppRefused, Fault, items
  <2>2. faults' \in 0 .. MaxFaults /\ missed' \in 0 .. faults' /\ loop' \in 0 .. Hour
    BY <1>0, <2>1 DEF RestTyped
  <2> QED
    BY <1>0, <2>1, <2>2 DEF RestTyped
<1>7. CASE FileItem
  BY <1>0, <1>7 DEF FileItem, keeping, RestTyped
<1>8. ASSUME NEW i \in Items, Ages(i)
      PROVE  RestTyped'
  BY <1>0, <1>8 DEF Ages, keeping, RestTyped
<1>9. CASE ArrGoesDown \/ ArrComesBack \/ Switch
  <2>1. CASE ArrGoesDown
    <3>1. UNCHANGED <<old, late, heard, enabled, since, sweepers, loop, gap, missed>> /\ up' = FALSE
      BY <2>1 DEF ArrGoesDown, items, keeping
    <3>2. faults' \in 0 .. MaxFaults /\ missed \in 0 .. faults'
      BY <1>0, <2>1 DEF ArrGoesDown, Fault, RestTyped
    <3>3. up' \in BOOLEAN
      BY <3>1
    <3> QED
      BY <1>0, <3>1, <3>2, <3>3 DEF RestTyped
  <2>2. CASE ArrComesBack
    <3>1. UNCHANGED <<old, late, heard, enabled, faults, since, sweepers, loop, gap, missed>> /\ up' = TRUE
      BY <2>2 DEF ArrComesBack, items, keeping
    <3>2. up' \in BOOLEAN
      BY <3>1
    <3> QED
      BY <1>0, <3>1, <3>2 DEF RestTyped
  <2>3. CASE Switch
    <3>1. UNCHANGED <<old, late, heard, up, since, sweepers, loop, gap, missed>> /\ enabled' = ~enabled
      BY <2>3 DEF Switch, items, keeping
    <3>2. faults' \in 0 .. MaxFaults /\ missed \in 0 .. faults'
      BY <1>0, <2>3 DEF Switch, Fault, RestTyped
    <3>3. enabled' \in BOOLEAN
      BY <3>1
    <3> QED
      BY <1>0, <3>1, <3>2, <3>3 DEF RestTyped
  <2> QED
    BY <1>9, <2>1, <2>2, <2>3
<1>10. CASE Restart
  BY <1>0, <1>10 DEF Restart, Fault, items, RestTyped
<1>11. CASE Tick
  BY <1>0, <1>11 DEF Tick, items, RestTyped
<1>12. CASE UNCHANGED vars
  BY <1>0, <1>12 DEF vars, items, keeping, RestTyped
<1> QED
  BY <1>1, <1>2, <1>3, <1>4, <1>5, <1>6, <1>7, <1>8, <1>9, <1>10, <1>11, <1>12, <1>13 DEF Next, PassStep

\* The line and the pass after a step of the pass.
LEMMA OrderStep ==
    ASSUME OrderInv, [Next]_vars
    PROVE  OrderInv'
<1>0. TypeOK /\ LineInv /\ PassInv
  BY DEF OrderInv
<1>t. /\ line \in Seq(Items) /\ IsInjective(line) /\ ToSet(line) \subseteq Open
      /\ \A i \in Open, j \in Items : status[j] = "unfiled" => i < j
      /\ status \in [Items -> {"unfiled", "open", "settled", "expired"}] /\ pass \in Pass
      /\ pass.todo \in Seq(Items) /\ pass.answered \in SUBSET Items
      /\ Open = {i \in Items : status[i] = "open"}
  BY <1>0 DEF TypeOK, LineInv, Pass, Open
<1>q. /\ pass.pc = "ask" => IsInjective(pass.todo)
      /\ pass.pc # "ask" => pass.todo = <<>>
      /\ pass.pc \notin {"ask", "mark"} => pass.answered = {}
      /\ ToSet(pass.todo) \subseteq Open /\ pass.answered \subseteq Open
      /\ ToSet(pass.todo) \cap pass.answered = {}
  BY <1>0 DEF PassInv
<1>s. SUFFICES /\ line' \in Seq(Items) /\ IsInjective(line')
               /\ status' \in [Items -> {"unfiled", "open", "settled", "expired"}]
               /\ ToSet(line') \subseteq Open'
               /\ \A i \in Open', j \in Items : status'[j] = "unfiled" => i < j
               /\ pass' \in Pass
               /\ pass'.pc = "ask" => IsInjective(pass'.todo)
               /\ pass'.pc # "ask" => pass'.todo = <<>>
               /\ pass'.pc \notin {"ask", "mark"} => pass'.answered = {}
               /\ ToSet(pass'.todo) \subseteq Open' /\ pass'.answered \subseteq Open'
               /\ ToSet(pass'.todo) \cap pass'.answered = {}
  <2>1. TypeOK'
    BY <1>s, KeepsTypes DEF TypeOK, RestTyped
  <2>2. LineInv' /\ PassInv'
    BY <1>s DEF LineInv, PassInv
  <2> QED
    BY <2>1, <2>2 DEF OrderInv
<1>1. CASE StartPass
  <2>1. UNCHANGED <<status, line>> /\ Open' = Open
    BY <1>1 DEF StartPass, items, Open
  <2>2. PICK batch : batch = PendingItems
    OBVIOUS
  <2>3. batch \in Seq(Items) /\ IsInjective(batch) /\ ToSet(batch) \subseteq Open
    BY <1>0, <2>2, BatchTaken
  <2>4. pass' = [pc |-> "ask", todo |-> batch, answered |-> {}]
    BY <1>1, <2>2 DEF StartPass, NoPass
  <2>5. pass' \in Pass
    BY <2>3, <2>4 DEF Pass
  <2> QED
    BY <1>t, <2>1, <2>3, <2>4, <2>5
<1>2. CASE Ask
  <2>1. PICK todo, asked, rest : todo = pass.todo /\ asked = Head(todo) /\ rest = Tail(todo)
    OBVIOUS
  <2>2. todo \in Seq(Items) /\ todo # <<>> /\ IsInjective(todo) /\ pass.pc = "ask"
    BY <1>2, <1>t, <1>q, <2>1 DEF Ask
  <2>3. /\ asked \in ToSet(todo) /\ rest \in Seq(Items) /\ IsInjective(rest)
        /\ ToSet(rest) = ToSet(todo) \ {asked}
    BY <2>1, <2>2, HeadAsked
  <2>4. asked \in Open /\ asked \in Items /\ asked \notin pass.answered
    BY <1>t, <1>q, <2>1, <2>3
  <2>5. pass'.pc = "ask" /\ pass'.todo = rest /\ pass' \in Pass
        /\ pass'.answered \in {pass.answered, pass.answered \cup {asked}}
        /\ \/ UNCHANGED <<status, line>>
           \/ /\ status' = [status EXCEPT ![asked] = "settled"] /\ line' = Without({asked})
              /\ pass'.answered = pass.answered
    <3>1. \/ /\ UNCHANGED <<status, line>>
             /\ \/ pass' = [pass EXCEPT !.todo = rest]
                \/ pass' = [pass EXCEPT !.todo = rest, !.answered = @ \cup {asked}]
          \/ /\ status' = [status EXCEPT ![asked] = "settled"] /\ line' = Without({asked})
             /\ pass' = [pass EXCEPT !.todo = rest]
      BY <1>2, <2>1 DEF Ask, Asked
    <3>2. \/ pass' = [pc |-> "ask", todo |-> rest, answered |-> pass.answered]
          \/ pass' = [pc |-> "ask", todo |-> rest, answered |-> pass.answered \cup {asked}] /\ UNCHANGED <<status, line>>
      BY <1>t, <2>2, <3>1 DEF Pass
    <3>3. pass' \in Pass
      BY <1>t, <2>3, <2>4, <3>2 DEF Pass
    <3>4. /\ pass'.pc = "ask" /\ pass'.todo = rest
          /\ \/ pass'.answered = pass.answered
             \/ pass'.answered = pass.answered \cup {asked} /\ UNCHANGED <<status, line>>
      BY <3>2
    <3> QED
      BY <3>1, <3>3, <3>4
  <2>6. CASE UNCHANGED <<status, line>>
    <3>1. Open' = Open
      BY <2>6 DEF Open
    <3>2. pass'.answered \subseteq Open /\ ToSet(rest) \subseteq Open /\ ToSet(rest) \cap pass'.answered = {}
      BY <1>q, <2>1, <2>3, <2>4, <2>5
    <3> QED
      BY <1>t, <2>3, <2>5, <2>6, <3>1, <3>2
  <2>7. CASE status' = [status EXCEPT ![asked] = "settled"] /\ line' = Without({asked}) /\ pass'.answered = pass.answered
    <3>1. Open' = Open \ {asked}
      BY <1>t, <2>4, <2>7 DEF Open
    <3>2. line' \in Seq(Items) /\ IsInjective(line') /\ ToSet(line') = ToSet(line) \ {asked}
      BY <1>t, <2>7, LineWithout
    <3>3. ToSet(rest) \subseteq Open' /\ pass'.answered \subseteq Open' /\ ToSet(rest) \cap pass'.answered = {}
      BY <1>q, <2>1, <2>3, <2>4, <2>7, <3>1
    <3>4. \A i \in Open', j \in Items : status'[j] = "unfiled" => i < j
      BY <1>t, <2>4, <2>7, <3>1
    <3>5. status' \in [Items -> {"unfiled", "open", "settled", "expired"}]
      BY <1>t, <2>4, <2>7
    <3>6. ToSet(line') \subseteq Open'
      BY <1>t, <3>1, <3>2
    <3> QED
      BY <2>3, <2>5, <3>2, <3>3, <3>4, <3>5, <3>6
  <2> QED
    BY <2>5, <2>6, <2>7
<1>3. CASE AskingEnds
  <2>1. UNCHANGED <<status, line>> /\ Open' = Open
    BY <1>3 DEF AskingEnds, items, Open
  <2>2. pass'.pc = "mark" /\ pass'.todo = <<>> /\ pass'.answered = pass.answered /\ pass' \in Pass
    BY <1>3, <1>t, NothingToAsk DEF AskingEnds, Pass
  <2> QED
    BY <1>t, <1>q, <2>1, <2>2, NothingToAsk
<1>4. CASE MarkChecked
  <2>1. PICK marked : marked = pass.answered
    OBVIOUS
  <2>2. PICK kept, added : kept = Without(marked) /\ added = ById(marked)
    OBVIOUS
  <2>3. /\ kept \in Seq(Items) /\ IsInjective(kept) /\ ToSet(kept) = ToSet(line) \ marked
    BY <1>t, <2>2, LineWithout
  <2>4. added \in Seq(Items) /\ ToSet(added) = marked /\ IsInjective(added)
    BY <1>t, <2>1, <2>2, OpenListed
  <2>5. /\ kept \o added \in Seq(Items) /\ IsInjective(kept \o added)
        /\ ToSet(kept \o added) = ToSet(kept) \cup ToSet(added)
    <3>1. ToSet(kept) \cap ToSet(added) = {}
      BY <2>3, <2>4
    <3> QED
      BY <2>3, <2>4, <3>1, Joined
  <2>6. line' = kept \o added /\ UNCHANGED status /\ Open' = Open
    BY <1>4, <2>1, <2>2 DEF MarkChecked, Open
  <2>7. ToSet(line') \subseteq Open
    BY <1>t, <1>q, <2>1, <2>3, <2>4, <2>5, <2>6
  <2>8. pass'.pc = "expire" /\ pass'.todo = <<>> /\ pass'.answered = {} /\ pass' \in Pass
    BY <1>4, <1>t, <1>q DEF MarkChecked, Pass
  <2> QED
    BY <1>t, <2>5, <2>6, <2>7, <2>8, NothingToAsk
<1>5. CASE ExpireStaleItems
  <2>1. PICK gone : gone = late
    OBVIOUS
  <2>2. status' = [i \in Items |-> IF i \in Open \cap gone THEN "expired" ELSE status[i]] /\ line' = Without(gone)
    BY <1>5, <2>1 DEF ExpireStaleItems
  <2>3. line' \in Seq(Items) /\ IsInjective(line') /\ ToSet(line') = ToSet(line) \ gone
    BY <1>t, <2>2, LineWithout
  <2>4. Open' = Open \ gone
    BY <1>t, <2>2 DEF Open
  <2>5. ToSet(line') \subseteq Open'
    BY <1>t, <2>3, <2>4
  <2>6. pass'.todo = <<>> /\ pass'.answered = {} /\ pass'.pc = "housekeeping" /\ pass' \in Pass
    BY <1>5, <1>t, <1>q DEF ExpireStaleItems, Pass
  <2>7. \A i \in Open', j \in Items : status'[j] = "unfiled" => i < j
    BY <1>t, <2>2, <2>4
  <2>8. status' \in [Items -> {"unfiled", "open", "settled", "expired"}]
    BY <1>t, <2>2
  <2> QED
    BY <2>3, <2>5, <2>6, <2>7, <2>8, NothingToAsk
<1>6. CASE AgentClaims \/ AgentSwept \/ PassFails \/ Restart
  <2>1. UNCHANGED <<status, line>> /\ Open' = Open
    BY <1>6 DEF AgentClaims, AgentSwept, PassFails, Restart, items, Open
  <2>2. pass' = NoPass \/ (pass' = [pass EXCEPT !.pc = "sweep"] /\ pass.pc = "housekeeping")
    BY <1>6 DEF AgentClaims, AgentSwept, PassFails, Restart
  <2>3. pass'.todo = <<>> /\ pass'.answered = {} /\ pass'.pc # "ask" /\ pass' \in Pass
    <3>1. CASE pass' = NoPass
      BY <3>1, NothingToAsk DEF NoPass, Pass
    <3>2. CASE pass' = [pass EXCEPT !.pc = "sweep"] /\ pass.pc = "housekeeping"
      <4>1. pass.todo = <<>> /\ pass.answered = {}
        BY <1>q, <3>2
      <4>2. pass' = [pc |-> "sweep", todo |-> <<>>, answered |-> {}]
        BY <1>t, <3>2, <4>1 DEF Pass
      <4> QED
        BY <4>2, NothingToAsk DEF Pass
    <3> QED
      BY <2>2, <3>1, <3>2
  <2> QED
    BY <1>t, <2>1, <2>3, NothingToAsk
<1>7. CASE FileItem
  <2>1. PICK new \in Items : /\ status[new] = "unfiled" /\ status' = [status EXCEPT ![new] = "open"]
                             /\ \A j \in Items : j < new => status[j] # "unfiled"
    BY <1>7 DEF FileItem
  <2>2. UNCHANGED <<line, pass>>
    BY <1>7 DEF FileItem
  <2>3. Open' = Open \cup {new}
    BY <1>t, <2>1 DEF Open
  <2>4. ASSUME NEW i \in Open', NEW j \in Items, status'[j] = "unfiled"
        PROVE  i < j
    <3>1. status[j] = "unfiled" /\ j # new
      BY <1>t, <2>1, <2>4
    <3>2. CASE i = new
      <4>1. ~(j < new) /\ j \in Int /\ new \in Int
        BY <2>1, <3>1, SizesAssumption DEF Items
      <4> QED
        BY <3>1, <3>2, <4>1
    <3>3. CASE i \in Open
      BY <1>t, <3>1, <3>3
    <3> QED
      BY <2>3, <2>4, <3>2, <3>3
  <2>5. status' \in [Items -> {"unfiled", "open", "settled", "expired"}]
    BY <1>t, <2>1
  <2> QED
    BY <1>t, <1>q, <2>2, <2>3, <2>4, <2>5
<1>8. CASE UNCHANGED <<status, line, pass>>
  <2>1. Open' = Open
    BY <1>8 DEF Open
  <2> QED
    BY <1>8, <1>t, <1>q, <2>1
<1>9. ASSUME NEW i \in Items, Ages(i)
      PROVE  UNCHANGED <<status, line, pass>>
  BY <1>9 DEF Ages
<1>10. CASE AppClaims \/ AppRefused \/ AppSwept \/ ArrGoesDown \/ ArrComesBack \/ Switch \/ Tick \/ UNCHANGED vars
  BY <1>8, <1>10 DEF AppClaims, AppRefused, AppSwept, ArrGoesDown, ArrComesBack, Switch, Tick, vars, items
<1> QED
  BY <1>1, <1>2, <1>3, <1>4, <1>5, <1>6, <1>7, <1>8, <1>9, <1>10 DEF Next, PassStep

\* The books of the passes are well typed; the line never holds an item twice.
THEOREM PassTypes == Spec => []TypeOK
<1>1. OrderInv => TypeOK
  BY DEF OrderInv
<1> QED
  BY <1>1, OrderInit, OrderStep, PTL DEF Spec

\* A step that only takes items out of the line lets nobody past.
LEMMA LineShrinks ==
    ASSUME OrderInv, NEW S, line' = Without(S), NEW i \in Items \ S, NEW j \in Items \ S, Before(j, i)'
    PROVE  Before(j, i)
<1>1. line \in Seq(Items) /\ IsInjective(line)
  BY DEF OrderInv, LineInv
<1>2. /\ ToSet(line') = ToSet(line) \ S
      /\ Follows(line', j, i) => Follows(line, j, i)
  BY <1>1, LineWithout
<1>3. (j \notin ToSet(line') /\ (i \in ToSet(line') \/ j < i)) \/ Follows(line', j, i)
  BY DEF Before
<1> QED
  BY <1>2, <1>3 DEF Before

\* Who was answered goes behind all others of the line; the rest keep their order.
LEMMA LineTurns ==
    ASSUME OrderInv, NEW S \in SUBSET Items, line' = Without(S) \o ById(S),
           NEW i \in Items \ S, NEW j \in Items, Before(j, i)'
    PROVE  Before(j, i)
<1>1. line \in Seq(Items) /\ IsInjective(line)
  BY DEF OrderInv, LineInv
<1>2. PICK kept, added : kept = Without(S) /\ added = ById(S)
  OBVIOUS
<1>3. /\ kept \in Seq(Items) /\ IsInjective(kept) /\ ToSet(kept) = ToSet(line) \ S
      /\ Follows(kept, j, i) => Follows(line, j, i)
  BY <1>1, <1>2, LineWithout
<1>4. added \in Seq(Items) /\ ToSet(added) = S /\ IsInjective(added)
  BY <1>2, OpenListed
<1>5. /\ ToSet(line') = ToSet(kept) \cup S
      /\ Follows(line', j, i) => Follows(kept, j, i) \/ Follows(added, j, i) \/ i \in ToSet(added)
  <2>1. ToSet(kept) \cap ToSet(added) = {} /\ line' = kept \o added
    BY <1>2, <1>3, <1>4
  <2> QED
    BY <1>3, <1>4, <2>1, Joined
<1>6. Follows(added, j, i) => i \in ToSet(added)
  BY DEF Follows, ToSet
<1>7. Follows(line', j, i) => Follows(line, j, i)
  BY <1>3, <1>4, <1>5, <1>6
<1>8. j \notin ToSet(line') => j \notin ToSet(line)
  BY <1>3, <1>5
<1>9. i \in ToSet(line') => i \in ToSet(line)
  BY <1>3, <1>5
<1>10. (j \notin ToSet(line') /\ (i \in ToSet(line') \/ j < i)) \/ Follows(line', j, i)
  BY DEF Before
<1> QED
  BY <1>7, <1>8, <1>9, <1>10 DEF Before

\* Whom a pass leaves out has a full batch in front of it (MAX_PER_RUN).
FullBatchAhead ==
    [][StartPass => \A i \in Open \ ToSet(pass.todo') :
           Len(pass.todo') = MaxPerRun /\ ToSet(pass.todo') \subseteq Ahead(i)]_vars

LEMMA OvertakesStep ==
    ASSUME OrderInv, [Next]_vars, NEW i \in Items, NEW j \in Items,
           i \in Open, i \in Open', j \in Open', Before(j, i)', ~(j \in Open /\ Before(j, i))
    PROVE  \/ pass.pc = "mark" /\ i \in pass.answered
           \/ status[j] = "unfiled" /\ i \in ToSet(line)
<1>t. /\ status \in [Items -> {"unfiled", "open", "settled", "expired"}]
      /\ Open = {k \in Items : status[k] = "open"} /\ pass \in Pass
      /\ pass.answered \in SUBSET Items /\ ToSet(line) \subseteq Open
      /\ \A k \in Open, l \in Items : status[l] = "unfiled" => k < l
      /\ ToSet(pass.todo) \subseteq Open /\ pass.todo \in Seq(Items)
  BY DEF OrderInv, TypeOK, LineInv, PassInv, Pass, Open
<1>o. Open' = {k \in Items : status'[k] = "open"}
  BY DEF Open
<1>1. ASSUME UNCHANGED <<status, line>> PROVE FALSE
  <2>1. Open' = Open
    BY <1>1 DEF Open
  <2> QED
    BY <1>1, <2>1 DEF Before
<1>2. CASE Ask
  <2>1. PICK asked : asked = Asked
    OBVIOUS
  <2>2. asked \in Items
    <3>1. pass.todo # <<>> /\ IsInjective(pass.todo)
      BY <1>2 DEF Ask, OrderInv, PassInv
    <3> QED
      BY <1>t, <2>1, <3>1, HeadAsked DEF Asked
  <2>3. UNCHANGED <<status, line>> \/ (status' = [status EXCEPT ![asked] = "settled"] /\ line' = Without({asked}))
    BY <1>2, <2>1 DEF Ask
  <2>4. CASE status' = [status EXCEPT ![asked] = "settled"] /\ line' = Without({asked})
    <3>1. i # asked /\ j # asked /\ j \in Open
      BY <1>t, <1>o, <2>2, <2>4
    <3> QED
      BY <2>4, <3>1, LineShrinks
  <2> QED
    BY <1>1, <2>3, <2>4
<1>3. CASE MarkChecked
  <2>1. PICK marked : marked = pass.answered
    OBVIOUS
  <2>2. pass.pc = "mark" /\ line' = Without(marked) \o ById(marked) /\ marked \in SUBSET Items
    BY <1>3, <1>t, <2>1 DEF MarkChecked
  <2>3. j \in Open
    BY <1>3, <1>t, <1>o DEF MarkChecked
  <2>4. i \in marked
    BY <2>2, <2>3, LineTurns
  <2> QED
    BY <2>1, <2>2, <2>4
<1>4. CASE ExpireStaleItems
  <2>1. PICK gone : gone = late
    OBVIOUS
  <2>2. status' = [k \in Items |-> IF k \in Open \cap gone THEN "expired" ELSE status[k]] /\ line' = Without(gone)
    BY <1>4, <2>1 DEF ExpireStaleItems
  <2>3. i \notin gone /\ j \notin gone /\ j \in Open
    BY <1>t, <1>o, <2>2
  <2> QED
    BY <2>2, <2>3, LineShrinks
<1>5. CASE StartPass \/ AskingEnds \/ AgentClaims \/ AgentSwept \/ PassFails \/ AppClaims \/ AppRefused \/ AppSwept
  <2>1. UNCHANGED <<status, line>>
    BY <1>5 DEF StartPass, AskingEnds, AgentClaims, AgentSwept, PassFails, AppClaims, AppRefused, AppSwept, items
  <2> QED
    BY <1>1, <2>1
<1>6. CASE \E k \in Items : Ages(k)
  BY <1>1, <1>6 DEF Ages
<1>7. CASE ArrGoesDown \/ ArrComesBack \/ Switch \/ Restart \/ Tick \/ UNCHANGED vars
  BY <1>1, <1>7 DEF ArrGoesDown, ArrComesBack, Switch, Restart, Tick, vars, items
<1>8. CASE FileItem
  <2>1. PICK new \in Items : status[new] = "unfiled" /\ status' = [status EXCEPT ![new] = "open"] /\ UNCHANGED line
    BY <1>8 DEF FileItem
  <2>2. Before(j, i)
    BY <2>1 DEF Before
  <2>3. status[j] = "unfiled"
    BY <1>t, <1>o, <2>1, <2>2
  <2>4. CASE i \notin ToSet(line)
    <3>1. j < i
      BY <2>2, <2>4 DEF Before, Follows, ToSet
    <3>2. i < j /\ i \in Int /\ j \in Int
      BY <1>t, <2>3, SizesAssumption DEF Items
    <3> QED
      BY <3>1, <3>2
  <2> QED
    BY <2>3, <2>4
<1> QED
  BY <1>2, <1>3, <1>4, <1>5, <1>6, <1>7, <1>8 DEF Next, PassStep

\* The order of the passes is first come, first asked: no open item loses its place
\* to one that was asked or filed before it, whatever outages, aborted passes and
\* restarts there are (get_pending_items, mark_checked).
THEOREM NobodyIsOvertaken == Spec => NobodyOvertakes
<1>1. ASSUME OrderInv, [Next]_vars
      PROVE  [\A i \in Open \cap Open' :
                 \/ pass.pc = "mark" /\ i \in pass.answered
                 \/ \A j \in Ahead(i)' \ Ahead(i) : status[j] = "unfiled" /\ i \in ToSet(line)]_vars
  <2>1. ASSUME NEW i \in Open \cap Open', NEW j \in Ahead(i)' \ Ahead(i)
        PROVE  \/ pass.pc = "mark" /\ i \in pass.answered
               \/ status[j] = "unfiled" /\ i \in ToSet(line)
    <3>1. j \in Open' /\ Before(j, i)' /\ ~(j \in Open /\ Before(j, i))
      BY <2>1 DEF Ahead
    <3>2. i \in Items /\ j \in Items
      BY <2>1, <3>1 DEF Open
    <3> QED
      BY <1>1, <2>1, <3>1, <3>2, OvertakesStep
  <2> QED
    BY <2>1
<1> QED
  BY <1>1, OrderInit, OrderStep, PTL DEF Spec, NobodyOvertakes

\* A pass leaves an item out only for a full batch of items before it, so what is
\* in front of an item shrinks with every pass *arr answers
\* (get_pending_items, "cannot starve every newer one").
THEOREM BatchesAreFull == Spec => FullBatchAhead
<1>1. ASSUME OrderInv
      PROVE  [StartPass => \A i \in Open \ ToSet(pass.todo') :
                 Len(pass.todo') = MaxPerRun /\ ToSet(pass.todo') \subseteq Ahead(i)]_vars
  <2>1. ASSUME StartPass, NEW i \in Open \ ToSet(pass.todo')
        PROVE  Len(pass.todo') = MaxPerRun /\ ToSet(pass.todo') \subseteq Ahead(i)
    <3>1. PICK batch : batch = PendingItems
      OBVIOUS
    <3>2. pass'.todo = batch
      BY <2>1, <3>1 DEF StartPass, NoPass
    <3>3. /\ ToSet(batch) \subseteq Open
          /\ \A k \in Open \ ToSet(batch) :
                Len(batch) = MaxPerRun /\ \A j \in ToSet(batch) : Before(j, k)
      BY <1>1, <3>1, BatchTaken DEF OrderInv
    <3> QED
      BY <2>1, <3>2, <3>3 DEF Ahead
  <2> QED
    BY <2>1
<1> QED
  BY <1>1, OrderInit, OrderStep, PTL DEF Spec, FullBatchAhead
=============================================================================
