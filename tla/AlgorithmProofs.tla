--------------------------- MODULE AlgorithmProofs ---------------------------
(***************************************************************************)
(* What the algorithms of the services compute, for every value of the     *)
(* constants.  Where an argument goes by induction, it takes the least     *)
(* number at which the statement fails.                                    *)
(***************************************************************************)
EXTENDS Services, Integers, Sequences, FunctionTheorems, FiniteSetTheorems,
    SequenceTheorems, NaturalsInduction, WellFoundedInduction, TLAPS

-----------------------------------------------------------------------------
(* Induction                                                               *)

\* Numbers of which there is one have a least one: the proofs by induction
\* below start from it.
LEMMA LeastNumber ==
    ASSUME NEW set \in SUBSET Nat, set # {}
    PROVE  \E n \in set : \A m \in set : n <= m
<1>1. IsWellFoundedOn(OpToRel(<, Nat), Nat)
  BY NatLessThanWellFounded
<1>2. PICK n \in set : \A m \in set : ~ (<<m, n>> \in OpToRel(<, Nat))
  BY <1>1, WFMin
<1>3. \A m \in set : ~(m < n)
  BY <1>2 DEF OpToRel
<1> QED BY <1>3

\* A value that each of n steps maps in turn has a history, whatever the
\* steps are: this is what gives the recursive functions of the models their
\* equations.
LEMMA Iteration ==
    ASSUME NEW set, NEW x \in set, NEW n \in Nat, NEW step \in [1 .. n -> [set -> set]]
    PROVE  \E f \in [0 .. n -> set] :
              f[0] = x /\ \A k \in 1 .. n : f[k] = step[k][f[k - 1]]
<1> DEFINE Made(m) == \E f \in [0 .. m -> set] :
                         f[0] = x /\ \A k \in 1 .. m : f[k] = step[k][f[k - 1]]
           failing == {m \in 0 .. n : ~Made(m)}
<1>1. SUFFICES failing = {}
  BY <1>1
<1>2. SUFFICES ASSUME failing # {} PROVE FALSE
  OBVIOUS
<1>3. PICK m \in failing : \A o \in failing : m <= o
  <2>1. failing \in SUBSET Nat
    OBVIOUS
  <2> HIDE DEF failing
  <2> QED BY <1>2, <2>1, LeastNumber
<1>4. m \in 0 .. n /\ ~Made(m)
  OBVIOUS
<1>5. Made(0)
  <2> DEFINE f == [i \in 0 .. 0 |-> x]
  <2>1. f \in [0 .. 0 -> set] /\ f[0] = x
    OBVIOUS
  <2>2. \A k \in 1 .. 0 : f[k] = step[k][f[k - 1]]
    OBVIOUS
  <2> QED BY <2>1, <2>2
<1>6. m - 1 \in 0 .. n /\ m \in 1 .. n
  <2>1. m # 0
    <3> HIDE DEF Made
    <3> QED BY <1>4, <1>5
  <2> QED BY <1>4, <2>1
<1>7. Made(m - 1)
  <2>1. m - 1 \notin failing
    <3> HIDE DEF failing
    <3> QED BY <1>3, <1>6
  <2> QED BY <1>6, <2>1
<1>8. PICK f \in [0 .. m - 1 -> set] :
         f[0] = x /\ \A k \in 1 .. m - 1 : f[k] = step[k][f[k - 1]]
  BY <1>7
<1>9. Made(m)
  <2> DEFINE g == [i \in 0 .. m |-> IF i = m THEN step[m][f[m - 1]] ELSE f[i]]
  <2>1. f[m - 1] \in set /\ step[m] \in [set -> set]
    BY <1>6
  <2>2. g \in [0 .. m -> set]
    BY <1>6, <2>1
  <2>3. g[0] = x
    BY <1>6, <1>8
  <2>4. ASSUME NEW k \in 1 .. m PROVE g[k] = step[k][g[k - 1]]
    BY <1>6, <1>8
  <2> HIDE DEF g
  <2> QED BY <2>2, <2>3, <2>4
<1> QED BY <1>4, <1>9

-----------------------------------------------------------------------------
(* RoutingRules                                                            *)

\* The two names of the cardinal are one operator.
LEMMA CardinalityOfRules ==
    ASSUME NEW set PROVE R!Cardinality(set) = Cardinality(set)
BY DEF R!Cardinality, Cardinality

\* The rank of a position among finitely many grows with it, so that every
\* rank is that of one of them.
LEMMA RanksAreOnto ==
    ASSUME NEW set \in SUBSET Nat, IsFiniteSet(set)
    PROVE  /\ Cardinality(set) \in Nat
           /\ \A i \in set : Cardinality({j \in set : j <= i}) \in 1 .. Cardinality(set)
           /\ \A i, k \in set :
                 i < k => Cardinality({j \in set : j <= i}) < Cardinality({j \in set : j <= k})
           /\ \A r \in 1 .. Cardinality(set) :
                 \E i \in set : Cardinality({j \in set : j <= i}) = r
<1> DEFINE c == Cardinality(set)
           rank == [i \in set |-> Cardinality({j \in set : j <= i})]
<1>1. c \in Nat
  BY FS_CardinalityType
<1>2. ASSUME NEW i \in set
      PROVE  /\ IsFiniteSet({j \in set : j <= i})
             /\ Cardinality({j \in set : j <= i}) \in 1 .. c
  <2>1. {j \in set : j <= i} \in SUBSET set
    OBVIOUS
  <2>2. IsFiniteSet({j \in set : j <= i}) /\ Cardinality({j \in set : j <= i}) <= c
    BY <2>1, FS_Subset
  <2>3. Cardinality({j \in set : j <= i}) \in Nat
    BY <2>2, FS_CardinalityType
  <2>4. i \in {j \in set : j <= i}
    OBVIOUS
  <2>5. Cardinality({j \in set : j <= i}) # 0
    BY <2>2, <2>4, FS_EmptySet
  <2> QED BY <1>1, <2>2, <2>3, <2>5
<1>3. ASSUME NEW i \in set, NEW k \in set, i < k
      PROVE  Cardinality({j \in set : j <= i}) < Cardinality({j \in set : j <= k})
  <2> DEFINE small == {j \in set : j <= i}
             large == {j \in set : j <= k}
  <2>1. small \in SUBSET large /\ k \in large /\ k \notin small
    <3>1. i \in Nat /\ k \in Nat
      OBVIOUS
    <3>2. \A j \in set : j <= i => j <= k
      BY <1>3, <3>1
    <3>3. k \in large /\ k \notin small
      BY <1>3, <3>1
    <3>4. \A j : j \in small => j \in large
      BY <3>2
    <3> HIDE DEF small, large
    <3> QED BY <3>3, <3>4
  <2>2. IsFiniteSet(large) /\ Cardinality(small) \in Nat /\ Cardinality(large) \in Nat
    BY <1>1, <1>2
  <2>3. Cardinality(small) <= Cardinality(large)
        /\ (Cardinality(large) = Cardinality(small) => large = small)
    <3> HIDE DEF small, large
    <3> QED BY <2>1, <2>2, FS_Subset
  <2> QED BY <2>1, <2>2, <2>3
<1>4. rank \in Injection(set, 1 .. c)
  <2>1. rank \in [set -> 1 .. c]
    BY <1>2
  <2>2. ASSUME NEW a \in set, NEW b \in set, rank[a] = rank[b] PROVE a = b
    <3>1. a \in Nat /\ b \in Nat /\ rank[a] \in Nat /\ rank[b] \in Nat
      BY <2>1
    <3>2. ~(a < b) /\ ~(b < a)
      BY <1>3, <2>2, <3>1
    <3> QED BY <3>1, <3>2
  <2> QED BY <2>1, <2>2 DEF Injection, IsInjective
<1>5. IsFiniteSet(1 .. c) /\ Cardinality(1 .. c) = c
  BY <1>1, FS_Interval
<1>6. rank \in Surjection(set, 1 .. c)
  BY <1>4, <1>5, FS_Injection
<1>7. ASSUME NEW r \in 1 .. c PROVE \E i \in set : Cardinality({j \in set : j <= i}) = r
  BY <1>6 DEF Surjection
<1> QED BY <1>1, <1>2, <1>3, <1>7

\* The elements of s at the positions `at' gives.
Picked(s, at, m) == [k \in 1 .. m |-> s[at[k]]]

\* What is kept of a sequence are the elements at the positions kept, one for
\* each of them.
LEMMA KeptElements ==
    ASSUME NEW s, NEW n \in Nat, NEW set \in SUBSET (1 .. n)
    PROVE  \E m \in Nat : \E at \in Bijection(1 .. m, set) :
              R!Kept(s, set) = Picked(s, at, m)
<1> DEFINE m == Cardinality(set)
           place(k) == CHOOSE i \in set : R!Cardinality({j \in set : j <= i}) = k
           at == [k \in 1 .. m |-> place(k)]
<1>1. IsFiniteSet(set) /\ set \in SUBSET Nat
  <2>1. IsFiniteSet(1 .. n)
    BY FS_Interval
  <2>2. IsFiniteSet(set)
    BY <2>1, FS_Subset
  <2> QED BY <2>2
<1>2. m \in Nat
  BY <1>1, RanksAreOnto
<1>3. ASSUME NEW k \in 1 .. m
      PROVE  at[k] \in set /\ Cardinality({j \in set : j <= at[k]}) = k
  <2>1. PICK i \in set : Cardinality({j \in set : j <= i}) = k
    BY <1>1, RanksAreOnto
  <2>2. R!Cardinality({j \in set : j <= i}) = k
    BY <2>1, CardinalityOfRules
  <2>3. place(k) \in set /\ R!Cardinality({j \in set : j <= place(k)}) = k
    BY <2>2
  <2>4. at[k] = place(k)
    OBVIOUS
  <2> HIDE DEF place, at
  <2> QED BY <2>3, <2>4, CardinalityOfRules
<1>4. ASSUME NEW i \in set PROVE \E k \in 1 .. m : at[k] = i
  <2> DEFINE k == Cardinality({j \in set : j <= i})
  <2>1. k \in 1 .. m
    BY <1>1, RanksAreOnto
  <2>2. at[k] \in set /\ Cardinality({j \in set : j <= at[k]}) = k
    BY <1>3, <2>1
  <2>3. PICK o \in set : o = at[k]
    BY <2>2
  <2>4. Cardinality({j \in set : j <= o}) = Cardinality({j \in set : j <= i})
    BY <2>2, <2>3
  <2>5. Cardinality({j \in set : j <= i}) \in Nat
    BY <2>1
  <2>6. ~(o < i) /\ ~(i < o)
    BY <1>1, <2>4, <2>5, RanksAreOnto
  <2>7. o \in Nat /\ i \in Nat
    BY <1>1
  <2>8. o = i
    BY <2>6, <2>7
  <2> HIDE DEF k, at
  <2> QED BY <2>1, <2>3, <2>8
<1>5. at \in Bijection(1 .. m, set)
  <2>1. at \in [1 .. m -> set]
    BY <1>3
  <2>2. \A a, b \in 1 .. m : at[a] = at[b] => a = b
    BY <1>3
  <2> HIDE DEF at
  <2> QED BY <1>4, <2>1, <2>2 DEF Bijection, Injection, Surjection, IsInjective
<1>6. R!Kept(s, set) = [k \in 1 .. m |-> s[at[k]]]
  <2>1. R!Cardinality(set) = m
    BY CardinalityOfRules
  <2> QED BY <2>1 DEF R!Kept
<1> HIDE DEF at
<1> QED BY <1>2, <1>5, <1>6 DEF Picked

RulesInv ==
    /\ ruleList \in Seq(R!Rule) /\ rulesLoaded \in Seq(R!Rule)
    /\ \A i, j \in DOMAIN ruleList : ruleList[i].name = ruleList[j].name => i = j

\* There is no rule at first.
LEMMA RulesInit == R!Init => RulesInv
BY DEF R!Init, RulesInv

\* Kept positions give a shorter list of rules, each still once.
LEMMA KeptRules ==
    ASSUME NEW rs \in Seq(R!Rule), NEW set \in SUBSET DOMAIN rs,
           \A i, j \in DOMAIN rs : rs[i].name = rs[j].name => i = j
    PROVE  /\ R!Kept(rs, set) \in Seq(R!Rule)
           /\ \A i, j \in DOMAIN R!Kept(rs, set) :
                 R!Kept(rs, set)[i].name = R!Kept(rs, set)[j].name => i = j
           /\ R!RuleNames(R!Kept(rs, set)) = {rs[i].name : i \in set}
<1>1. PICK n \in Nat : n = Len(rs) /\ DOMAIN rs = 1 .. n
  OBVIOUS
<1>2. PICK m \in Nat : \E at \in Bijection(1 .. m, set) :
         R!Kept(rs, set) = Picked(rs, at, m)
  <2>1. set \in SUBSET (1 .. n)
    BY <1>1
  <2> QED BY <2>1, KeptElements
<1>3. PICK at \in Bijection(1 .. m, set) : R!Kept(rs, set) = Picked(rs, at, m)
  BY <1>2
<1>4. /\ at \in [1 .. m -> set]
      /\ \A a, b \in 1 .. m : at[a] = at[b] => a = b
      /\ \A i \in set : \E k \in 1 .. m : at[k] = i
  BY DEF Bijection, Injection, Surjection, IsInjective
<1>5. PICK kept : kept = R!Kept(rs, set)
  OBVIOUS
<1>6. kept = [k \in 1 .. m |-> rs[at[k]]]
  BY <1>3, <1>5 DEF Picked
<1>7. \A k \in 1 .. m : at[k] \in DOMAIN rs /\ rs[at[k]] \in R!Rule
  BY <1>1, <1>4
<1>8. kept \in Seq(R!Rule) /\ DOMAIN kept = 1 .. m
  BY <1>6, <1>7
<1>9. \A i, j \in DOMAIN kept : kept[i].name = kept[j].name => i = j
  BY <1>4, <1>6, <1>7, <1>8
<1>10. R!RuleNames(kept) = {rs[i].name : i \in set}
  BY <1>4, <1>6, <1>8 DEF R!RuleNames
<1> QED BY <1>5, <1>8, <1>9, <1>10

\* A list of the page names each rule once.
LEMMA PageLists ==
    ASSUME NEW names, NEW set \in SUBSET Names, names \in R!SetToSeqs(set)
    PROVE  /\ names \in Seq(Names)
           /\ \A i, j \in DOMAIN names : names[i] = names[j] => i = j
<1>1. IsFiniteSet(set)
  BY RulesAssumption, FS_Subset
<1>2. R!Cardinality(set) \in Nat
  BY <1>1, FS_CardinalityType, CardinalityOfRules
<1>3. /\ names \in [1 .. R!Cardinality(set) -> set]
      /\ \A i, j \in 1 .. R!Cardinality(set) : i # j => names[i] # names[j]
  BY DEF R!SetToSeqs
<1>4. names \in Seq(set)
  BY <1>2, <1>3
<1> QED BY <1>3, <1>4

\* Names kept of a list without repetition are still listed once.
LEMMA KeptNames ==
    ASSUME NEW names \in Seq(Names), NEW set \in SUBSET DOMAIN names,
           \A i, j \in DOMAIN names : names[i] = names[j] => i = j
    PROVE  /\ R!Kept(names, set) \in Seq(Names)
           /\ \A i, j \in DOMAIN R!Kept(names, set) :
                 R!Kept(names, set)[i] = R!Kept(names, set)[j] => i = j
           /\ R!Range(R!Kept(names, set)) = {names[i] : i \in set}
<1>1. PICK n \in Nat : n = Len(names) /\ DOMAIN names = 1 .. n
  OBVIOUS
<1>2. PICK m \in Nat : \E at \in Bijection(1 .. m, set) :
         R!Kept(names, set) = Picked(names, at, m)
  <2>1. set \in SUBSET (1 .. n)
    BY <1>1
  <2> QED BY <2>1, KeptElements
<1>3. PICK at \in Bijection(1 .. m, set) : R!Kept(names, set) = Picked(names, at, m)
  BY <1>2
<1>4. /\ at \in [1 .. m -> set]
      /\ \A a, b \in 1 .. m : at[a] = at[b] => a = b
      /\ \A i \in set : \E k \in 1 .. m : at[k] = i
  BY DEF Bijection, Injection, Surjection, IsInjective
<1>5. PICK kept : kept = R!Kept(names, set)
  OBVIOUS
<1>6. kept = [k \in 1 .. m |-> names[at[k]]]
  BY <1>3, <1>5 DEF Picked
<1>7. \A k \in 1 .. m : at[k] \in DOMAIN names /\ names[at[k]] \in Names
  BY <1>1, <1>4
<1>8. kept \in Seq(Names) /\ DOMAIN kept = 1 .. m
  BY <1>6, <1>7
<1>9. \A i, j \in DOMAIN kept : kept[i] = kept[j] => i = j
  BY <1>4, <1>6, <1>7, <1>8
<1>10. R!Range(kept) = {names[i] : i \in set}
  <2>1. \A k \in 1 .. m : at[k] \in set /\ kept[k] = names[at[k]]
    BY <1>4, <1>6
  <2>2. ASSUME NEW x \in R!Range(kept) PROVE x \in {names[i] : i \in set}
    <3>1. PICK k \in 1 .. m : x = kept[k]
      BY <1>8 DEF R!Range
    <3> QED BY <2>1, <3>1
  <2>3. ASSUME NEW i \in set PROVE names[i] \in R!Range(kept)
    <3>1. PICK k \in 1 .. m : at[k] = i
      BY <1>4
    <3>2. kept[k] = names[i]
      BY <2>1, <3>1
    <3> QED BY <1>8, <3>2 DEF R!Range
  <2> QED BY <2>2, <2>3
<1> QED BY <1>5, <1>8, <1>9, <1>10

\* A reordering keeps the rules, each once: those of the list first, the
\* others after them.
LEMMA ReorderedRules ==
    ASSUME RulesInv, NEW set \in SUBSET Names, NEW names \in R!SetToSeqs(set),
           R!Reorder(names)
    PROVE  /\ ruleList' \in Seq(R!Rule)
           /\ \A i, j \in DOMAIN ruleList' : ruleList'[i].name = ruleList'[j].name => i = j
           /\ R!RuleNames(ruleList') = R!RuleNames(ruleList)
<1>1. /\ names \in Seq(Names)
      /\ \A i, j \in DOMAIN names : names[i] = names[j] => i = j
  BY PageLists
<1>2. /\ ruleList \in Seq(R!Rule)
      /\ \A i, j \in DOMAIN ruleList : ruleList[i].name = ruleList[j].name => i = j
  BY DEF RulesInv
<1> DEFINE inList == {i \in DOMAIN names : names[i] \in R!RuleNames(ruleList)}
           offList == {i \in DOMAIN ruleList : ruleList[i].name \notin R!Range(names)}
           byName(n) == ruleList[CHOOSE i \in DOMAIN ruleList : ruleList[i].name = n]
<1>3. PICK known : known = R!Kept(names, inList)
  OBVIOUS
<1>4. PICK others : others = R!Unlisted(names)
  OBVIOUS
<1>5. ruleList' = [i \in DOMAIN known |-> byName(known[i])] \o others
  BY <1>3, <1>4 DEF R!Reorder
<1>6. /\ known \in Seq(Names)
      /\ \A i, j \in DOMAIN known : known[i] = known[j] => i = j
      /\ R!Range(known) = {names[i] : i \in inList}
  <2>1. inList \in SUBSET DOMAIN names
    OBVIOUS
  <2> HIDE DEF inList
  <2> QED BY <1>1, <1>3, <2>1, KeptNames
<1>7. /\ others \in Seq(R!Rule)
      /\ \A i, j \in DOMAIN others : others[i].name = others[j].name => i = j
      /\ R!RuleNames(others) = {ruleList[i].name : i \in offList}
  <2>1. offList \in SUBSET DOMAIN ruleList
    OBVIOUS
  <2>2. others = R!Kept(ruleList, offList)
    BY <1>4 DEF R!Unlisted
  <2> HIDE DEF offList
  <2> QED BY <1>2, <2>1, <2>2, KeptRules
<1>8. ASSUME NEW n \in R!RuleNames(ruleList)
      PROVE  byName(n) \in R!Rule /\ byName(n).name = n
  <2>1. PICK i \in DOMAIN ruleList : ruleList[i].name = n
    BY DEF R!RuleNames
  <2>2. PICK k \in DOMAIN ruleList : k = CHOOSE o \in DOMAIN ruleList : ruleList[o].name = n
    BY <2>1
  <2>3. ruleList[k].name = n
    BY <2>1, <2>2
  <2>4. ruleList[k] \in R!Rule
    BY <1>2
  <2> QED BY <2>2, <2>3, <2>4
<1>9. PICK first : first = [i \in DOMAIN known |-> byName(known[i])]
  OBVIOUS
<1>10. ASSUME NEW i \in DOMAIN known
       PROVE  known[i] \in R!RuleNames(ruleList) /\ known[i] \in R!Range(names)
  <2>1. known[i] \in R!Range(known)
    BY DEF R!Range
  <2>2. PICK k \in inList : known[i] = names[k]
    BY <1>6, <2>1
  <2> QED BY <2>2 DEF R!Range
<1>11. /\ first \in Seq(R!Rule) /\ DOMAIN first = DOMAIN known
       /\ \A i \in DOMAIN known : first[i].name = known[i]
  <2>1. DOMAIN first = DOMAIN known
    BY <1>9
  <2>2. \A i \in DOMAIN known : first[i] \in R!Rule /\ first[i].name = known[i]
    BY <1>8, <1>9, <1>10
  <2>3. DOMAIN known = 1 .. Len(known) /\ Len(known) \in Nat
    BY <1>6
  <2>4. first = [i \in 1 .. Len(known) |-> first[i]]
    BY <1>9, <2>1, <2>3
  <2>5. \A i \in 1 .. Len(known) : first[i] \in R!Rule
    BY <2>2, <2>3
  <2>6. first \in Seq(R!Rule)
    BY <2>3, <2>4, <2>5
  <2> QED BY <2>1, <2>2, <2>6
<1>12. ruleList' = first \o others
  BY <1>5, <1>9
<1>13. PICK n \in Nat : n = Len(first) /\ DOMAIN first = 1 .. n
  BY <1>11
<1>14. PICK o \in Nat : o = Len(others) /\ DOMAIN others = 1 .. o
  BY <1>7
<1>15. /\ ruleList' \in Seq(R!Rule) /\ DOMAIN ruleList' = 1 .. n + o
       /\ \A i \in 1 .. n : ruleList'[i] = first[i]
       /\ \A i \in n + 1 .. n + o : ruleList'[i] = others[i - n]
  BY <1>7, <1>11, <1>12, <1>13, <1>14
<1>16. ASSUME NEW i \in 1 .. n, NEW j \in 1 .. o PROVE first[i].name # others[j].name
  <2>1. first[i].name \in R!Range(names)
    BY <1>10, <1>11, <1>13
  <2>2. others[j].name \in R!RuleNames(others)
    BY <1>14 DEF R!RuleNames
  <2>3. others[j].name \notin R!Range(names)
    BY <1>7, <2>2
  <2> QED BY <2>1, <2>3
<1>17. \A i, j \in DOMAIN ruleList' : ruleList'[i].name = ruleList'[j].name => i = j
  <2> SUFFICES ASSUME NEW i \in 1 .. n + o, NEW j \in 1 .. n + o,
                      ruleList'[i].name = ruleList'[j].name
               PROVE  i = j
    BY <1>15
  <2>1. CASE i <= n /\ j <= n
    <3>1. i \in 1 .. n /\ j \in 1 .. n
      BY <2>1
    <3>2. first[i].name = first[j].name
      BY <1>15, <3>1
    <3> QED BY <1>6, <1>11, <1>13, <3>1, <3>2
  <2>2. CASE i > n /\ j > n
    <3>1. i - n \in 1 .. o /\ j - n \in 1 .. o /\ i \in n + 1 .. n + o /\ j \in n + 1 .. n + o
      BY <2>2
    <3>2. others[i - n].name = others[j - n].name
      BY <1>15, <3>1
    <3>3. i - n = j - n
      BY <1>7, <1>14, <3>1, <3>2
    <3> QED BY <3>3
  <2>3. CASE i <= n /\ j > n
    <3>1. i \in 1 .. n /\ j - n \in 1 .. o /\ j \in n + 1 .. n + o
      BY <2>3
    <3> QED BY <1>15, <1>16, <3>1
  <2>4. CASE i > n /\ j <= n
    <3>1. j \in 1 .. n /\ i - n \in 1 .. o /\ i \in n + 1 .. n + o
      BY <2>4
    <3> QED BY <1>15, <1>16, <3>1
  <2> QED BY <2>1, <2>2, <2>3, <2>4
<1>18. R!RuleNames(ruleList') = R!RuleNames(ruleList)
  <2>1. ASSUME NEW x \in R!RuleNames(ruleList') PROVE x \in R!RuleNames(ruleList)
    <3>1. PICK i \in 1 .. n + o : x = ruleList'[i].name
      BY <1>15 DEF R!RuleNames
    <3>2. CASE i <= n
      <4>1. i \in 1 .. n
        BY <3>2
      <4>2. x = known[i] /\ i \in DOMAIN known
        BY <1>11, <1>13, <1>15, <3>1, <4>1
      <4> QED BY <1>10, <4>2
    <3>3. CASE i > n
      <4>1. i - n \in 1 .. o /\ i \in n + 1 .. n + o
        BY <3>3
      <4>2. x = others[i - n].name
        BY <1>15, <3>1, <4>1
      <4>3. x \in R!RuleNames(others)
        BY <1>14, <4>1, <4>2 DEF R!RuleNames
      <4>4. PICK k \in offList : x = ruleList[k].name
        BY <1>7, <4>3
      <4> QED BY <4>4 DEF R!RuleNames
    <3> QED BY <3>2, <3>3
  <2>2. ASSUME NEW x \in R!RuleNames(ruleList) PROVE x \in R!RuleNames(ruleList')
    <3>1. PICK i \in DOMAIN ruleList : x = ruleList[i].name
      BY DEF R!RuleNames
    <3>2. CASE x \in R!Range(names)
      <4>1. PICK k \in DOMAIN names : x = names[k]
        BY <3>2 DEF R!Range
      <4>2. x \in R!Range(known)
        BY <1>6, <4>1
      <4>3. PICK l \in DOMAIN known : x = known[l]
        BY <4>2 DEF R!Range
      <4>4. l \in 1 .. n /\ l \in 1 .. n + o
        BY <1>11, <1>13
      <4>5. x = ruleList'[l].name
        BY <1>11, <1>15, <4>3, <4>4
      <4> QED BY <1>15, <4>4, <4>5 DEF R!RuleNames
    <3>3. CASE x \notin R!Range(names)
      <4>1. x \in R!RuleNames(others)
        BY <1>7, <3>1, <3>3
      <4>2. PICK l \in 1 .. o : x = others[l].name
        BY <1>14, <4>1 DEF R!RuleNames
      <4>3. l + n \in n + 1 .. n + o /\ (l + n) - n = l /\ l + n \in 1 .. n + o
        OBVIOUS
      <4>4. x = ruleList'[l + n].name
        BY <1>15, <4>2, <4>3
      <4> QED BY <1>15, <4>3, <4>4 DEF R!RuleNames
    <3> QED BY <3>2, <3>3
  <2> QED BY <2>1, <2>2
<1> QED BY <1>15, <1>17, <1>18

\* An edit takes the place of the rule of that name, or the last one.
LEMMA RulesStep == RulesInv /\ R!Next => RulesInv'
<1> SUFFICES ASSUME RulesInv, R!Next PROVE RulesInv'
  OBVIOUS
<1>1. /\ ruleList \in Seq(R!Rule) /\ rulesLoaded \in Seq(R!Rule)
      /\ \A i, j \in DOMAIN ruleList : ruleList[i].name = ruleList[j].name => i = j
  BY DEF RulesInv
<1>2. ASSUME NEW rule \in R!Rule, R!SaveRule(rule) PROVE RulesInv'
  <2>1. CASE rule.name \in R!RuleNames(ruleList)
    <3>1. ruleList' = [i \in DOMAIN ruleList |->
                          IF ruleList[i].name = rule.name THEN rule ELSE ruleList[i]]
          /\ rulesLoaded' = rulesLoaded
      BY <1>2, <2>1 DEF R!SaveRule
    <3>2. DOMAIN ruleList' = DOMAIN ruleList /\ ruleList' \in Seq(R!Rule)
      BY <1>1, <3>1
    <3>3. \A i \in DOMAIN ruleList : ruleList'[i].name = ruleList[i].name
      BY <3>1
    <3> QED BY <1>1, <3>1, <3>2, <3>3 DEF RulesInv
  <2>2. CASE rule.name \notin R!RuleNames(ruleList)
    <3>1. ruleList' = Append(ruleList, rule) /\ rulesLoaded' = rulesLoaded
      BY <1>2, <2>2 DEF R!SaveRule
    <3>2. PICK n \in Nat : n = Len(ruleList) /\ DOMAIN ruleList = 1 .. n
      BY <1>1
    <3>3. /\ ruleList' \in Seq(R!Rule) /\ DOMAIN ruleList' = 1 .. n + 1
          /\ \A i \in 1 .. n : ruleList'[i] = ruleList[i]
          /\ ruleList'[n + 1] = rule
      BY <1>1, <3>1, <3>2
    <3>4. \A i \in 1 .. n : ruleList[i].name # rule.name
      BY <2>2, <3>2 DEF R!RuleNames
    <3>5. \A i, j \in 1 .. n + 1 : ruleList'[i].name = ruleList'[j].name => i = j
      <4> SUFFICES ASSUME NEW i \in 1 .. n + 1, NEW j \in 1 .. n + 1,
                          ruleList'[i].name = ruleList'[j].name
                   PROVE  i = j
        OBVIOUS
      <4>1. CASE i \in 1 .. n /\ j \in 1 .. n
        BY <1>1, <3>2, <3>3, <4>1
      <4>2. CASE i = n + 1 /\ j \in 1 .. n
        BY <3>3, <3>4, <4>2
      <4>3. CASE j = n + 1 /\ i \in 1 .. n
        BY <3>3, <3>4, <4>3
      <4> QED BY <4>1, <4>2, <4>3
    <3> QED BY <1>1, <3>1, <3>3, <3>5 DEF RulesInv
  <2> QED BY <2>1, <2>2
<1>3. ASSUME NEW name \in Names, R!Delete(name) PROVE RulesInv'
  <2>1. PICK set \in SUBSET DOMAIN ruleList : ruleList' = R!Kept(ruleList, set)
    BY <1>3 DEF R!Delete
  <2>2. rulesLoaded' = rulesLoaded
    BY <1>3 DEF R!Delete
  <2> QED BY <1>1, <2>1, <2>2, KeptRules DEF RulesInv
<1>4. ASSUME NEW set \in SUBSET Names, NEW names \in R!SetToSeqs(set), R!Reorder(names)
      PROVE  RulesInv'
  <2>1. rulesLoaded' = rulesLoaded
    BY <1>4 DEF R!Reorder
  <2> QED BY <1>1, <1>4, <2>1, ReorderedRules DEF RulesInv
<1>5. CASE R!Restart
  BY <1>1, <1>5 DEF R!Restart, RulesInv
<1> QED
  BY <1>2, <1>3, <1>4, <1>5 DEF R!Next

\* Distinct names are as many as the rules.
LEMMA NamesCounted == RulesInv => R!TypeOK /\ R!NamesUnique
<1> SUFFICES ASSUME RulesInv PROVE R!TypeOK /\ R!NamesUnique
  OBVIOUS
<1>1. /\ ruleList \in Seq(R!Rule) /\ rulesLoaded \in Seq(R!Rule)
      /\ \A i, j \in DOMAIN ruleList : ruleList[i].name = ruleList[j].name => i = j
  BY DEF RulesInv
<1>2. PICK n \in Nat : n = Len(ruleList) /\ DOMAIN ruleList = 1 .. n
  BY <1>1
<1> DEFINE named == [i \in 1 .. n |-> ruleList[i].name]
<1>3. named \in Bijection(1 .. n, R!RuleNames(ruleList))
  <2>1. named \in [1 .. n -> R!RuleNames(ruleList)]
    BY <1>2 DEF R!RuleNames
  <2>2. \A a, b \in 1 .. n : named[a] = named[b] => a = b
    BY <1>1, <1>2
  <2>3. \A x \in R!RuleNames(ruleList) : \E i \in 1 .. n : named[i] = x
    BY <1>2 DEF R!RuleNames
  <2> HIDE DEF named
  <2> QED BY <2>1, <2>2, <2>3 DEF Bijection, Injection, Surjection, IsInjective
<1>4. Cardinality(R!RuleNames(ruleList)) = n
  <2>1. ExistsBijection(1 .. n, R!RuleNames(ruleList))
    BY <1>3 DEF ExistsBijection
  <2> QED BY <2>1, FS_CountingElements
<1>5. R!NamesUnique
  BY <1>2, <1>4, CardinalityOfRules DEF R!NamesUnique
<1>6. R!TypeOK
  <2>1. R!Range(ruleList) \subseteq R!Rule /\ R!Range(rulesLoaded) \subseteq R!Rule
    BY <1>1 DEF R!Range
  <2> QED BY <2>1 DEF R!TypeOK
<1> QED BY <1>5, <1>6

\* A rule chosen is the first one to match.
LEMMA MatchIsFirst == RulesInv => R!FirstMatchWins
<1> SUFFICES ASSUME RulesInv, NEW name \in SUBSET Patterns, NEW trackers \in SUBSET Patterns
             PROVE  LET m == R!FindMatchingRule(ruleList, name, trackers)
                        hit == {i \in DOMAIN ruleList :
                                   ruleList[i].pattern \in Patterns
                                   /\ R!Matches(ruleList[i], name, trackers)}
                    IN  IF hit = {} THEN m = 0 ELSE m \in hit /\ \A i \in hit : m <= i
  BY DEF R!FirstMatchWins
<1> DEFINE hit == {i \in DOMAIN ruleList : ruleList[i].pattern \in Patterns
                                           /\ R!Matches(ruleList[i], name, trackers)}
           found == {i \in 1 .. Len(ruleList) : ruleList[i].pattern # R!Blank
                                           /\ R!Matches(ruleList[i], name, trackers)}
<1>1. ruleList \in Seq(R!Rule) /\ DOMAIN ruleList = 1 .. Len(ruleList) /\ Len(ruleList) \in Nat
  BY DEF RulesInv
<1>2. found = hit
  <2>1. ASSUME NEW i \in DOMAIN ruleList, R!Matches(ruleList[i], name, trackers)
        PROVE  ruleList[i].pattern # R!Blank <=> ruleList[i].pattern \in Patterns
    <3>1. ruleList[i].pattern \in Patterns
      BY <2>1 DEF R!Matches
    <3> QED BY <3>1, PatternsAssumption DEF R!Blank
  <2> QED BY <1>1, <2>1
<1>3. R!FindMatchingRule(ruleList, name, trackers) = IF found # {} THEN R!Min(found) ELSE 0
  BY DEF R!FindMatchingRule, R!SelectInSeq
<1>4. ASSUME hit # {} PROVE R!Min(hit) \in hit /\ \A i \in hit : R!Min(hit) <= i
  <2>1. hit \in SUBSET Nat
    BY <1>1
  <2>2. \E n \in hit : \A m \in hit : n <= m
    <3> HIDE DEF hit
    <3> QED BY <1>4, <2>1, LeastNumber
  <2> HIDE DEF hit
  <2> QED BY <2>2 DEF R!Min
<1> HIDE DEF hit, found
<1>5. CASE hit = {}
  BY <1>2, <1>3, <1>5 DEF hit
<1>6. CASE hit # {}
  BY <1>2, <1>3, <1>4, <1>6 DEF hit
<1> QED BY <1>5, <1>6

-----------------------------------------------------------------------------
(* Deadlines                                                               *)

\* Queues without a torrent twice.
Orders == {q \in Seq(Queued) : \A i, j \in DOMAIN q : q[i] = q[j] => i = j}

DeadlinesInv ==
    /\ queue \in Orders /\ deadlinesRows \in Seq(Queued)
    /\ deadlinesActive \subseteq Queued
    /\ left \in [Queued -> Y!Lefts \cup {NoDeadline}]

\* A torrent comes before another in a queue.
Before(q, t, u) == \E j, k \in DOMAIN q : j < k /\ q[j] = t /\ q[k] = u

\* Positions tell who comes before whom.
LEMMA PositionIs ==
    ASSUME NEW q \in Orders, NEW i \in DOMAIN q PROVE Y!Position(q, q[i]) = i
BY DEF Orders, Y!Position

\* The order of positions is that of the queue.
LEMMA BeforeIs ==
    ASSUME NEW q \in Orders, NEW t \in Y!Range(q), NEW u \in Y!Range(q)
    PROVE  Y!Position(q, t) < Y!Position(q, u) <=> Before(q, t, u)
<1>1. PICK i \in DOMAIN q : t = q[i]
  BY DEF Y!Range
<1>2. PICK k \in DOMAIN q : u = q[k]
  BY DEF Y!Range
<1>3. Y!Position(q, t) = i /\ Y!Position(q, u) = k
  BY <1>1, <1>2, PositionIs
<1>4. \A a, b \in DOMAIN q : q[a] = q[b] => a = b
  BY DEF Orders
<1> QED BY <1>1, <1>2, <1>3, <1>4 DEF Before

\* A torrent moved up leaves the others in their order, behind it or not, and
\* takes none of them behind itself.
LEMMA UpKeeps ==
    ASSUME NEW q \in Orders, NEW t, NEW n \in Nat
    PROVE  /\ Y!Up(q, t, n) \in Orders
           /\ Y!Range(Y!Up(q, t, n)) = Y!Range(q)
           /\ \A a, b : b # t /\ Before(q, a, b) => Before(Y!Up(q, t, n), a, b)
<1>1. CASE ~Y!Contains(q, t)
  BY <1>1 DEF Y!Up
<1>2. CASE Y!Contains(q, t)
  <2>1. PICK m \in Nat : m = Len(q) /\ DOMAIN q = 1 .. m
    BY DEF Orders
  <2>2. PICK i \in 1 .. m : q[i] = t
    BY <1>2, <2>1 DEF Y!Contains
  <2>3. Y!Position(q, t) = i
    BY <2>1, <2>2, PositionIs
  <2>4. PICK to \in 1 .. m : to = IF i - n < 1 THEN 1 ELSE i - n
    OBVIOUS
  <2>5. to <= i
    BY <2>4
  <2>6. PICK moved : moved = [k \in 1 .. m |-> IF k = to THEN t
                                               ELSE IF to < k /\ k <= i THEN q[k - 1] ELSE q[k]]
    OBVIOUS
  <2>7. Y!Up(q, t, n) = moved
    BY <1>2, <2>1, <2>3, <2>4, <2>6 DEF Y!Up
  <2>8. q \in [1 .. m -> Queued] /\ \A a, b \in 1 .. m : q[a] = q[b] => a = b
    BY <2>1 DEF Orders
  <2>9. /\ moved[to] = q[i]
        /\ \A k \in 1 .. m : to < k /\ k <= i => moved[k] = q[k - 1] /\ k - 1 \in 1 .. m
        /\ \A k \in 1 .. m : k < to \/ i < k => moved[k] = q[k]
    BY <2>2, <2>5, <2>6
  <2>10. moved \in [1 .. m -> Queued]
    <3>1. \A k \in 1 .. m : k = to \/ (to < k /\ k <= i) \/ k < to \/ i < k
      OBVIOUS
    <3>2. \A k \in 1 .. m : moved[k] \in Queued
      BY <2>8, <2>9, <3>1
    <3> QED BY <2>6, <3>2
  <2>11. ASSUME NEW a \in 1 .. m, NEW b \in 1 .. m, a < b, moved[a] = moved[b] PROVE FALSE
    <3>1. CASE a = to
      BY <2>5, <2>8, <2>9, <2>11, <3>1
    <3>2. CASE b = to
      BY <2>5, <2>8, <2>9, <2>11, <3>2
    <3>3. CASE a # to /\ b # to
      BY <2>5, <2>8, <2>9, <2>11, <3>3
    <3> QED BY <3>1, <3>2, <3>3
  <2>12. \A a, b \in 1 .. m : moved[a] = moved[b] => a = b
    BY <2>11
  <2>13. moved \in Orders
    <3>1. moved \in Seq(Queued) /\ DOMAIN moved = 1 .. m
      BY <2>10
    <3> QED BY <2>12, <3>1 DEF Orders
  <2>14. \A j \in 1 .. m : \E k \in 1 .. m :
            /\ moved[k] = q[j]
            /\ j = i => k = to
            /\ to <= j /\ j < i => k = j + 1
            /\ j < to \/ i < j => k = j
    <3> SUFFICES ASSUME NEW j \in 1 .. m
                 PROVE  \E k \in 1 .. m :
                            /\ moved[k] = q[j]
                            /\ j = i => k = to
                            /\ to <= j /\ j < i => k = j + 1
                            /\ j < to \/ i < j => k = j
      OBVIOUS
    <3>1. CASE j = i
      BY <2>5, <2>9, <3>1
    <3>2. CASE to <= j /\ j < i
      <4>1. j + 1 \in 1 .. m /\ (j + 1) - 1 = j
        BY <3>2
      <4>2. moved[j + 1] = q[j]
        BY <2>9, <3>2, <4>1
      <4> QED BY <3>2, <4>1, <4>2
    <3>3. CASE j < to \/ i < j
      BY <2>5, <2>9, <3>3
    <3> QED BY <3>1, <3>2, <3>3
  <2>15. Y!Range(moved) = Y!Range(q)
    <3>1. ASSUME NEW x \in Y!Range(q) PROVE x \in Y!Range(moved)
      <4>1. PICK j \in 1 .. m : x = q[j]
        BY <2>1 DEF Y!Range
      <4>2. PICK k \in 1 .. m : moved[k] = x
        BY <2>14, <4>1
      <4> QED BY <2>10, <4>2 DEF Y!Range
    <3>2. ASSUME NEW x \in Y!Range(moved) PROVE x \in Y!Range(q)
      <4>1. PICK k \in 1 .. m : x = moved[k]
        BY <2>10 DEF Y!Range
      <4>2. k = to \/ (to < k /\ k <= i) \/ k < to \/ i < k
        OBVIOUS
      <4> QED BY <2>1, <2>9, <4>1, <4>2 DEF Y!Range
    <3> QED BY <3>1, <3>2
  <2>16. ASSUME NEW a, NEW b, b # t, Before(q, a, b) PROVE Before(moved, a, b)
    <3>1. PICK j \in 1 .. m, k \in 1 .. m : j < k /\ q[j] = a /\ q[k] = b
      BY <2>1, <2>16 DEF Before
    <3>2. k # i
      BY <2>2, <2>16, <3>1
    <3>3. PICK j2 \in 1 .. m :
             /\ moved[j2] = q[j]
             /\ j = i => j2 = to
             /\ to <= j /\ j < i => j2 = j + 1
             /\ j < to \/ i < j => j2 = j
      BY <2>14
    <3>4. PICK k2 \in 1 .. m :
             /\ moved[k2] = q[k]
             /\ k = i => k2 = to
             /\ to <= k /\ k < i => k2 = k + 1
             /\ k < to \/ i < k => k2 = k
      BY <2>14
    <3>5. j2 < k2
      BY <2>5, <3>1, <3>2, <3>3, <3>4
    <3>6. DOMAIN moved = 1 .. m
      BY <2>10
    <3> QED BY <3>1, <3>3, <3>4, <3>5, <3>6 DEF Before
  <2> QED BY <2>7, <2>13, <2>15, <2>16
<1> QED BY <1>1, <1>2

\* The moves of a torrent whose deadline is near are a number.
LEMMA StepsAre ==
    ASSUME DeadlinesInv, NEW t \in Queued, Y!Urgent(t)
    PROVE  Y!Steps(left[t]) \in Nat
<1>1. left[t] \in Y!Lefts
  BY DEF DeadlinesInv, Y!Urgent
<1> QED BY <1>1 DEF Y!Lefts, Y!Steps

\* The sweep goes through the rows in turn.
LEMMA SweptIs ==
    ASSUME DeadlinesInv
    PROVE  /\ Y!Swept \in [0 .. Len(deadlinesRows) -> Orders]
           /\ Y!Swept[0] = queue
           /\ \A k \in 1 .. Len(deadlinesRows) :
                 Y!Swept[k] = IF Y!Urgent(deadlinesRows[k])
                              THEN Y!Up(Y!Swept[k - 1], deadlinesRows[k],
                                        Y!Steps(left[deadlinesRows[k]]))
                              ELSE Y!Swept[k - 1]
<1>1. PICK n \in Nat : n = Len(deadlinesRows) /\ DOMAIN deadlinesRows = 1 .. n
  BY DEF DeadlinesInv
<1>2. \A k \in 1 .. n : deadlinesRows[k] \in Queued
  BY <1>1 DEF DeadlinesInv
<1> DEFINE push(q, t) == IF Y!Urgent(t) THEN Y!Up(q, t, Y!Steps(left[t])) ELSE q
           step == [k \in 1 .. n |-> [q \in Orders |-> push(q, deadlinesRows[k])]]
<1>3. ASSUME NEW q \in Orders, NEW t \in Queued PROVE push(q, t) \in Orders
  <2>1. CASE Y!Urgent(t)
    BY <2>1, StepsAre, UpKeeps
  <2>2. CASE ~Y!Urgent(t)
    BY <2>2
  <2> QED BY <2>1, <2>2
<1> HIDE DEF push
<1>4. step \in [1 .. n -> [Orders -> Orders]]
  BY <1>2, <1>3
<1>5. queue \in Orders
  BY DEF DeadlinesInv
<1>6. PICK f \in [0 .. n -> Orders] :
         f[0] = queue /\ \A k \in 1 .. n : f[k] = step[k][f[k - 1]]
  <2> HIDE DEF step
  <2> QED BY <1>4, <1>5, Iteration
<1>7. ASSUME NEW k \in 1 .. n PROVE f[k] = push(f[k - 1], deadlinesRows[k])
  <2>1. k - 1 \in 0 .. n
    OBVIOUS
  <2> QED BY <1>6, <2>1
<1>8. f = [k \in 0 .. Len(deadlinesRows) |->
              IF k = 0 THEN queue
              ELSE IF Y!Urgent(deadlinesRows[k])
                   THEN Y!Up(f[k - 1], deadlinesRows[k], Y!Steps(left[deadlinesRows[k]]))
              ELSE f[k - 1]]
  <2>1. \A k \in 0 .. n : k = 0 \/ k \in 1 .. n
    OBVIOUS
  <2> QED BY <1>1, <1>6, <1>7, <2>1 DEF push
<1>9. Y!Swept = [k \in 0 .. Len(deadlinesRows) |->
              IF k = 0 THEN queue
              ELSE IF Y!Urgent(deadlinesRows[k])
                   THEN Y!Up(Y!Swept[k - 1], deadlinesRows[k], Y!Steps(left[deadlinesRows[k]]))
              ELSE Y!Swept[k - 1]]
  BY <1>8 DEF Y!Swept
<1>10. /\ Y!Swept[0] = queue
       /\ \A k \in 1 .. n : Y!Swept[k] = push(Y!Swept[k - 1], deadlinesRows[k])
  <2>1. DOMAIN Y!Swept = 0 .. n /\ 0 \in 0 .. n
    BY <1>1, <1>9
  <2>2. ASSUME NEW k \in 1 .. n PROVE Y!Swept[k] = push(Y!Swept[k - 1], deadlinesRows[k])
    <3>1. k \in 0 .. n /\ k # 0
      OBVIOUS
    <3> QED BY <1>1, <1>9, <3>1 DEF push
  <2>3. Y!Swept[0] = queue
    BY <1>1, <1>9, <2>1
  <2> QED BY <2>2, <2>3
<1> DEFINE apart == {k \in 0 .. n : Y!Swept[k] # f[k]}
<1>11. apart = {}
  <2> SUFFICES ASSUME apart # {} PROVE FALSE
    OBVIOUS
  <2>1. apart \in SUBSET Nat
    OBVIOUS
  <2>2. PICK m \in apart : \A o \in apart : m <= o
    <3> HIDE DEF apart
    <3> QED BY <2>1, LeastNumber
  <2>3. m \in 0 .. n /\ Y!Swept[m] # f[m]
    OBVIOUS
  <2>4. m \in 1 .. n
    BY <1>6, <1>10, <2>3
  <2>5. m - 1 \in 0 .. n /\ m - 1 \notin apart
    <3> HIDE DEF apart
    <3> QED BY <2>2, <2>4
  <2>6. Y!Swept[m - 1] = f[m - 1]
    BY <2>5
  <2> QED BY <1>7, <1>10, <2>3, <2>4, <2>6
<1>12. Y!Swept \in [0 .. n -> Orders]
  <2>1. \A k \in 0 .. n : Y!Swept[k] \in Orders
    BY <1>6, <1>11
  <2> QED BY <1>1, <1>9, <2>1
<1> QED BY <1>1, <1>10, <1>12 DEF push

\* After a sweep, each torrent whose deadline is not near has before it those
\* it had.
LEMMA SweepOrders ==
    ASSUME DeadlinesInv, Y!ApplyDeadlinePriorities
    PROVE  /\ queue' \in Orders /\ Y!Range(queue') = Y!Range(queue)
           /\ \A t, u : ~Y!Urgent(u) /\ Before(queue, t, u) => Before(queue', t, u)
<1>1. PICK n \in Nat : n = Len(deadlinesRows) /\ DOMAIN deadlinesRows = 1 .. n
  BY DEF DeadlinesInv
<1>2. \A k \in 1 .. n : deadlinesRows[k] \in Queued
  BY <1>1 DEF DeadlinesInv
<1> DEFINE Good(q) == /\ Y!Range(q) = Y!Range(queue)
                      /\ \A t, u : ~Y!Urgent(u) /\ Before(queue, t, u) => Before(q, t, u)
           bad == {k \in 0 .. n : ~Good(Y!Swept[k])}
<1>3. Good(queue)
  OBVIOUS
<1>4. ASSUME NEW k \in 1 .. n, Good(Y!Swept[k - 1]) PROVE Good(Y!Swept[k])
  <2>1. PICK q \in Orders : q = Y!Swept[k - 1]
    <3>1. k - 1 \in 0 .. n
      OBVIOUS
    <3> QED BY <1>1, <3>1, SweptIs
  <2>2. CASE Y!Urgent(deadlinesRows[k])
    <3>1. Y!Swept[k] = Y!Up(q, deadlinesRows[k], Y!Steps(left[deadlinesRows[k]]))
      BY <1>1, <2>1, <2>2, SweptIs
    <3>2. Y!Steps(left[deadlinesRows[k]]) \in Nat
      BY <1>2, <2>2, StepsAre
    <3>3. /\ Y!Range(Y!Swept[k]) = Y!Range(q)
          /\ \A a, b : b # deadlinesRows[k] /\ Before(q, a, b) => Before(Y!Swept[k], a, b)
      BY <3>1, <3>2, UpKeeps
    <3> QED BY <1>4, <2>1, <2>2, <3>3
  <2>3. CASE ~Y!Urgent(deadlinesRows[k])
    <3>1. Y!Swept[k] = q
      BY <1>1, <2>1, <2>3, SweptIs
    <3> QED BY <1>4, <2>1, <3>1
  <2> QED BY <2>2, <2>3
<1>5. Y!Swept[0] = queue /\ Y!Swept[n] \in Orders
  <2>1. n \in 0 .. n
    OBVIOUS
  <2> QED BY <1>1, <2>1, SweptIs
<1>6. bad = {}
  <2> SUFFICES ASSUME bad # {} PROVE FALSE
    OBVIOUS
  <2>1. bad \in SUBSET Nat
    OBVIOUS
  <2>2. PICK m \in bad : \A o \in bad : m <= o
    <3> HIDE DEF bad
    <3> QED BY <2>1, LeastNumber
  <2>3. m \in 0 .. n /\ ~Good(Y!Swept[m])
    OBVIOUS
  <2> HIDE DEF Good
  <2>4. m # 0
    BY <1>3, <1>5, <2>3
  <2>5. m \in 1 .. n /\ m - 1 \in 0 .. n
    BY <2>3, <2>4
  <2>6. m - 1 \notin bad
    <3> HIDE DEF bad
    <3> QED BY <2>2, <2>5
  <2> QED BY <1>4, <2>3, <2>5, <2>6
<1>7. Good(Y!Swept[n])
  <2>1. n \in 0 .. n
    OBVIOUS
  <2> HIDE DEF Good
  <2> QED BY <1>6, <2>1
<1>8. queue' = Y!Swept[n]
  BY <1>1 DEF Y!ApplyDeadlinePriorities
<1> QED BY <1>5, <1>7, <1>8

\* The session starts with every torrent in the queue, once.
LEMMA DeadlinesInit == Y!Init => DeadlinesInv
<1> SUFFICES ASSUME Y!Init PROVE DeadlinesInv
  OBVIOUS
<1>1. Y!Cardinality(Queued) = Cardinality(Queued)
  BY DEF Y!Cardinality, Cardinality
<1>2. PICK n \in Nat : n = Cardinality(Queued) /\ ExistsBijection(1 .. n, Queued)
  BY DeadlinesAssumption, FS_CardinalityType
<1>3. PICK f \in [1 .. n -> Queued] : \A a, b \in 1 .. n : f[a] = f[b] => a = b
  BY <1>2 DEF ExistsBijection, Bijection, Injection, IsInjective
<1>4. Y!IsInjective(f)
  BY <1>3 DEF Y!IsInjective
<1>5. Y!SetToSeq(Queued) \in [1 .. n -> Queued] /\ Y!IsInjective(Y!SetToSeq(Queued))
  BY <1>1, <1>2, <1>4 DEF Y!SetToSeq
<1>6. PICK g \in [1 .. n -> Queued] : g = Y!SetToSeq(Queued) /\ Y!IsInjective(g)
  BY <1>5
<1>7. g \in Orders
  <2>1. g \in Seq(Queued) /\ DOMAIN g = 1 .. n
    OBVIOUS
  <2> QED BY <1>6, <2>1 DEF Orders, Y!IsInjective
<1>8. deadlinesRows = g /\ queue = g
  BY <1>6 DEF Y!Init
<1> QED BY <1>7, <1>8 DEF DeadlinesInv, Y!Init, Orders

\* Every move keeps the queue without repetition, and so does the end of a
\* download, which closes the gap.
LEMMA DeadlinesStep == DeadlinesInv /\ Y!Next => DeadlinesInv'
<1> SUFFICES ASSUME DeadlinesInv, Y!Next PROVE DeadlinesInv'
  OBVIOUS
<1>1. /\ queue \in Orders /\ deadlinesRows \in Seq(Queued)
      /\ deadlinesActive \subseteq Queued
      /\ left \in [Queued -> Y!Lefts \cup {NoDeadline}]
  BY DEF DeadlinesInv
<1>2. CASE Y!ApplyDeadlinePriorities
  <2>1. queue' \in Orders
    BY <1>2, SweepOrders
  <2> QED BY <1>1, <1>2, <2>1 DEF Y!ApplyDeadlinePriorities, DeadlinesInv
<1>3. CASE Y!TimePasses
  <2>1. \A t \in Queued : left'[t] \in Y!Lefts \cup {NoDeadline}
    BY <1>1, <1>3 DEF Y!TimePasses, Y!Lefts
  <2>2. left' \in [Queued -> Y!Lefts \cup {NoDeadline}]
    BY <1>3, <2>1 DEF Y!TimePasses
  <2> QED BY <1>1, <1>3, <2>2 DEF Y!TimePasses, DeadlinesInv
<1>4. ASSUME NEW t \in Queued, Y!MoveQueueUp(t) PROVE DeadlinesInv'
  <2>1. queue' \in Orders
    BY <1>1, <1>4, UpKeeps DEF Y!MoveQueueUp
  <2> QED BY <1>1, <1>4, <2>1 DEF Y!MoveQueueUp, DeadlinesInv
<1>5. ASSUME NEW t \in Queued, Y!MoveQueueDown(t) PROVE DeadlinesInv'
  <2>1. queue' \in Orders
    BY <1>1, <1>5, UpKeeps DEF Y!MoveQueueDown
  <2> QED BY <1>1, <1>5, <2>1 DEF Y!MoveQueueDown, DeadlinesInv
<1>6. ASSUME NEW t \in Queued, Y!Finish(t) PROVE DeadlinesInv'
  <2>1. PICK m \in Nat : m = Len(queue) /\ DOMAIN queue = 1 .. m
    BY <1>1 DEF Orders
  <2>2. PICK i \in 1 .. m : queue[i] = t
    BY <1>6, <2>1 DEF Y!Finish, Y!Contains
  <2>3. Y!Position(queue, t) = i
    BY <1>1, <2>1, <2>2, PositionIs
  <2>4. queue' = SubSeq(queue, 1, i - 1) \o SubSeq(queue, i + 1, m)
    BY <1>6, <2>1, <2>3 DEF Y!Finish, Y!RemoveAt
  <2>5. queue \in Seq(Queued) /\ \A a, b \in 1 .. m : queue[a] = queue[b] => a = b
    BY <1>1, <2>1 DEF Orders
  <2>6. PICK head : head = SubSeq(queue, 1, i - 1)
    OBVIOUS
  <2>7. PICK tail : tail = SubSeq(queue, i + 1, m)
    OBVIOUS
  <2>8. /\ head \in Seq(Queued) /\ Len(head) = i - 1
        /\ \A k \in 1 .. i - 1 : head[k] = queue[k]
    BY <2>1, <2>5, <2>6
  <2>9. /\ tail \in Seq(Queued) /\ Len(tail) = m - i
        /\ \A k \in 1 .. m - i : tail[k] = queue[k + i]
    BY <2>1, <2>5, <2>7
  <2>10. queue' = head \o tail
    BY <2>4, <2>6, <2>7
  <2>11. /\ queue' \in Seq(Queued) /\ DOMAIN queue' = 1 .. m - 1
         /\ \A k \in 1 .. m - 1 : queue'[k] = IF k < i THEN queue[k] ELSE queue[k + 1]
    BY <2>8, <2>9, <2>10
  <2>12. ASSUME NEW a \in 1 .. m - 1, NEW b \in 1 .. m - 1, queue'[a] = queue'[b] PROVE a = b
    <3>1. PICK c \in 1 .. m : c = (IF a < i THEN a ELSE a + 1) /\ queue'[a] = queue[c]
      BY <2>11
    <3>2. PICK d \in 1 .. m : d = (IF b < i THEN b ELSE b + 1) /\ queue'[b] = queue[d]
      BY <2>11
    <3>3. c = d
      BY <2>5, <2>12, <3>1, <3>2
    <3> QED BY <3>1, <3>2, <3>3
  <2>13. queue' \in Orders
    <3>1. PICK q \in Seq(Queued) : q = queue' /\ DOMAIN q = 1 .. m - 1
      BY <2>11
    <3>2. \A a, b \in DOMAIN q : q[a] = q[b] => a = b
      BY <2>12, <3>1
    <3> QED BY <3>1, <3>2 DEF Orders
  <2> QED BY <1>1, <1>6, <2>13 DEF Y!Finish, DeadlinesInv
<1>7. ASSUME NEW t \in Queued, NEW l \in Y!Lefts \cup {NoDeadline}, Y!SetDeadline(t, l)
      PROVE  DeadlinesInv'
  BY <1>1, <1>7 DEF Y!SetDeadline, DeadlinesInv
<1>8. ASSUME NEW t \in Queued, NEW b \in BOOLEAN, Y!StateUpdate(t, b) PROVE DeadlinesInv'
  BY <1>1, <1>8 DEF Y!StateUpdate, DeadlinesInv
<1> QED
  BY <1>2, <1>3, <1>4, <1>5, <1>6, <1>7, <1>8 DEF Y!Next

\* The invariant has the types the model states.
LEMMA DeadlinesTyped == DeadlinesInv => Y!TypeOK
<1> SUFFICES ASSUME DeadlinesInv PROVE Y!TypeOK
  OBVIOUS
<1>1. Y!IsInjective(queue)
  BY DEF DeadlinesInv, Orders, Y!IsInjective
<1>2. Y!Range(queue) \subseteq Queued
  BY DEF DeadlinesInv, Orders, Y!Range
<1> QED BY <1>1, <1>2 DEF DeadlinesInv, Y!TypeOK

-----------------------------------------------------------------------------
(* BackgroundTasks                                                         *)

\* Every step of a task, and of the quit that ends them, keeps their types.
LEMMA TasksStep ==
    /\ Q!Init => Q!TypeOK
    /\ Q!TypeOK /\ Q!Next => Q!TypeOK'
<1>1. Q!Init => Q!TypeOK
  BY DEF Q!Init, Q!TypeOK
<1> SUFFICES ASSUME Q!TypeOK, Q!Next PROVE Q!TypeOK'
  BY <1>1
<1> USE DEF Q!TypeOK
<1>2. ASSUME NEW t \in Q!Tasks, Q!Submit(t) \/ Q!Start(t) \/ Q!Notices(t) \/ Q!Reported(t)
      PROVE  Q!TypeOK'
  BY <1>2 DEF Q!Submit, Q!Start, Q!Notices, Q!Reported
<1>3. ASSUME NEW t \in Q!Tasks, Q!Ends(t) PROVE Q!TypeOK'
  BY <1>3 DEF Q!Ends
<1>4. CASE Q!Quit
  BY <1>4 DEF Q!Quit, Q!Cancellable, Q!Tasks
<1>5. CASE Q!ShutdownReturns \/ Q!Exit
  BY <1>5 DEF Q!ShutdownReturns, Q!Exit
<1> QED
  BY <1>2, <1>3, <1>4, <1>5 DEF Q!Next

-----------------------------------------------------------------------------
(* DangerScanner                                                           *)

\* A score is flagged from 30 points on: two of the thresholds are reached.
LEMMA FlaggedFrom30 ==
    ASSUME NEW score \in Nat PROVE D!Level(score) >= 2 <=> score >= 30
<1> DEFINE hit == {t \in {10, 30, 55, 80} : score >= t}
<1>1. D!Level(score) = Cardinality(hit)
  BY DEF D!Level, D!Cardinality, Cardinality
<1>2. IsFiniteSet({10, 30, 55, 80})
  <2>1. \A t \in {10, 30, 55, 80} : t \in Nat /\ t <= 80
    OBVIOUS
  <2>2. {10, 30, 55, 80} \in SUBSET Nat
    BY <2>1
  <2> QED BY <2>1, <2>2, FS_BoundedSetOfNaturals
<1>3. IsFiniteSet(hit) /\ Cardinality(hit) \in Nat
  <2>1. hit \in SUBSET {10, 30, 55, 80}
    OBVIOUS
  <2>2. IsFiniteSet(hit)
    BY <1>2, <2>1, FS_Subset
  <2> QED BY <2>2, FS_CardinalityType
<1>4. CASE score >= 30
  <2> DEFINE pair == {10} \cup {30}
  <2>1. IsFiniteSet({10}) /\ Cardinality({10}) = 1
    BY FS_Singleton
  <2>2. Cardinality(pair) = 2
    BY <2>1, FS_AddElement
  <2>3. pair \in SUBSET hit
    BY <1>4
  <2>4. Cardinality(pair) <= Cardinality(hit)
    <3> HIDE DEF pair, hit
    <3> QED BY <1>3, <2>3, FS_Subset
  <2> QED BY <1>1, <1>3, <1>4, <2>2, <2>4
<1>5. CASE score < 30
  <2>1. hit \in SUBSET {10}
    BY <1>5
  <2>2. IsFiniteSet({10}) /\ Cardinality({10}) = 1
    BY FS_Singleton
  <2>3. Cardinality(hit) <= Cardinality({10})
    <3> HIDE DEF hit
    <3> QED BY <2>1, <2>2, FS_Subset
  <2> QED BY <1>1, <1>3, <1>5, <2>2, <2>3
<1> QED BY <1>4, <1>5

\* What each sign of danger is worth.
LEMMA PointsAre ==
    /\ D!Points("double", TRUE) = 60 /\ D!Points("executable", TRUE) = 35
    /\ D!Points("image", TRUE) = 25 /\ D!Points("macro", TRUE) = 20
    /\ D!Points("flag", TRUE) = 30 /\ D!Points("mismatch", TRUE) = 20
    /\ D!Points("reversed", TRUE) = 70 /\ D!Points("crack", TRUE) = 30
    /\ D!Points("tiny", TRUE) = 15 /\ D!Points("hidden", TRUE) = 20
    /\ D!Points("unknown", TRUE) = 15
    /\ \A r : D!Points(r, FALSE) = 0
    /\ DOMAIN D!Weight = {"double", "executable", "image", "macro", "flag", "mismatch",
                          "reversed", "crack", "tiny", "hidden", "unknown"}
BY DEF D!Points, D!Weight

\* The points of a file before they are capped, sign by sign.
Tallies ==
    [ext : {0, 15, 20, 25, 35}, name : {0, 30, 70}, double : {0, 60}, flag : {0, 30},
     mismatch : {0, 20}, tiny : {0, 15}, hidden : {0, 20}]

Total(p) == p.ext + p.name + p.double + p.flag + p.mismatch + p.tiny + p.hidden

Tells(p, f, media) ==
    /\ D!Score(f, media) = IF Total(p) > 100 THEN 100 ELSE Total(p)
    /\ p.ext = D!Points(f.ext, f.ext \in DOMAIN D!Weight)
    /\ p.name = D!Points(f.name, f.name \in DOMAIN D!Weight)
    /\ f.ext = "executable" => p.ext = 35
    /\ f.ext = "unknown" => p.ext = 15
    /\ f.name = "reversed" => p.name = 70
    /\ f.name = "plain" => p.name = 0
    /\ p.double = 60 <=> f.double
    /\ p.flag = 30 <=> (f.flag /\ f.ext # "executable")
    /\ p.mismatch = 20 <=> (f.ext = "executable" /\ media)
    /\ p.tiny = 15 <=> (f.ext = "executable" /\ f.tiny)
    /\ p.hidden = 20 <=> f.hidden

\* Every part of a tally is a number, and so is what they come to.
LEMMA TotalIs ==
    ASSUME NEW p \in Tallies
    PROVE  /\ p.ext \in Nat /\ p.name \in Nat /\ p.double \in Nat /\ p.flag \in Nat
           /\ p.mismatch \in Nat /\ p.tiny \in Nat /\ p.hidden \in Nat
           /\ Total(p) \in Nat
<1>1. /\ p.ext \in Nat /\ p.name \in Nat /\ p.double \in Nat /\ p.flag \in Nat
      /\ p.mismatch \in Nat /\ p.tiny \in Nat /\ p.hidden \in Nat
  BY DEF Tallies
<1>2. Total(p) \in Nat
  BY <1>1 DEF Total
<1> QED BY <1>1, <1>2

\* A score is the total of such a tally, cut at 100.
LEMMA ScoreIs ==
    ASSUME NEW f \in D!FileEntries, NEW media \in BOOLEAN
    PROVE  \E p \in Tallies : Tells(p, f, media)
<1>1. /\ f.ext \in D!Extensions /\ f.name \in D!NameKinds /\ f.double \in BOOLEAN
      /\ f.flag \in BOOLEAN /\ f.tiny \in BOOLEAN /\ f.hidden \in BOOLEAN
  BY DEF D!FileEntries
<1>2. PICK ext \in {0, 15, 20, 25, 35} :
         /\ ext = D!Points(f.ext, f.ext \in DOMAIN D!Weight)
         /\ f.ext = "executable" => ext = 35
         /\ f.ext = "unknown" => ext = 15
  <2>1. CASE f.ext \in DOMAIN D!Weight
    <3>1. f.ext \in {"executable", "image", "macro", "unknown"}
      BY <1>1, <2>1, PointsAre DEF D!Extensions
    <3>2. D!Points(f.ext, f.ext \in DOMAIN D!Weight) = D!Points(f.ext, TRUE)
      BY <2>1 DEF D!Points
    <3> QED BY <3>1, <3>2, PointsAre
  <2>2. CASE f.ext \notin DOMAIN D!Weight
    <3>1. f.ext # "executable" /\ f.ext # "unknown"
      BY <2>2, PointsAre
    <3>2. D!Points(f.ext, f.ext \in DOMAIN D!Weight) = 0
      BY <2>2 DEF D!Points
    <3> QED BY <3>1, <3>2
  <2> QED BY <2>1, <2>2
<1>3. PICK name \in {0, 30, 70} :
         /\ name = D!Points(f.name, f.name \in DOMAIN D!Weight)
         /\ f.name = "reversed" => name = 70
         /\ f.name = "plain" => name = 0
  <2>1. CASE f.name \in DOMAIN D!Weight
    <3>1. f.name \in {"crack", "reversed"}
      BY <1>1, <2>1, PointsAre DEF D!NameKinds
    <3>2. D!Points(f.name, f.name \in DOMAIN D!Weight) = D!Points(f.name, TRUE)
      BY <2>1 DEF D!Points
    <3> QED BY <3>1, <3>2, PointsAre
  <2>2. CASE f.name \notin DOMAIN D!Weight
    <3>1. f.name # "reversed"
      BY <2>2, PointsAre
    <3>2. D!Points(f.name, f.name \in DOMAIN D!Weight) = 0
      BY <2>2 DEF D!Points
    <3> QED BY <3>1, <3>2
  <2> QED BY <2>1, <2>2
<1>4. PICK double \in {0, 60} : double = D!Points("double", f.double) /\ (double = 60 <=> f.double)
  BY <1>1 DEF D!Points, D!Weight
<1>5. PICK flag \in {0, 30} :
         /\ flag = D!Points("flag", f.flag /\ ~(f.ext = "executable"))
         /\ flag = 30 <=> (f.flag /\ f.ext # "executable")
  BY <1>1 DEF D!Points, D!Weight
<1>6. PICK mismatch \in {0, 20} :
         /\ mismatch = D!Points("mismatch", f.ext = "executable" /\ media)
         /\ mismatch = 20 <=> (f.ext = "executable" /\ media)
  BY <1>1 DEF D!Points, D!Weight
<1>7. PICK tiny \in {0, 15} :
         /\ tiny = D!Points("tiny", f.ext = "executable" /\ f.tiny)
         /\ tiny = 15 <=> (f.ext = "executable" /\ f.tiny)
  BY <1>1 DEF D!Points, D!Weight
<1>8. PICK hidden \in {0, 20} : hidden = D!Points("hidden", f.hidden) /\ (hidden = 20 <=> f.hidden)
  BY <1>1 DEF D!Points, D!Weight
<1>9. PICK p : p = [ext |-> ext, name |-> name, double |-> double, flag |-> flag,
                    mismatch |-> mismatch, tiny |-> tiny, hidden |-> hidden]
  OBVIOUS
<1>10. /\ p.ext = ext /\ p.name = name /\ p.double = double /\ p.flag = flag
       /\ p.mismatch = mismatch /\ p.tiny = tiny /\ p.hidden = hidden
  BY <1>9
<1>11. p \in Tallies
  BY <1>9 DEF Tallies
<1>12. Total(p) = D!Points(f.ext, f.ext \in DOMAIN D!Weight)
                  + D!Points(f.name, f.name \in DOMAIN D!Weight)
                  + D!Points("double", f.double) + D!Points("flag", f.flag /\ ~(f.ext = "executable"))
                  + D!Points("mismatch", f.ext = "executable" /\ media)
                  + D!Points("tiny", f.ext = "executable" /\ f.tiny)
                  + D!Points("hidden", f.hidden)
  BY <1>2, <1>3, <1>4, <1>5, <1>6, <1>7, <1>8, <1>10 DEF Total
<1>13. D!Score(f, media) = IF Total(p) > 100 THEN 100 ELSE Total(p)
  BY <1>12 DEF D!Score
<1>14. Tells(p, f, media)
  BY <1>2, <1>3, <1>4, <1>5, <1>6, <1>7, <1>8, <1>10, <1>13 DEF Tells
<1> QED BY <1>11, <1>14

\* One more sign never lowers a score: it adds its points, or none.
LEMMA SignsAdd ==
    ASSUME NEW f \in D!FileEntries, NEW g \in D!FileEntries,
           NEW m \in BOOLEAN, NEW o \in BOOLEAN,
           g.ext = f.ext, g.name = f.name,
           f.double => g.double, f.flag => g.flag, f.tiny => g.tiny,
           f.hidden => g.hidden, m => o
    PROVE  D!Score(g, o) >= D!Score(f, m)
<1>1. PICK p \in Tallies : Tells(p, f, m)
  BY ScoreIs
<1>2. PICK more \in Tallies : Tells(more, g, o)
  BY ScoreIs
<1>3. more.ext = p.ext /\ more.name = p.name
  BY <1>1, <1>2 DEF Tells
<1>4. more.double >= p.double
  BY <1>1, <1>2 DEF Tells, Tallies
<1>5. more.flag >= p.flag
  BY <1>1, <1>2 DEF Tells, Tallies
<1>6. more.mismatch >= p.mismatch
  BY <1>1, <1>2 DEF Tells, Tallies
<1>7. more.tiny >= p.tiny
  BY <1>1, <1>2 DEF Tells, Tallies
<1>8. more.hidden >= p.hidden
  BY <1>1, <1>2 DEF Tells, Tallies
<1>9. Total(more) >= Total(p)
  BY <1>3, <1>4, <1>5, <1>6, <1>7, <1>8, TotalIs DEF Total
<1>10. /\ D!Score(f, m) = IF Total(p) > 100 THEN 100 ELSE Total(p)
       /\ D!Score(g, o) = IF Total(more) > 100 THEN 100 ELSE Total(more)
  BY <1>1, <1>2 DEF Tells
<1> QED BY <1>9, <1>10, TotalIs

\* The scanner flags every executable, leaves out what hides its
\* extension, does not flag an unknown extension alone, and never scores a
\* file lower for one more sign of danger.
LEMMA ScannerIsRight == D!ScansRight
<1> SUFFICES ASSUME NEW f \in D!FileEntries, NEW media \in BOOLEAN
             PROVE  /\ f.ext = "executable" => D!Flagged(f, media)
                    /\ f.double \/ (f.name = "reversed") => D!AutoExcluded(f, media, 60)
                    /\ f.ext = "unknown" /\ f.name = "plain" /\ ~f.double /\ ~f.flag /\ ~f.hidden
                          => ~D!Flagged(f, media)
                    /\ \A sign \in {"double", "flag", "tiny", "hidden"} :
                           LET g == [f EXCEPT ![sign] = TRUE]
                           IN  g \in D!FileEntries => D!Score(g, media) >= D!Score(f, media)
                    /\ D!Score(f, TRUE) >= D!Score(f, FALSE)
  BY DEF D!ScansRight
<1>1. /\ f.ext \in D!Extensions /\ f.name \in D!NameKinds /\ f.double \in BOOLEAN
      /\ f.flag \in BOOLEAN /\ f.tiny \in BOOLEAN /\ f.hidden \in BOOLEAN
  BY DEF D!FileEntries
<1>2. PICK p \in Tallies : Tells(p, f, media)
  BY ScoreIs
<1>3. D!Score(f, media) = IF Total(p) > 100 THEN 100 ELSE Total(p)
  BY <1>2 DEF Tells
<1>4. D!Score(f, media) \in Nat
  BY <1>3, TotalIs
<1>5. ASSUME f.ext = "executable" PROVE D!Flagged(f, media)
  <2>1. p.ext = 35
    BY <1>2, <1>5 DEF Tells
  <2>2. Total(p) >= 30
    BY <2>1, TotalIs DEF Total
  <2>3. D!Score(f, media) >= 30
    BY <1>3, <2>2, TotalIs
  <2> QED BY <1>4, <2>3, FlaggedFrom30 DEF D!Flagged
<1>6. ASSUME f.double \/ (f.name = "reversed") PROVE D!AutoExcluded(f, media, 60)
  <2>1. p.double = 60 \/ p.name = 70
    BY <1>2, <1>6 DEF Tells
  <2>2. Total(p) >= 60
    BY <2>1, TotalIs DEF Total
  <2> QED BY <1>3, <2>2, TotalIs DEF D!AutoExcluded
<1>7. ASSUME f.ext = "unknown", f.name = "plain", ~f.double, ~f.flag, ~f.hidden
      PROVE  ~D!Flagged(f, media)
  <2>1. p.ext = 15 /\ p.name = 0
    BY <1>2, <1>7 DEF Tells
  <2>2. p.double = 0 /\ p.flag = 0 /\ p.mismatch = 0 /\ p.tiny = 0 /\ p.hidden = 0
    BY <1>1, <1>2, <1>7 DEF Tells, Tallies
  <2>3. Total(p) = 15
    BY <2>1, <2>2 DEF Total
  <2>4. D!Score(f, media) = 15
    BY <1>3, <2>3
  <2> QED BY <2>4, FlaggedFrom30 DEF D!Flagged
<1>8. ASSUME NEW sign \in {"double", "flag", "tiny", "hidden"},
             [f EXCEPT ![sign] = TRUE] \in D!FileEntries
      PROVE  D!Score([f EXCEPT ![sign] = TRUE], media) >= D!Score(f, media)
  <2>1. PICK g \in D!FileEntries : g = [f EXCEPT ![sign] = TRUE]
    BY <1>8
  <2>2. /\ g.ext = f.ext /\ g.name = f.name
        /\ f.double => g.double
        /\ f.flag => g.flag
        /\ f.tiny => g.tiny
        /\ f.hidden => g.hidden
    <3>1. f \in [ext : D!Extensions, name : D!NameKinds, double : BOOLEAN, flag : BOOLEAN,
                 tiny : BOOLEAN, hidden : BOOLEAN]
      BY DEF D!FileEntries
    <3>2. CASE sign = "double"
      BY <2>1, <3>1, <3>2
    <3>3. CASE sign = "flag"
      BY <2>1, <3>1, <3>3
    <3>4. CASE sign = "tiny"
      BY <2>1, <3>1, <3>4
    <3>5. CASE sign = "hidden"
      BY <2>1, <3>1, <3>5
    <3> QED BY <3>2, <3>3, <3>4, <3>5
  <2>3. D!Score(g, media) >= D!Score(f, media)
    BY <2>2, SignsAdd
  <2> QED BY <2>1, <2>3
<1>9. D!Score(f, TRUE) >= D!Score(f, FALSE)
  BY SignsAdd
<1> QED
  BY <1>5, <1>6, <1>7, <1>8, <1>9

-----------------------------------------------------------------------------
(* Statistics                                                              *)

\* The quotient is the greatest number whose product is no more.
LEMMA Quotient ==
    ASSUME NEW x \in Nat, NEW d \in Nat, d > 0
    PROVE  /\ x \div d \in Nat
           /\ d * (x \div d) <= x /\ x < d * (x \div d) + d
           /\ \A k \in Nat : d * k <= x => k <= x \div d
           /\ \A k \in Nat : x < d * k => x \div d < k
<1>1. x \div d \in Nat /\ x % d \in Nat /\ x % d < d
  OBVIOUS
<1>2. x = d * (x \div d) + (x % d)
  OBVIOUS
<1>3. PICK q \in Nat : q = x \div d
  BY <1>1
<1>4. d * q <= x /\ x < d * q + d
  BY <1>1, <1>2, <1>3
<1>5. ASSUME NEW k \in Nat, k > q PROVE d * k >= d * q + d
  <2>1. k - (q + 1) \in Nat
    BY <1>5
  <2>2. d * (k - (q + 1)) >= 0
    BY <2>1
  <2>3. d * (k - (q + 1)) = d * k - (d * q + d)
    BY <2>1
  <2> QED BY <2>2, <2>3
<1>6. ASSUME NEW k \in Nat, k <= q PROVE d * k <= d * q
  <2>1. q - k \in Nat
    BY <1>6
  <2>2. d * (q - k) >= 0
    BY <2>1
  <2>3. d * (q - k) = d * q - d * k
    BY <2>1
  <2> QED BY <2>2, <2>3
<1> QED BY <1>3, <1>4, <1>5, <1>6

\* The fractions 1.4 to the n, which are one or more.
Fractions == {g \in [num : Nat, den : Nat] : g.den > 0 /\ g.num >= g.den}

\* The growth from level to level.
Grown(g) == [num |-> 7 * g.num, den |-> 5 * g.den]

\* The growth up to a level.
Grows(f, n) == f[0] = [num |-> 1, den |-> 1] /\ \A k \in 1 .. n : f[k] = Grown(f[k - 1])

\* Two tables of the growth agree as far as both go.
LEMMA GrowthsAgree ==
    ASSUME NEW n \in Nat, NEW f, NEW h, Grows(f, n), Grows(h, n)
    PROVE  \A k \in 0 .. n : f[k] = h[k]
<1> DEFINE apart == {k \in 0 .. n : f[k] # h[k]}
<1> SUFFICES ASSUME apart # {} PROVE FALSE
  OBVIOUS
<1>1. apart \in SUBSET Nat
  OBVIOUS
<1>2. PICK m \in apart : \A o \in apart : m <= o
  <2> HIDE DEF apart
  <2> QED BY <1>1, LeastNumber
<1>3. m \in 0 .. n /\ f[m] # h[m]
  OBVIOUS
<1>4. m \in 1 .. n
  BY <1>3 DEF Grows
<1>5. m - 1 \in 0 .. n /\ m - 1 \notin apart
  <2> HIDE DEF apart
  <2> QED BY <1>2, <1>4
<1>6. f[m - 1] = h[m - 1]
  BY <1>5
<1> QED BY <1>3, <1>4, <1>6 DEF Grows

\* The growth multiplies by 7/5 at each level.
LEMMA GrowthIs ==
    /\ T!Growth[0] = [num |-> 1, den |-> 1]
    /\ \A n \in Nat : T!Growth[n] \in Fractions /\ T!Growth[n + 1] = Grown(T!Growth[n])
<1>1. [num |-> 1, den |-> 1] \in Fractions
  BY DEF Fractions
<1>2. ASSUME NEW g \in Fractions PROVE Grown(g) \in Fractions
  BY DEF Fractions, Grown
<1>3. ASSUME NEW n \in Nat PROVE \E f \in [0 .. n -> Fractions] : Grows(f, n)
  <2> DEFINE step == [k \in 1 .. n |-> [g \in Fractions |-> Grown(g)]]
  <2>1. step \in [1 .. n -> [Fractions -> Fractions]]
    BY <1>2
  <2>2. PICK f \in [0 .. n -> Fractions] :
           f[0] = [num |-> 1, den |-> 1] /\ \A k \in 1 .. n : f[k] = step[k][f[k - 1]]
    <3> HIDE DEF step
    <3>1. PICK one \in Fractions : one = [num |-> 1, den |-> 1]
      BY <1>1
    <3>2. \E f \in [0 .. n -> Fractions] :
             f[0] = one /\ \A k \in 1 .. n : f[k] = step[k][f[k - 1]]
      BY <2>1, Iteration
    <3> QED BY <3>1, <3>2
  <2>3. ASSUME NEW k \in 1 .. n PROVE f[k] = Grown(f[k - 1])
    <3>1. k - 1 \in 0 .. n
      OBVIOUS
    <3> QED BY <2>2, <3>1
  <2> QED BY <2>2, <2>3 DEF Grows
<1> DEFINE table(n) == CHOOSE f \in [0 .. n -> Fractions] : Grows(f, n)
           growth == [n \in Nat |-> table(n)[n]]
<1>4. ASSUME NEW n \in Nat PROVE table(n) \in [0 .. n -> Fractions] /\ Grows(table(n), n)
  BY <1>3
<1> HIDE DEF table
<1>5. ASSUME NEW n \in Nat PROVE table(n)[n] \in Fractions
  <2>1. n \in 0 .. n
    OBVIOUS
  <2> QED BY <1>4, <2>1
<1>6. ASSUME NEW n \in Nat PROVE growth[n + 1] = Grown(growth[n])
  <2>1. Grows(table(n + 1), n) /\ n \in 0 .. n
    BY <1>4 DEF Grows
  <2>2. table(n + 1)[n] = table(n)[n]
    BY <1>4, <2>1, GrowthsAgree
  <2>3. n + 1 \in 1 .. n + 1 /\ (n + 1) - 1 = n
    OBVIOUS
  <2>4. table(n + 1)[n + 1] = Grown(table(n + 1)[n])
    BY <1>4, <2>3 DEF Grows
  <2> QED BY <2>2, <2>4
<1>7. growth[0] = [num |-> 1, den |-> 1]
  BY <1>4 DEF Grows
<1>8. growth = [n \in Nat |-> IF n = 0 THEN [num |-> 1, den |-> 1]
                              ELSE [num |-> 7 * growth[n - 1].num, den |-> 5 * growth[n - 1].den]]
  <2>1. ASSUME NEW n \in Nat, n # 0
        PROVE  growth[n] = [num |-> 7 * growth[n - 1].num, den |-> 5 * growth[n - 1].den]
    <3>1. n - 1 \in Nat /\ (n - 1) + 1 = n
      BY <2>1
    <3>2. growth[(n - 1) + 1] = Grown(growth[n - 1])
      BY <1>6, <3>1
    <3> QED BY <3>1, <3>2 DEF Grown
  <2>2. PICK g : g = growth
    OBVIOUS
  <2>3. \A n \in Nat : g[n] = IF n = 0 THEN [num |-> 1, den |-> 1]
                              ELSE [num |-> 7 * g[n - 1].num, den |-> 5 * g[n - 1].den]
    BY <1>7, <2>1, <2>2
  <2>4. g = [n \in Nat |-> g[n]]
    BY <2>2
  <2> HIDE DEF growth
  <2> QED BY <2>2, <2>3, <2>4
<1>9. T!Growth = [n \in Nat |-> IF n = 0 THEN [num |-> 1, den |-> 1]
                      ELSE [num |-> 7 * T!Growth[n - 1].num, den |-> 5 * T!Growth[n - 1].den]]
  <2>1. PICK g : g = growth
    OBVIOUS
  <2> HIDE DEF growth
  <2>2. g = [n \in Nat |-> IF n = 0 THEN [num |-> 1, den |-> 1]
                           ELSE [num |-> 7 * g[n - 1].num, den |-> 5 * g[n - 1].den]]
    BY <1>8, <2>1
  <2> QED BY <2>2 DEF T!Growth
<1>10. T!Growth[0] = [num |-> 1, den |-> 1]
  BY <1>9
<1>11. ASSUME NEW n \in Nat PROVE T!Growth[n + 1] = Grown(T!Growth[n])
  <2>1. n + 1 \in Nat /\ n + 1 # 0 /\ (n + 1) - 1 = n
    OBVIOUS
  <2> QED BY <1>9, <2>1 DEF Grown
<1>12. ASSUME NEW n \in Nat PROVE T!Growth[n] \in Fractions
  <2>1. Grows(T!Growth, n)
    <3>1. ASSUME NEW k \in 1 .. n PROVE T!Growth[k] = Grown(T!Growth[k - 1])
      <4>1. k - 1 \in Nat /\ (k - 1) + 1 = k
        OBVIOUS
      <4> QED BY <1>11, <4>1
    <3> QED BY <1>10, <3>1 DEF Grows
  <2>2. n \in 0 .. n
    OBVIOUS
  <2>3. T!Growth[n] = table(n)[n]
    BY <1>4, <2>1, <2>2, GrowthsAgree
  <2> QED BY <1>5, <2>3
<1> QED BY <1>10, <1>11, <1>12

\* A level past the first asks for a growth more than the one before it, and
\* never rounds to the same number of bytes.
LEMMA ThresholdsGrow ==
    /\ T!Threshold(0) = 0 /\ T!Threshold(1) = Base
    /\ \A n \in Nat : T!Threshold(n) \in Nat /\ T!Threshold(n) < T!Threshold(n + 1)
<1> USE StatisticsAssumption
<1>1. T!Threshold(0) = 0
  BY DEF T!Threshold
<1>2. T!Threshold(1) = Base
  <2>1. T!Threshold(1) = (2 * Base * 1 + 1) \div (2 * 1)
    BY GrowthIs DEF T!Threshold
  <2> QED BY <2>1
<1>3. ASSUME NEW n \in Nat, n > 0 PROVE T!Threshold(n) \in Nat /\ T!Threshold(n) < T!Threshold(n + 1)
  <2>1. n - 1 \in Nat /\ (n - 1) + 1 = n /\ (n + 1) - 1 = n /\ ~(n <= 0) /\ ~(n + 1 <= 0)
    BY <1>3
  <2>2. PICK g \in Fractions : g = T!Growth[n - 1]
    BY <2>1, GrowthIs
  <2>3. T!Growth[n] = [num |-> 7 * g.num, den |-> 5 * g.den]
    <3>1. T!Growth[(n - 1) + 1] = Grown(T!Growth[n - 1])
      BY <2>1, GrowthIs
    <3> QED BY <2>1, <2>2, <3>1 DEF Grown
  <2>4. PICK a \in Nat, d \in Nat : a = g.num /\ d = g.den /\ d > 0 /\ a >= d
    BY DEF Fractions
  <2>5. T!Threshold(n) = (2 * Base * a + d) \div (2 * d)
    BY <2>1, <2>2, <2>4 DEF T!Threshold
  <2>6. T!Threshold(n + 1) = (2 * Base * (7 * a) + 5 * d) \div (2 * (5 * d))
    BY <2>1, <2>3, <2>4 DEF T!Threshold
  <2>7. PICK x \in Nat : x = Base * a
    OBVIOUS
  <2>8. x >= 3 * d
    <3>1. (Base - 3) \in Nat /\ (Base - 3) * a >= 0
      OBVIOUS
    <3>2. (Base - 3) * a = Base * a - 3 * a
      OBVIOUS
    <3> QED BY <2>4, <2>7, <3>1, <3>2
  <2>9. 2 * Base * a = 2 * x /\ 2 * Base * (7 * a) = 14 * x
    BY <2>7
  <2>10. PICK q \in Nat : q = (2 * x + d) \div (2 * d)
    BY <2>4, Quotient
  <2>11. (2 * d) * q <= 2 * x + d
    BY <2>4, <2>10, Quotient
  <2>12. (10 * d) * (q + 1) <= 14 * x + 5 * d
    <3>1. (10 * d) * (q + 1) = 5 * ((2 * d) * q) + 10 * d
      OBVIOUS
    <3> QED BY <2>8, <2>11, <3>1
  <2>13. q + 1 <= (14 * x + 5 * d) \div (10 * d)
    <3>1. 14 * x + 5 * d \in Nat /\ 10 * d \in Nat /\ 10 * d > 0 /\ q + 1 \in Nat
      BY <2>4
    <3> QED BY <2>12, <3>1, Quotient
  <2>14. (14 * x + 5 * d) \div (10 * d) \in Nat
    <3>1. 14 * x + 5 * d \in Nat /\ 10 * d \in Nat /\ 10 * d > 0
      BY <2>4
    <3> QED BY <3>1, Quotient
  <2>15. T!Threshold(n) = q
    BY <2>5, <2>9, <2>10
  <2>16. T!Threshold(n + 1) = (14 * x + 5 * d) \div (10 * d)
    <3>1. 2 * (5 * d) = 10 * d
      OBVIOUS
    <3> QED BY <2>6, <2>9, <3>1
  <2> QED BY <2>13, <2>14, <2>15, <2>16
<1>4. ASSUME NEW n \in Nat, n = 0 PROVE T!Threshold(n) \in Nat /\ T!Threshold(n) < T!Threshold(n + 1)
  <2>1. n + 1 = 1
    BY <1>4
  <2> QED BY <1>1, <1>2, <1>4, <2>1
<1> QED BY <1>1, <1>2, <1>3, <1>4

\* Thresholds are in the order of the levels, and no level is beyond a total
\* by as many levels as it has bytes.
LEMMA ThresholdsAreOrdered ==
    /\ \A m, n \in Nat : m < n => T!Threshold(m) < T!Threshold(n)
    /\ \A n \in Nat : n <= T!Threshold(n)
<1>1. ASSUME NEW m \in Nat
      PROVE  \A n \in Nat : m < n => T!Threshold(m) < T!Threshold(n)
  <2> DEFINE bad == {n \in Nat : m < n /\ ~(T!Threshold(m) < T!Threshold(n))}
  <2> SUFFICES ASSUME bad # {} PROVE FALSE
    OBVIOUS
  <2>1. PICK n \in bad : \A o \in bad : n <= o
    <3>1. bad \in SUBSET Nat
      OBVIOUS
    <3> HIDE DEF bad
    <3> QED BY <3>1, LeastNumber
  <2>2. n \in Nat /\ m < n /\ ~(T!Threshold(m) < T!Threshold(n))
    OBVIOUS
  <2>3. n - 1 \in Nat /\ (n - 1) + 1 = n
    BY <2>2
  <2>4. n - 1 \notin bad
    <3> HIDE DEF bad
    <3> QED BY <2>1, <2>2, <2>3
  <2>5. T!Threshold(n - 1) \in Nat /\ T!Threshold(n - 1) < T!Threshold(n)
    <3>1. T!Threshold(n - 1) \in Nat /\ T!Threshold(n - 1) < T!Threshold((n - 1) + 1)
      BY <2>3, ThresholdsGrow
    <3> QED BY <2>3, <3>1
  <2>6. T!Threshold(m) \in Nat /\ T!Threshold(n) \in Nat
    BY <2>2, ThresholdsGrow
  <2>7. CASE m = n - 1
    BY <2>2, <2>5, <2>7
  <2>8. CASE m < n - 1
    BY <2>2, <2>3, <2>4, <2>5, <2>6, <2>8
  <2> QED BY <2>2, <2>7, <2>8
<1>2. \A n \in Nat : n <= T!Threshold(n)
  <2> DEFINE bad == {n \in Nat : ~(n <= T!Threshold(n))}
  <2> SUFFICES ASSUME bad # {} PROVE FALSE
    OBVIOUS
  <2>1. PICK n \in bad : \A o \in bad : n <= o
    <3>1. bad \in SUBSET Nat
      OBVIOUS
    <3> HIDE DEF bad
    <3> QED BY <3>1, LeastNumber
  <2>2. n \in Nat /\ ~(n <= T!Threshold(n))
    OBVIOUS
  <2>3. n # 0
    BY <2>2, ThresholdsGrow
  <2>4. n - 1 \in Nat /\ (n - 1) + 1 = n
    BY <2>2, <2>3
  <2>5. n - 1 \notin bad
    <3> HIDE DEF bad
    <3> QED BY <2>1, <2>2, <2>4
  <2>6. n - 1 <= T!Threshold(n - 1)
    BY <2>4, <2>5
  <2>7. T!Threshold(n - 1) \in Nat /\ T!Threshold(n - 1) < T!Threshold((n - 1) + 1)
    BY <2>4, ThresholdsGrow
  <2>8. T!Threshold(n) \in Nat
    BY <2>2, ThresholdsGrow
  <2> QED BY <2>2, <2>4, <2>6, <2>7, <2>8
<1> QED BY <1>1, <1>2

\* The level of a total: the one and only whose threshold it reached and the
\* next of which it did not.
LEMMA LevelReachedOnce ==
    ASSUME NEW w \in Nat
    PROVE  \E r \in 0 .. w :
              /\ r = CHOOSE e \in 0 .. w : T!Threshold(e) <= w /\ w < T!Threshold(e + 1)
              /\ \A k \in Nat : T!Threshold(k) <= w <=> k <= r
<1> DEFINE over == {n \in Nat : w < T!Threshold(n)}
<1>1. w + 1 \in over
  BY ThresholdsAreOrdered, ThresholdsGrow
<1>2. PICK n \in over : \A o \in over : n <= o
  <2>1. over \in SUBSET Nat
    OBVIOUS
  <2> HIDE DEF over
  <2> QED BY <1>1, <2>1, LeastNumber
<1>3. n \in Nat /\ w < T!Threshold(n)
  OBVIOUS
<1>4. n # 0
  BY <1>3, ThresholdsGrow
<1>5. PICK r \in Nat : r = n - 1 /\ r + 1 = n
  BY <1>3, <1>4
<1>6. r \in 0 .. w
  <2>1. n <= w + 1
    <3> HIDE DEF over
    <3> QED BY <1>1, <1>2
  <2> QED BY <1>3, <1>5, <2>1
<1>7. ASSUME NEW k \in Nat PROVE T!Threshold(k) <= w <=> k <= r
  <2>1. T!Threshold(k) \in Nat /\ T!Threshold(n) \in Nat
    BY <1>3, ThresholdsGrow
  <2>2. CASE k <= r
    <3>1. k \notin over
      <4>1. k < n
        BY <1>3, <1>5, <2>2
      <4> HIDE DEF over
      <4> QED BY <1>2, <1>3, <4>1
    <3> QED BY <2>1, <2>2, <3>1
  <2>3. CASE k = n
    BY <1>3, <1>5, <2>1, <2>3
  <2>4. CASE k > n
    <3>1. T!Threshold(n) < T!Threshold(k)
      BY <1>3, <2>4, ThresholdsAreOrdered
    <3> QED BY <1>3, <1>5, <2>1, <2>4, <3>1
  <2> QED BY <1>3, <1>5, <2>2, <2>3, <2>4
<1>8. ASSUME NEW e \in 0 .. w
      PROVE  (T!Threshold(e) <= w /\ w < T!Threshold(e + 1)) <=> e = r
  <2>1. e \in Nat /\ e + 1 \in Nat /\ T!Threshold(e) \in Nat /\ T!Threshold(e + 1) \in Nat
    BY ThresholdsGrow
  <2>2. T!Threshold(e) <= w <=> e <= r
    BY <1>7, <2>1
  <2>3. T!Threshold(e + 1) <= w <=> e + 1 <= r
    BY <1>7, <2>1
  <2> QED BY <2>1, <2>2, <2>3
<1>9. r = CHOOSE e \in 0 .. w : T!Threshold(e) <= w /\ w < T!Threshold(e + 1)
  <2>1. PICK e \in 0 .. w :
           e = CHOOSE o \in 0 .. w : T!Threshold(o) <= w /\ w < T!Threshold(o + 1)
    BY <1>6, <1>8
  <2>2. T!Threshold(e) <= w /\ w < T!Threshold(e + 1)
    BY <1>6, <1>8, <2>1
  <2> QED BY <1>8, <2>1, <2>2
<1> QED BY <1>6, <1>7, <1>9

\* Numbers with a greatest one have it as their maximum.
LEMMA MaximumIs ==
    ASSUME NEW set \in SUBSET Nat, NEW n \in set, \A m \in set : m <= n
    PROVE  T!Max(set) = n
<1>1. PICK k \in set : k = T!Max(set) /\ \A m \in set : k >= m
  BY DEF T!Max
<1>2. k >= n /\ k <= n
  BY <1>1
<1> QED BY <1>1, <1>2

\* The two loops reach the level from an estimate that is off by one at most.
LEMMA LevelIs ==
    ASSUME NEW w \in Nat, NEW r \in 0 .. w, \A k \in Nat : T!Threshold(k) <= w <=> k <= r,
           NEW estimate \in {r - 1, r, r + 1}, estimate >= 0
    PROVE  T!Level(w, estimate) = r
<1> USE StatisticsAssumption
<1>1. estimate \in Nat /\ r \in Nat
  OBVIOUS
<1>2. T!Threshold(1) <= w <=> 1 <= r
  OBVIOUS
<1>3. T!Threshold(1) = Base
  BY ThresholdsGrow
<1>4. CASE w < Base
  <2>1. r = 0
    BY <1>1, <1>2, <1>3, <1>4
  <2> QED BY <1>4, <2>1 DEF T!Level
<1>5. CASE ~(w < Base)
  <2> DEFINE raised == {e \in estimate .. estimate + w :
                           \A k \in estimate + 1 .. e : T!Threshold(k) <= w}
  <2>1. r >= 1 /\ w >= 1
    BY <1>1, <1>2, <1>3, <1>5
  <2>2. PICK top \in Nat : top = IF estimate > r THEN estimate ELSE r
    BY <1>1
  <2>3. top \in estimate .. estimate + w
    BY <1>1, <2>1, <2>2
  <2>4. \A k \in estimate + 1 .. top : T!Threshold(k) <= w
    <3> SUFFICES ASSUME NEW k \in estimate + 1 .. top PROVE T!Threshold(k) <= w
      OBVIOUS
    <3>1. k \in Nat /\ k <= r
      BY <1>1, <2>2
    <3> QED BY <3>1
  <2>5. ASSUME NEW e \in raised PROVE e <= top
    <3>1. e \in Nat /\ e >= estimate
      BY <1>1
    <3>2. CASE e = estimate
      BY <1>1, <2>2, <3>2
    <3>3. CASE e > estimate
      <4>1. e \in estimate + 1 .. e
        BY <1>1, <3>1, <3>3
      <4>2. T!Threshold(e) <= w
        BY <4>1
      <4>3. e <= r
        BY <3>1, <4>2
      <4> QED BY <1>1, <2>2, <3>1, <4>3
    <3> QED BY <1>1, <3>1, <3>2, <3>3
  <2>6. raised \in SUBSET Nat
    BY <1>1
  <2>7. top \in raised
    BY <2>3, <2>4
  <2>8. T!Max(raised) = top
    <3> HIDE DEF raised
    <3> QED BY <2>5, <2>6, <2>7, MaximumIs
  <2> DEFINE lowered == {e \in 0 .. top : e = 0 \/ T!Threshold(e) <= w}
  <2>9. r \in lowered /\ lowered \in SUBSET Nat
    BY <1>1, <2>2
  <2>10. \A e \in lowered : e <= r
    BY <1>1
  <2>11. T!Max(lowered) = r
    <3> HIDE DEF lowered
    <3> QED BY <2>9, <2>10, MaximumIs
  <2>12. T!Level(w, estimate) = T!Max({e \in 0 .. T!Max(raised) : e = 0 \/ T!Threshold(e) <= w})
    BY <1>5 DEF T!Level
  <2> HIDE DEF raised
  <2> QED BY <2>8, <2>11, <2>12
<1> QED BY <1>4, <1>5

\* A weighted total is a number of bytes.
LEMMA WeightedIs ==
    ASSUME NEW down \in Nat, NEW upload \in Nat, NEW theme \in DOMAIN T!Factors
    PROVE  T!Weighted(down, upload, theme) \in Nat
<1>1. ASSUME NEW x \in Nat PROVE T!RoundQuarters(x) \in Nat
  BY DEF T!RoundQuarters
<1>2. theme \in {"baseline", "macos", "cccp"}
  BY DEF T!Factors
<1>3. T!Factors[theme][1] \in Nat /\ T!Factors[theme][2] \in Nat
  BY <1>2 DEF T!Factors
<1>4. PICK a \in Nat, c \in Nat : a = T!Factors[theme][1] /\ c = T!Factors[theme][2]
  BY <1>3
<1>5. down * a \in Nat /\ upload * c \in Nat
  OBVIOUS
<1>6. T!RoundQuarters(down * a) \in Nat /\ T!RoundQuarters(upload * c) \in Nat
  BY <1>1, <1>5
<1> QED BY <1>4, <1>6 DEF T!Weighted

\* The level shown is the one reached, whatever the logarithm's estimate.
LEMMA LevelsAreReached == T!TypeOK => T!LevelReached
<1> SUFFICES ASSUME T!TypeOK, NEW upload \in 0 .. Base, NEW theme \in DOMAIN T!Factors
             PROVE  LET w == T!Weighted(db.total, upload, theme)
                        reached == CHOOSE e \in 0 .. w :
                                      T!Threshold(e) <= w /\ w < T!Threshold(e + 1)
                    IN  \A estimate \in {reached - 1, reached, reached + 1} :
                            estimate >= 0 => T!Level(w, estimate) = reached
  BY DEF T!LevelReached
<1>1. db.total \in Nat /\ upload \in Nat
  BY StatisticsAssumption DEF T!TypeOK
<1>2. PICK w \in Nat : w = T!Weighted(db.total, upload, theme)
  BY <1>1, WeightedIs
<1>3. PICK r \in 0 .. w :
         /\ r = CHOOSE e \in 0 .. w : T!Threshold(e) <= w /\ w < T!Threshold(e + 1)
         /\ \A k \in Nat : T!Threshold(k) <= w <=> k <= r
  BY LevelReachedOnce
<1>4. \A estimate \in {r - 1, r, r + 1} : estimate >= 0 => T!Level(w, estimate) = r
  BY <1>3, LevelIs
<1> QED BY <1>2, <1>3, <1>4

-----------------------------------------------------------------------------
(* The pieces a player needs first                                         *)

\* The files of a torrent.
Sizes(n) == [1 .. n -> 0 .. MaxSize]

\* The values an offset ranges over.
Numbers == Nat

\* The offset of a file is the sum of the sizes before it.
LEMMA OffsetsAre ==
    ASSUME NEW n \in Nat, NEW sizes \in [1 .. n -> Nat]
    PROVE  \E sum \in [0 .. n -> Nat] :
              /\ sum[0] = 0 /\ \A k \in 1 .. n : sum[k] = sum[k - 1] + sizes[k]
              /\ \A k \in 1 .. n + 1 : Y!Offset(sizes, k) = sum[k - 1]
<1>0. \A k \in 1 .. n : k - 1 \in 0 .. n
  OBVIOUS
<1>1. Len(sizes) = n
  OBVIOUS
<1>2. PICK step \in [1 .. n -> [Numbers -> Numbers]] :
         \A k \in 1 .. n : \A x \in Nat : step[k][x] = x + sizes[k]
  <2>1. [k \in 1 .. n |-> [x \in Nat |-> x + sizes[k]]] \in [1 .. n -> [Nat -> Nat]]
    OBVIOUS
  <2> QED BY <2>1 DEF Numbers
<1>3. PICK sum \in [0 .. n -> Nat] :
         sum[0] = 0 /\ \A k \in 1 .. n : sum[k] = step[k][sum[k - 1]]
  <2>1. PICK start \in Numbers : start = 0
    BY DEF Numbers
  <2>2. \E sum \in [0 .. n -> Numbers] :
           sum[0] = start /\ \A k \in 1 .. n : sum[k] = step[k][sum[k - 1]]
    BY Iteration, SMTT(20)
  <2> QED BY <2>1, <2>2 DEF Numbers
<1>4. ASSUME NEW k \in 1 .. n PROVE sum[k] = sum[k - 1] + sizes[k]
  <2>1. PICK o \in 0 .. n : o = k - 1
    BY <1>0
  <2>2. step[k][sum[k - 1]] = sum[k - 1] + sizes[k]
    BY <1>2, <2>1
  <2> QED BY <1>3, <2>2
<1>5. sum = [k \in 0 .. Len(sizes) |-> IF k = 0 THEN 0 ELSE sum[k - 1] + sizes[k]]
  <2>1. \A k \in 0 .. n : k = 0 \/ k \in 1 .. n
    BY <1>1
  <2> QED BY <1>1, <1>3, <1>4, <2>1
<1>6. PICK found : found = CHOOSE g : g = [k \in 0 .. Len(sizes) |->
                                              IF k = 0 THEN 0 ELSE g[k - 1] + sizes[k]]
  OBVIOUS
<1>7. found = [k \in 0 .. Len(sizes) |-> IF k = 0 THEN 0 ELSE found[k - 1] + sizes[k]]
  BY <1>5, <1>6
<1>8. \A k \in 1 .. n + 1 : Y!Offset(sizes, k) = found[k - 1]
  BY <1>6 DEF Y!Offset
<1>9. found[0] = 0 /\ \A k \in 1 .. n : found[k] = found[k - 1] + sizes[k]
  BY <1>1, <1>7
<1> DEFINE apart == {k \in 0 .. n : found[k] # sum[k]}
<1>10. apart = {}
  <2> SUFFICES ASSUME apart # {} PROVE FALSE
    OBVIOUS
  <2>1. apart \in SUBSET Nat
    OBVIOUS
  <2>2. PICK m \in apart : \A o \in apart : m <= o
    <3> HIDE DEF apart
    <3> QED BY <2>1, LeastNumber
  <2>3. m \in 0 .. n /\ found[m] # sum[m]
    OBVIOUS
  <2>4. m \in 1 .. n
    BY <1>1, <1>3, <1>9, <2>3
  <2>5. m - 1 \in 0 .. n /\ m - 1 \notin apart
    <3> HIDE DEF apart
    <3> QED BY <1>1, <2>2, <2>4
  <2>6. found[m - 1] = sum[m - 1]
    BY <2>5
  <2> QED BY <1>4, <1>9, <2>3, <2>4, <2>6
<1>11. ASSUME NEW k \in 1 .. n + 1 PROVE Y!Offset(sizes, k) = sum[k - 1]
  <2>1. k - 1 \in 0 .. n
    BY <1>1
  <2> QED BY <1>8, <1>10, <2>1
<1> QED BY <1>3, <1>4, <1>11

\* Offsets grow, and by no more than the size of a file at each.
LEMMA OffsetsGrow ==
    ASSUME NEW n \in 1 .. MaxSize, NEW sizes \in Sizes(n), NEW sum \in [0 .. n -> Nat],
           sum[0] = 0, \A k \in 1 .. n : sum[k] = sum[k - 1] + sizes[k]
    PROVE  \A k \in 0 .. n : sum[k] <= sum[n] /\ sum[k] <= k * MaxSize
<1> USE DeadlinesAssumption
<1>1. n \in Nat /\ \A k \in 1 .. n : sizes[k] \in Nat /\ sizes[k] <= MaxSize
  BY DEF Sizes
<1> DEFINE small == {k \in 0 .. n : ~(sum[k] <= k * MaxSize)}
           ahead == {k \in 0 .. n : ~(sum[n - k] <= sum[n])}
<1>2. small = {}
  <2> SUFFICES ASSUME small # {} PROVE FALSE
    OBVIOUS
  <2>1. PICK m \in small : \A o \in small : m <= o
    <3>1. small \in SUBSET Nat
      OBVIOUS
    <3> HIDE DEF small
    <3> QED BY <3>1, LeastNumber
  <2>2. m \in 0 .. n /\ ~(sum[m] <= m * MaxSize)
    OBVIOUS
  <2>3. m \in 1 .. n
    <3>1. 0 * MaxSize = 0
      OBVIOUS
    <3>2. m # 0
      BY <2>2, <3>1
    <3> QED BY <1>1, <2>2, <3>2
  <2>4. m - 1 \in 0 .. n /\ m - 1 \notin small
    <3> HIDE DEF small
    <3> QED BY <1>1, <2>1, <2>3
  <2>5. sum[m - 1] <= (m - 1) * MaxSize
    BY <2>4
  <2>6. (m - 1) * MaxSize = m * MaxSize - MaxSize
    BY <1>1, <2>3
  <2>7. sum[m] = sum[m - 1] + sizes[m]
    BY <2>3
  <2>8. sum[m] \in Nat /\ sum[m - 1] \in Nat /\ sizes[m] \in Nat /\ sizes[m] <= MaxSize
        /\ m * MaxSize \in Nat
    BY <1>1, <2>2, <2>3, <2>4
  <2> QED BY <2>2, <2>5, <2>6, <2>7, <2>8
<1>3. ahead = {}
  <2> SUFFICES ASSUME ahead # {} PROVE FALSE
    OBVIOUS
  <2>1. PICK m \in ahead : \A o \in ahead : m <= o
    <3>1. ahead \in SUBSET Nat
      OBVIOUS
    <3> HIDE DEF ahead
    <3> QED BY <3>1, LeastNumber
  <2>2. m \in 0 .. n /\ ~(sum[n - m] <= sum[n])
    OBVIOUS
  <2>3. m \in 1 .. n /\ n - m \in 0 .. n /\ n - (m - 1) \in 1 .. n /\ (n - (m - 1)) - 1 = n - m
        /\ sum[n] \in Nat
    <3>1. n - 0 = n /\ n \in 0 .. n
      BY <1>1
    <3>2. sum[n] \in Nat
      BY <3>1
    <3>3. m # 0
      BY <2>2, <3>1, <3>2
    <3> QED BY <1>1, <2>2, <3>2, <3>3
  <2>4. m - 1 \in 0 .. n /\ m - 1 \notin ahead
    <3> HIDE DEF ahead
    <3> QED BY <1>1, <2>1, <2>3
  <2>5. sum[n - (m - 1)] <= sum[n]
    BY <2>4
  <2>6. sum[n - (m - 1)] = sum[n - m] + sizes[n - (m - 1)]
    BY <2>3
  <2>7. sum[n - m] \in Nat /\ sizes[n - (m - 1)] \in Nat
    BY <1>1, <2>3
  <2> QED BY <2>2, <2>3, <2>5, <2>6, <2>7
<1> SUFFICES ASSUME NEW k \in 0 .. n PROVE sum[k] <= sum[n] /\ sum[k] <= k * MaxSize
  OBVIOUS
<1>4. n - k \in 0 .. n /\ n - (n - k) = k
  BY <1>1
<1>5. sum[n - (n - k)] <= sum[n]
  BY <1>3, <1>4
<1> QED BY <1>2, <1>4, <1>5

\* One of the files is the largest.
LEMMA LargestIs ==
    ASSUME NEW n \in 1 .. MaxSize, NEW sizes \in Sizes(n)
    PROVE  Y!Largest(sizes) \in 1 .. n
<1> USE DeadlinesAssumption
<1>1. n \in Nat /\ n >= 1 /\ DOMAIN sizes = 1 .. n /\ sizes \in [1 .. n -> 0 .. MaxSize]
  BY DEF Sizes
<1> DEFINE gaps == {g \in Nat : \E j \in 1 .. n : g = MaxSize - sizes[j]}
<1>2. gaps # {}
  <2>1. 1 \in 1 .. n /\ MaxSize - sizes[1] \in Nat
    BY <1>1
  <2> QED BY <2>1
<1>3. PICK g \in gaps : \A h \in gaps : g <= h
  <2>1. gaps \in SUBSET Nat
    OBVIOUS
  <2> HIDE DEF gaps
  <2> QED BY <1>2, <2>1, LeastNumber
<1>4. \A j \in 1 .. n : sizes[j] \in Nat /\ MaxSize - sizes[j] \in Nat /\ g <= MaxSize - sizes[j]
  <2> SUFFICES ASSUME NEW j \in 1 .. n
               PROVE  sizes[j] \in Nat /\ MaxSize - sizes[j] \in Nat /\ g <= MaxSize - sizes[j]
    OBVIOUS
  <2>1. sizes[j] \in Nat /\ MaxSize - sizes[j] \in Nat
    BY <1>1
  <2>2. MaxSize - sizes[j] \in gaps
    BY <2>1
  <2> HIDE DEF gaps
  <2> QED BY <1>3, <2>1, <2>2
<1> DEFINE tops == {j \in 1 .. n : g = MaxSize - sizes[j]}
<1>5. tops # {} /\ tops \in SUBSET Nat
  BY <1>1
<1>6. PICK i \in tops : \A j \in tops : i <= j
  <2> HIDE DEF tops
  <2> QED BY <1>5, LeastNumber
<1>7. i \in 1 .. n /\ g = MaxSize - sizes[i]
  OBVIOUS
<1>8. \A j \in 1 .. n : sizes[j] < sizes[i] \/ (sizes[j] = sizes[i] /\ i <= j)
  <2> SUFFICES ASSUME NEW j \in 1 .. n, ~(sizes[j] < sizes[i])
               PROVE  sizes[j] = sizes[i] /\ i <= j
    BY <1>4, <1>7
  <2>1. sizes[j] = sizes[i]
    BY <1>4, <1>7
  <2>2. j \in tops
    BY <1>7, <2>1
  <2> HIDE DEF tops
  <2> QED BY <1>6, <2>1, <2>2
<1> QED BY <1>1, <1>7, <1>8 DEF Y!Largest

\* The pieces that hold bytes of a stretch.
Held(from, size, long, bound) ==
    {p \in 0 .. bound : p * long < from + size /\ (p + 1) * long > from}

\* The piece of a byte is the last one to start no later.
LEMMA PieceStarts ==
    ASSUME NEW byte \in Nat, NEW long \in Nat, long > 0
    PROVE  /\ Y!PieceOf(byte, long) \in Nat
           /\ \A k \in Nat : long * k <= byte <=> k <= Y!PieceOf(byte, long)
<1>1. PICK piece \in Nat : piece = byte \div long
  BY Quotient
<1>2. ASSUME NEW k \in Nat PROVE long * k <= byte <=> k <= piece
  <2>1. long * k \in Nat
    OBVIOUS
  <2>2. long * k <= byte => k <= piece
    BY <1>1, <2>1, Quotient
  <2>3. byte < long * k => piece < k
    BY <1>1, <2>1, Quotient
  <2> QED BY <2>1, <2>2, <2>3
<1> QED BY <1>1, <1>2 DEF Y!PieceOf

\* The pieces that hold bytes of a stretch go from that of its first byte to
\* that of its last.
LEMMA PiecesAre ==
    ASSUME NEW from \in Nat, NEW size \in Nat, size > 0, NEW long \in Nat, long > 0,
           NEW bound \in Nat, from + size <= bound
    PROVE  Held(from, size, long, bound) =
              Y!PieceOf(from, long) .. Y!PieceOf(from + size - 1, long)
<1>1. PICK final \in Nat : final = from + size - 1
  OBVIOUS
<1>2. Y!PieceOf(from, long) \in Nat /\ Y!PieceOf(final, long) \in Nat
  BY PieceStarts
<1>3. ASSUME NEW p \in Nat PROVE (p + 1) * long > from <=> p >= Y!PieceOf(from, long)
  <2>1. (p + 1) * long = long * (p + 1) /\ p + 1 \in Nat /\ long * (p + 1) \in Nat
    OBVIOUS
  <2>2. long * (p + 1) <= from <=> p + 1 <= Y!PieceOf(from, long)
    BY <2>1, PieceStarts
  <2> QED BY <1>2, <2>1, <2>2
<1>4. ASSUME NEW p \in Nat PROVE p * long < from + size <=> p <= Y!PieceOf(final, long)
  <2>1. p * long = long * p /\ long * p \in Nat
    OBVIOUS
  <2>2. long * p <= final <=> p <= Y!PieceOf(final, long)
    BY PieceStarts
  <2> QED BY <1>1, <2>1, <2>2
<1>5. Y!PieceOf(final, long) <= bound
  <2>1. PICK k \in Nat : k = Y!PieceOf(final, long)
    BY <1>2
  <2>2. long * k <= final
    BY <2>1, PieceStarts
  <2>3. (long - 1) * k >= 0 /\ (long - 1) * k = long * k - k /\ long * k \in Nat
    OBVIOUS
  <2> QED BY <1>1, <2>1, <2>2, <2>3
<1>6. PICK low \in Nat, high2 \in Nat : low = Y!PieceOf(from, long) /\ high2 = Y!PieceOf(final, long)
  BY <1>2
<1>7. \A p \in 0 .. bound :
         (p * long < from + size /\ (p + 1) * long > from) <=> p \in low .. high2
  BY <1>3, <1>4, <1>6
<1>8. \A p \in low .. high2 : p \in 0 .. bound
  BY <1>5, <1>6
<1>9. Held(from, size, long, bound) = low .. high2
  BY <1>7, <1>8 DEF Held
<1> QED BY <1>1, <1>6, <1>9

\* The first so many pieces of a stretch.
LEMMA HeadIs ==
    ASSUME NEW first \in Nat, NEW final \in Nat, NEW many \in Nat
    PROVE  {p \in first .. final : Y!Cardinality({q \in first .. final : q < p}) < many}
             = {p \in first .. final : p <= first + many - 1}
<1> SUFFICES ASSUME NEW p \in first .. final
             PROVE  Y!Cardinality({q \in first .. final : q < p}) = p - first
  OBVIOUS
<1>1. {q \in first .. final : q < p} = first .. p - 1
  OBVIOUS
<1>2. PICK a \in Int, c \in Int : a = first /\ c = p - 1 /\ ~(a > c + 1)
  OBVIOUS
<1>3. Cardinality(a .. c) = IF a > c THEN 0 ELSE c - a + 1
  BY FS_Interval
<1>4. Y!Cardinality(a .. c) = Cardinality(a .. c)
  BY DEF Y!Cardinality, Cardinality
<1>5. {q \in first .. final : q < p} = a .. c
  BY <1>1, <1>2
<1>6. Cardinality(a .. c) = p - first
  BY <1>2, <1>3
<1> QED BY <1>4, <1>5, <1>6

Foremost(pieces, many) == {p \in pieces : Y!Cardinality({q \in pieces : q < p}) < many}
Front(from, size, long, total, many) ==
    Y!PieceOf(from, long) ..
        Y!Least(Y!Least(Y!PieceOf(total - 1, long), Y!PieceOf(from + size - 1, long)),
                Y!PieceOf(from, long) + many - 1)

\* The pieces that get a deadline are the first of those: the end of the
\* torrent never cuts them short.
LEMMA HeadOfStretch ==
    ASSUME NEW from \in Nat, NEW size \in Nat, size > 0, NEW long \in Nat, long > 0,
           NEW total \in Nat, NEW bound \in Nat, from + size <= total, total <= bound,
           NEW many \in Nat
    PROVE  Front(from, size, long, total, many)
             = Foremost(Held(from, size, long, bound), many)
<1>1. PICK begin \in Nat, end \in Nat : begin = from + size - 1 /\ end = total - 1
  OBVIOUS
<1>2. Held(from, size, long, bound) = Y!PieceOf(from, long) .. Y!PieceOf(begin, long)
  <2>1. from + size <= bound
    OBVIOUS
  <2> QED BY <1>1, <2>1, PiecesAre
<1>3. PICK first \in Nat, final \in Nat, over \in Nat :
         /\ first = Y!PieceOf(from, long) /\ final = Y!PieceOf(begin, long)
         /\ over = Y!PieceOf(end, long)
  BY PieceStarts
<1>4. final <= over
  <2>1. long * final <= begin
    BY <1>3, PieceStarts
  <2>2. long * final <= end
    <3>1. long * final \in Nat
      OBVIOUS
    <3> QED BY <1>1, <2>1, <3>1
  <2> QED BY <1>3, <2>2, PieceStarts
<1>5. Y!Least(over, final) = final
  BY <1>4 DEF Y!Least
<1>6. first .. Y!Least(final, first + many - 1) = {p \in first .. final : p <= first + many - 1}
  BY DEF Y!Least
<1>7. {p \in first .. final : Y!Cardinality({q \in first .. final : q < p}) < many}
         = {p \in first .. final : p <= first + many - 1}
  BY HeadIs
<1>8. Foremost(Held(from, size, long, bound), many)
         = {p \in first .. final : p <= first + many - 1}
  BY <1>2, <1>3, <1>7 DEF Foremost
<1>9. Front(from, size, long, total, many) = first .. Y!Least(final, first + many - 1)
  BY <1>1, <1>3, <1>5 DEF Front
<1> QED BY <1>6, <1>8, <1>9

\* The deadlines go to the first pieces of the largest file.
LEMMA HeadStreams == Y!StreamsHead
<1> SUFFICES ASSUME NEW n \in 1 .. MaxSize, NEW sizes \in [1 .. n -> 0 .. MaxSize],
                    NEW pieceLength \in 1 .. MaxSize
             PROVE  LET i == Y!Largest(sizes)
                        from == Y!Offset(sizes, i)
                        held == {p \in 0 .. (n * MaxSize) :
                                    /\ p * pieceLength < from + sizes[i]
                                    /\ (p + 1) * pieceLength > from}
                    IN  sizes[i] > 0 =>
                            Y!StreamingDeadlines(sizes, pieceLength) =
                                {p \in held : Y!Cardinality({q \in held : q < p}) < HeadPieces}
  BY DEF Y!StreamsHead
<1>1. sizes \in Sizes(n) /\ n \in Nat /\ Len(sizes) = n
  BY DeadlinesAssumption DEF Sizes
<1>2. PICK i \in 1 .. n : i = Y!Largest(sizes)
  BY <1>1, LargestIs
<1>3. PICK sum \in [0 .. n -> Nat] :
         /\ sum[0] = 0 /\ \A k \in 1 .. n : sum[k] = sum[k - 1] + sizes[k]
         /\ \A k \in 1 .. n + 1 : Y!Offset(sizes, k) = sum[k - 1]
  <2>1. sizes \in [1 .. n -> Nat]
    OBVIOUS
  <2> QED BY <1>1, <2>1, OffsetsAre
<1>4. i - 1 \in 0 .. n /\ i \in 0 .. n /\ n \in 0 .. n /\ i \in 1 .. n + 1 /\ n + 1 \in 1 .. n + 1
  BY <1>1
<1>5. PICK from \in Nat, size \in Nat, total \in Nat :
         from = sum[i - 1] /\ size = sizes[i] /\ total = sum[n]
  BY <1>4, DeadlinesAssumption
<1>6. PICK bound \in Nat : bound = n * MaxSize
  BY <1>1, DeadlinesAssumption
<1>7. from + size <= total /\ total <= bound
  <2>1. sum[i] = from + size
    BY <1>3, <1>5
  <2>2. sum[i] <= sum[n] /\ sum[n] <= n * MaxSize
    BY <1>1, <1>3, <1>4, OffsetsGrow
  <2> QED BY <1>5, <1>6, <2>1, <2>2
<1>8. Y!Offset(sizes, i) = from /\ Y!Offset(sizes, n + 1) = total
  <2>1. (n + 1) - 1 = n
    BY <1>1
  <2> QED BY <1>3, <1>4, <1>5, <2>1
<1>9. PICK long \in Nat : long = pieceLength /\ long > 0
  BY DeadlinesAssumption
<1>10. ASSUME size > 0
       PROVE  Y!StreamingDeadlines(sizes, long)
                = Foremost(Held(from, size, long, bound), HeadPieces)
  <2>1. sizes[i] # 0 /\ sizes[i] = size
    BY <1>5, <1>10
  <2>2. Y!Offset(sizes, Len(sizes) + 1) = total
    BY <1>1, <1>8
  <2>3. Y!StreamingDeadlines(sizes, long) = Front(from, size, long, total, HeadPieces)
    BY <1>2, <1>8, <2>1, <2>2 DEF Y!StreamingDeadlines, Front
  <2>4. PICK many \in Nat : many = HeadPieces
    BY DeadlinesAssumption
  <2>5. size > 0 /\ long > 0 /\ from + size <= total /\ total <= bound
    BY <1>7, <1>9, <1>10
  <2>6. Front(from, size, long, total, many) = Foremost(Held(from, size, long, bound), many)
    BY <2>5, HeadOfStretch
  <2> QED BY <2>3, <2>4, <2>6
<1>11. {p \in 0 .. (n * MaxSize) :
          /\ p * pieceLength < Y!Offset(sizes, Y!Largest(sizes)) + sizes[Y!Largest(sizes)]
          /\ (p + 1) * pieceLength > Y!Offset(sizes, Y!Largest(sizes))}
          = Held(from, size, long, bound)
  BY <1>2, <1>5, <1>6, <1>8, <1>9 DEF Held
<1> QED BY <1>2, <1>5, <1>9, <1>10, <1>11 DEF Foremost

-----------------------------------------------------------------------------
(* Limits                                                                  *)

\* A remainder is the number that differs from it by a multiple.
LEMMA RemainderIs ==
    ASSUME NEW a \in Int, NEW d \in Nat, d > 0, NEW r \in 0 .. d - 1,
           NEW k \in Int, a = d * k + r
    PROVE  a % d = r
<1>1. PICK q \in Int : q = a \div d
  OBVIOUS
<1>2. PICK rest \in Int : rest = a % d
  OBVIOUS
<1>3. a = d * q + rest /\ 0 <= rest /\ rest < d
  BY <1>1, <1>2
<1>4. d * (q - k) = r - rest
  BY <1>3
<1>5. PICK e \in Int : e = q - k
  OBVIOUS
<1>6. d * e = r - rest
  BY <1>4, <1>5
<1>7. CASE e >= 1
  <2>1. e - 1 \in Nat
    BY <1>7
  <2>2. d * (e - 1) >= 0
    BY <2>1
  <2>3. d * e >= d
    BY <2>2
  <2> QED BY <1>3, <1>6, <2>3
<1>8. CASE e <= -1
  <2>1. -1 - e \in Nat
    BY <1>8
  <2>2. d * (-1 - e) >= 0
    BY <2>1
  <2>3. d * e <= -d
    BY <2>2
  <2> QED BY <1>3, <1>6, <2>3
<1>9. CASE e = 0
  BY <1>2, <1>6, <1>9
<1> QED BY <1>7, <1>8, <1>9

\* The time idle is right on either side of the wrap of the tick count.
LEMMA IdleIsMeasured == L!IdleMeasured
<1> SUFFICES ASSUME NEW input \in 0 .. Wrap - 1, NEW gone \in 0 .. Wrap - 1
             PROVE  L!IdleMs(IF input + gone < Wrap THEN input + gone ELSE input + gone - Wrap,
                             input) = gone
  BY DEF L!IdleMeasured
<1>1. PICK d \in Nat : d = Wrap /\ d > 0
  BY LimitsAssumption
<1>2. /\ gone \in 0 .. d - 1 /\ input \in 0 .. d - 1
  BY <1>1
<1>3. gone = d * 0 + gone /\ gone - d = d * (-1) + gone
  BY <1>2
<1>4. gone % d = gone /\ (gone - d) % d = gone
  <2>1. gone \in Int /\ gone - d \in Int /\ 0 \in Int /\ -1 \in Int /\ d > 0
    BY <1>1, <1>2
  <2>2. gone % d = gone
    BY <1>2, <1>3, <2>1, RemainderIs
  <2>3. (gone - d) % d = gone
    BY <1>2, <1>3, <2>1, RemainderIs
  <2> QED BY <2>2, <2>3
<1>5. CASE input + gone < Wrap
  <2>1. (input + gone) - input = gone
    BY <1>2
  <2> QED BY <1>1, <1>4, <1>5, <2>1 DEF L!IdleMs
<1>6. CASE ~(input + gone < Wrap)
  <2>1. (input + gone - d) - input = gone - d
    BY <1>1, <1>2
  <2> QED BY <1>1, <1>4, <1>6, <2>1 DEF L!IdleMs
<1> QED BY <1>5, <1>6

=============================================================================
