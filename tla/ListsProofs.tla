---------------------------- MODULE ListsProofs ----------------------------
(***************************************************************************)
(* What linking and unlinking an entry does to a list, for any list.       *)
(***************************************************************************)
EXTENDS Lists, SequenceTheorems, FiniteSetTheorems, WellFoundedInduction, TLAPS

\* The entries behind e.
After(list, e) ==
    {list[j] : j \in {k \in 1..Len(list) : \E i \in 1..(k - 1) : list[i] = e}}

\* The entries of a list.
LEMMA Entries ==
    ASSUME NEW S, NEW s \in Seq(S)
    PROVE  /\ ToSet(s) = {s[i] : i \in 1..Len(s)}
           /\ ToSet(s) \subseteq S
           /\ Len(s) \in Nat
  BY DEF ToSet

\* RemoveAt closes the gap.
LEMMA RemoveAtShifts ==
    ASSUME NEW S, NEW s \in Seq(S), NEW k \in 1..Len(s)
    PROVE  /\ RemoveAt(s, k) \in Seq(S)
           /\ Len(RemoveAt(s, k)) = Len(s) - 1
           /\ \A i \in 1..(Len(s) - 1) :
                RemoveAt(s, k)[i] = IF i < k THEN s[i] ELSE s[i + 1]
<1> DEFINE a == SubSeq(s, 1, k - 1)
           b == SubSeq(s, k + 1, Len(s))
<1>1. a \in Seq(S) /\ Len(a) = k - 1 /\ \A i \in 1..(k - 1) : a[i] = s[i]
  OBVIOUS
<1>2. b \in Seq(S) /\ Len(b) = Len(s) - k
      /\ \A i \in 1..(Len(s) - k) : b[i] = s[k + i]
  OBVIOUS
<1>3. RemoveAt(s, k) = a \o b
  BY DEF RemoveAt
<1> HIDE DEF a, b
<1>4. a \o b \in Seq(S) /\ Len(a \o b) = Len(a) + Len(b)
      /\ \A i \in 1..(Len(a) + Len(b)) :
           (a \o b)[i] = IF i <= Len(a) THEN a[i] ELSE b[i - Len(a)]
  BY <1>1, <1>2, ConcatProperties
<1>5. ASSUME NEW i \in 1..(Len(s) - 1)
      PROVE  (a \o b)[i] = IF i < k THEN s[i] ELSE s[i + 1]
  <2>1. CASE i < k
    <3>1. i \in 1..(k - 1) /\ i <= Len(a) /\ i \in 1..(Len(a) + Len(b))
      BY <1>1, <1>2, <2>1
    <3>. QED
      BY <1>1, <1>4, <2>1, <3>1
  <2>2. CASE ~(i < k)
    <3>1. /\ ~(i <= Len(a)) /\ i \in 1..(Len(a) + Len(b))
          /\ i - Len(a) \in 1..(Len(s) - k) /\ k + (i - Len(a)) = i + 1
      BY <1>1, <1>2, <2>2
    <3>. QED
      BY <1>2, <1>4, <2>2, <3>1
  <2>. QED
    BY <2>1, <2>2
<1>6. Len(a) + Len(b) = Len(s) - 1
  BY <1>1, <1>2
<1>. QED
  BY <1>3, <1>4, <1>5, <1>6

\* The entry at a position of a list leaves the others, in their order.
LEMMA RemoveAtKeeps ==
    ASSUME NEW S, NEW s \in Seq(S), IsInjective(s), NEW k \in 1..Len(s)
    PROVE  /\ RemoveAt(s, k) \in Seq(S)
           /\ Len(RemoveAt(s, k)) = Len(s) - 1
           /\ IsInjective(RemoveAt(s, k))
           /\ ToSet(RemoveAt(s, k)) = ToSet(s) \ {s[k]}
           /\ \A e : e # s[k] => After(RemoveAt(s, k), e) = After(s, e) \ {s[k]}
<1> DEFINE r == RemoveAt(s, k)
           up(i) == IF i < k THEN i ELSE i + 1
<1>1. /\ r \in Seq(S) /\ Len(r) = Len(s) - 1
      /\ \A i \in 1..(Len(s) - 1) : r[i] = IF i < k THEN s[i] ELSE s[i + 1]
  BY RemoveAtShifts
<1> HIDE DEF r
<1>2. \A i \in 1..Len(r) : r[i] = s[up(i)] /\ up(i) \in 1..Len(s) \ {k}
  <2>. SUFFICES ASSUME NEW i \in 1..Len(r)
                PROVE  r[i] = s[up(i)] /\ up(i) \in 1..Len(s) \ {k}
    OBVIOUS
  <2>1. CASE i < k
    BY <1>1, <2>1
  <2>2. CASE ~(i < k)
    BY <1>1, <2>2
  <2>. QED
    BY <2>1, <2>2
<1>3. \A j \in 1..Len(s) \ {k} : \E i \in 1..Len(r) : up(i) = j
  <2>. SUFFICES ASSUME NEW j \in 1..Len(s) \ {k}
                PROVE  \E i \in 1..Len(r) : up(i) = j
    OBVIOUS
  <2>1. CASE j < k
    <3>1. j \in 1..Len(r) /\ up(j) = j
      BY <1>1, <2>1
    <3>. QED
      BY <3>1
  <2>2. CASE ~(j < k)
    <3>1. j - 1 \in 1..Len(r) /\ up(j - 1) = j
      BY <1>1, <2>2
    <3>. QED
      BY <3>1
  <2>. QED
    BY <2>1, <2>2
<1>4. \A i, j \in 1..Len(r) : i < j <=> up(i) < up(j)
  BY <1>1
<1>5. \A i, j \in 1..Len(s) : s[i] = s[j] => i = j
  BY DEF IsInjective
<1>6. IsInjective(r)
  BY <1>1, <1>2, <1>5 DEF IsInjective
<1> HIDE DEF up
<1>7. ToSet(r) = ToSet(s) \ {s[k]}
  <2>1. DOMAIN r = 1..Len(r) /\ DOMAIN s = 1..Len(s)
    BY <1>1
  <2>2. ASSUME NEW x \in ToSet(r) PROVE x \in ToSet(s) \ {s[k]}
    <3>1. PICK i \in 1..Len(r) : r[i] = x
      BY <2>1, <2>2 DEF ToSet
    <3>. QED
      BY <1>2, <1>5, <2>1, <3>1 DEF ToSet
  <2>3. ASSUME NEW x \in ToSet(s) \ {s[k]} PROVE x \in ToSet(r)
    <3>1. PICK j \in 1..Len(s) \ {k} : s[j] = x
      BY <2>1, <2>3 DEF ToSet
    <3>2. PICK i \in 1..Len(r) : up(i) = j
      BY <1>3
    <3>. QED
      BY <1>2, <2>1, <3>1, <3>2 DEF ToSet
  <2>. QED
    BY <2>2, <2>3
<1>8. ASSUME NEW e, e # s[k] PROVE After(r, e) = After(s, e) \ {s[k]}
  <2>1. ASSUME NEW x \in After(r, e) PROVE x \in After(s, e) \ {s[k]}
    <3>1. PICK j \in 1..Len(r) : r[j] = x /\ \E i \in 1..(j - 1) : r[i] = e
      BY <2>1 DEF After
    <3>2. PICK i \in 1..(j - 1) : r[i] = e
      BY <3>1
    <3>3. /\ i \in 1..Len(r) /\ i < j
          /\ up(i) \in 1..Len(s) /\ up(j) \in 1..Len(s) \ {k} /\ up(i) < up(j)
          /\ s[up(i)] = e /\ s[up(j)] = x
      BY <1>1, <1>2, <1>4, <3>1, <3>2
    <3>4. x # s[k] /\ up(i) \in 1..(up(j) - 1)
      BY <1>5, <3>3
    <3>. QED
      BY <3>3, <3>4 DEF After
  <2>2. ASSUME NEW x \in After(s, e) \ {s[k]} PROVE x \in After(r, e)
    <3>1. PICK n \in 1..Len(s) : s[n] = x /\ \E m \in 1..(n - 1) : s[m] = e
      BY <2>2 DEF After
    <3>2. PICK m \in 1..(n - 1) : s[m] = e
      BY <3>1
    <3>3. m \in 1..Len(s) \ {k} /\ n \in 1..Len(s) \ {k} /\ m < n
      BY <1>8, <2>2, <3>1, <3>2
    <3>4. PICK i \in 1..Len(r) : up(i) = m
      BY <1>3, <3>3
    <3>5. PICK j \in 1..Len(r) : up(j) = n
      BY <1>3, <3>3
    <3>6. i < j /\ r[i] = e /\ r[j] = x
      BY <1>2, <1>4, <3>1, <3>2, <3>3, <3>4, <3>5
    <3>7. i \in 1..(j - 1)
      BY <3>6
    <3>. QED
      BY <3>6, <3>7 DEF After
  <2>. QED
    BY <2>1, <2>2
<1>. QED
  BY <1>1, <1>6, <1>7, <1>8 DEF r

\* InsertTailList of an entry that is not on the list.
LEMMA AppendKeeps ==
    ASSUME NEW S, NEW s \in Seq(S), IsInjective(s), NEW x \in S, x \notin ToSet(s)
    PROVE  /\ Append(s, x) \in Seq(S)
           /\ Len(Append(s, x)) = Len(s) + 1
           /\ IsInjective(Append(s, x))
           /\ ToSet(Append(s, x)) = ToSet(s) \cup {x}
           /\ After(Append(s, x), x) = {}
           /\ \A e \in ToSet(s) : After(Append(s, x), e) = After(s, e) \cup {x}
<1> DEFINE r == Append(s, x)
<1>1. /\ r \in Seq(S) /\ Len(r) = Len(s) + 1 /\ Len(s) \in Nat
      /\ \A i \in 1..Len(s) : r[i] = s[i]
      /\ r[Len(s) + 1] = x
      /\ 1..Len(r) = 1..Len(s) \cup {Len(s) + 1}
  BY AppendProperties
<1>2. \A i, j \in 1..Len(s) : s[i] = s[j] => i = j
  BY DEF IsInjective
<1>3. \A i \in 1..Len(s) : s[i] # x
  BY DEF ToSet
<1> HIDE DEF r
<1>4. IsInjective(r)
  <2>1. DOMAIN r = 1..Len(r)
    BY <1>1
  <2>. QED
    BY <1>1, <1>2, <1>3, <2>1 DEF IsInjective
<1>5. ToSet(r) = ToSet(s) \cup {x}
  <2>1. DOMAIN r = 1..Len(r) /\ DOMAIN s = 1..Len(s)
    BY <1>1
  <2>. QED
    BY <1>1, <2>1 DEF ToSet
<1>6. After(r, x) = {}
  <2>. SUFFICES ASSUME NEW j \in 1..Len(r), NEW i \in 1..(j - 1), r[i] = x
                PROVE  FALSE
    BY DEF After
  <2>1. i \in 1..Len(s)
    BY <1>1
  <2>. QED
    BY <1>1, <1>3, <2>1
<1>7. ASSUME NEW e \in ToSet(s) PROVE After(r, e) = After(s, e) \cup {x}
  <2>1. PICK m \in 1..Len(s) : s[m] = e
    BY DEF ToSet
  <2>2. ASSUME NEW y \in After(r, e) PROVE y \in After(s, e) \cup {x}
    <3>1. PICK j \in 1..Len(r) : r[j] = y /\ \E i \in 1..(j - 1) : r[i] = e
      BY <2>2 DEF After
    <3>2. PICK i \in 1..(j - 1) : r[i] = e
      BY <3>1
    <3>3. CASE j = Len(s) + 1
      BY <1>1, <3>1, <3>3
    <3>4. CASE j \in 1..Len(s)
      <4>1. i \in 1..Len(s) /\ s[i] = e /\ s[j] = y
        BY <1>1, <3>1, <3>2, <3>4
      <4>. QED
        BY <3>2, <3>4, <4>1 DEF After
    <3>. QED
      BY <1>1, <3>3, <3>4
  <2>3. ASSUME NEW y \in After(s, e) PROVE y \in After(r, e)
    <3>1. PICK j \in 1..Len(s) : s[j] = y /\ \E i \in 1..(j - 1) : s[i] = e
      BY <2>3 DEF After
    <3>2. PICK i \in 1..(j - 1) : s[i] = e
      BY <3>1
    <3>3. i \in 1..Len(s) /\ r[i] = e /\ r[j] = y /\ j \in 1..Len(r)
      BY <1>1, <3>1, <3>2
    <3>. QED
      BY <3>2, <3>3 DEF After
  <2>4. x \in After(r, e)
    <3>1. Len(s) + 1 \in 1..Len(r) /\ m \in 1..((Len(s) + 1) - 1) /\ r[m] = e
      BY <1>1, <2>1
    <3>. QED
      BY <1>1, <3>1 DEF After
  <2>. QED
    BY <2>2, <2>3, <2>4
<1>. QED
  BY <1>1, <1>4, <1>5, <1>6, <1>7 DEF r

\* RemoveEntryList.
LEMMA UnlinkKeeps ==
    ASSUME NEW S, NEW s \in Seq(S), IsInjective(s), NEW x
    PROVE  /\ Unlink(s, x) \in Seq(S)
           /\ Len(Unlink(s, x)) = IF x \in ToSet(s) THEN Len(s) - 1 ELSE Len(s)
           /\ IsInjective(Unlink(s, x))
           /\ ToSet(Unlink(s, x)) = ToSet(s) \ {x}
           /\ \A e : e # x => After(Unlink(s, x), e) = After(s, e) \ {x}
<1>1. CASE x \in ToSet(s)
  <2> DEFINE k == CHOOSE i \in 1..Len(s) : s[i] = x
  <2>1. k \in 1..Len(s) /\ s[k] = x
    BY <1>1 DEF ToSet
  <2>2. Unlink(s, x) = RemoveAt(s, k)
    BY <1>1 DEF Unlink
  <2> HIDE DEF k
  <2>3. /\ RemoveAt(s, k) \in Seq(S) /\ Len(RemoveAt(s, k)) = Len(s) - 1
        /\ IsInjective(RemoveAt(s, k))
        /\ ToSet(RemoveAt(s, k)) = ToSet(s) \ {x}
        /\ \A e : e # x => After(RemoveAt(s, k), e) = After(s, e) \ {x}
    BY <2>1, RemoveAtKeeps
  <2>. QED
    BY <1>1, <2>2, <2>3
<1>2. CASE x \notin ToSet(s)
  <2>1. Unlink(s, x) = s
    BY <1>2 DEF Unlink
  <2>2. \A e : x \notin After(s, e)
    BY <1>2 DEF After, ToSet
  <2>. QED
    BY <1>2, <2>1, <2>2
<1>. QED
  BY <1>1, <1>2

\* A list has as many entries as it is long.
LEMMA EntriesCounted ==
    ASSUME NEW S, NEW s \in Seq(S), IsInjective(s)
    PROVE  IsFiniteSet(ToSet(s)) /\ Cardinality(ToSet(s)) = Len(s)
<1>1. s \in Bijection(1..Len(s), ToSet(s))
  <2>1. s \in [1..Len(s) -> ToSet(s)]
    BY Entries DEF ToSet
  <2>2. \A i, j \in 1..Len(s) : s[i] = s[j] => i = j
    BY DEF IsInjective
  <2>3. \A e \in ToSet(s) : \E i \in 1..Len(s) : s[i] = e
    BY Entries
  <2>. QED
    BY <2>1, <2>2, <2>3 DEF Bijection, Injection, Surjection, IsInjective
<1>2. IsFiniteSet(1..Len(s)) /\ Cardinality(1..Len(s)) = Len(s)
  <2>1. Len(s) \in Nat /\ 1 \in Int
    BY Entries
  <2>. QED
    BY <2>1, FS_Interval
<1>3. ExistsBijection(1..Len(s), ToSet(s))
  BY <1>1 DEF ExistsBijection
<1>. QED
  BY <1>2, <1>3, FS_Bijection, FS_SameCardinalityBij

\* The entries behind one.
LEMMA AfterEntry ==
    ASSUME NEW S, NEW s \in Seq(S), IsInjective(s), NEW k \in 1..Len(s)
    PROVE  /\ After(s, s[k]) = {s[j] : j \in (k + 1)..Len(s)}
           /\ s[k] \notin After(s, s[k])
<1>1. \A i, j \in 1..Len(s) : s[i] = s[j] => i = j
  BY DEF IsInjective
<1>2. ASSUME NEW j \in 1..Len(s)
      PROVE  (\E i \in 1..(j - 1) : s[i] = s[k]) <=> j \in (k + 1)..Len(s)
  BY <1>1, <1>2
<1>. QED
  BY <1>1, <1>2 DEF After

\* The first k entries of a list.
Before(list, k) == {list[j] : j \in 1..k}

\* rest is the list s without its first m entries.
RestOf(rest, s, m) ==
    /\ Len(rest) = Len(s) - m
    /\ \A j \in 1..(Len(s) - m) : rest[j] = s[m + j]

\* The rest of a list ...
LEMMA RestOfList ==
    ASSUME NEW S, NEW s \in Seq(S), NEW m \in 0..Len(s)
    PROVE  /\ SubSeq(s, m + 1, Len(s)) \in Seq(S)
           /\ RestOf(SubSeq(s, m + 1, Len(s)), s, m)
<1> DEFINE rest == SubSeq(s, m + 1, Len(s))
<1>1. Len(s) \in Nat /\ m \in Nat /\ m <= Len(s)
  OBVIOUS
<1>2. \A j \in (m + 1)..Len(s) : s[j] \in S
  BY <1>1
<1>3. /\ rest \in Seq(S)
      /\ Len(rest) = IF m + 1 <= Len(s) THEN Len(s) - (m + 1) + 1 ELSE 0
      /\ \A j \in 1..(Len(s) - (m + 1) + 1) : rest[j] = s[(m + 1) + j - 1]
  BY <1>1, <1>2, SubSeqProperties
<1>4. Len(s) - (m + 1) + 1 = Len(s) - m
  BY <1>1
<1>5. \A j \in Nat : (m + 1) + j - 1 = m + j
  BY <1>1
<1> HIDE DEF rest
<1>6. m + 1 <= Len(s) \/ Len(s) - m = 0
  BY <1>1
<1>7. \A j \in 1..(Len(s) - m) : rest[j] = s[m + j]
  <2>1. 1..(Len(s) - m) \subseteq Nat
    BY <1>1
  <2>. QED
    BY <1>3, <1>4, <1>5, <2>1
<1>. QED
  BY <1>1, <1>3, <1>4, <1>6, <1>7 DEF rest, RestOf

\* ... whoever is on it, those before him and those behind.
LEMMA RestEntries ==
    ASSUME NEW S, NEW s \in Seq(S), IsInjective(s), NEW m \in 0..Len(s),
           NEW rest \in Seq(S), RestOf(rest, s, m)
    PROVE  /\ ToSet(rest) = {s[j] : j \in (m + 1)..Len(s)}
           /\ Before(rest, Len(rest)) = ToSet(rest)
           /\ \A k \in 0..(Len(rest) - 1) :
                  /\ rest[k + 1] \in ToSet(rest)
                  /\ ToSet(rest) = Before(rest, k) \cup {rest[k + 1]}
                                     \cup After(s, rest[k + 1])
                  /\ (Before(rest, k) \cup {rest[k + 1]})
                       \cap After(s, rest[k + 1]) = {}
<1>0. Len(s) \in Nat /\ m \in Nat /\ m <= Len(s)
  OBVIOUS
<1>1. /\ rest \in Seq(S) /\ Len(rest) = Len(s) - m
      /\ \A j \in 1..(Len(s) - m) : rest[j] = s[m + j]
  BY DEF RestOf
<1>2. ToSet(rest) = {s[j] : j \in (m + 1)..Len(s)}
  <2>1. ASSUME NEW j \in (m + 1)..Len(s)
        PROVE  j - m \in 1..Len(rest) /\ rest[j - m] = s[j]
    <3>1. j - m \in 1..(Len(s) - m) /\ m + (j - m) = j
      BY <1>0
    <3>. QED
      BY <1>1, <3>1
  <2>2. \A j \in 1..Len(rest) : m + j \in (m + 1)..Len(s) /\ rest[j] = s[m + j]
    BY <1>0, <1>1
  <2>3. ToSet(rest) = {rest[j] : j \in 1..Len(rest)}
    BY <1>1, Entries
  <2> DEFINE A == 1..Len(rest)
             B == (m + 1)..Len(s)
  <2>4. \A i \in B : \E j \in A : rest[j] = s[i]
    BY <2>1
  <2>5. \A j \in A : \E i \in B : rest[j] = s[i]
    BY <2>2
  <2> HIDE DEF A, B
  <2>6. {rest[j] : j \in A} = {s[i] : i \in B}
    BY <2>4, <2>5
  <2>. QED
    BY <2>3, <2>6 DEF A, B
<1>3. Before(rest, Len(rest)) = ToSet(rest)
  BY <1>1, Entries DEF Before
<1>4. ASSUME NEW k \in 0..(Len(rest) - 1)
      PROVE  /\ rest[k + 1] \in ToSet(rest)
             /\ ToSet(rest) = Before(rest, k) \cup {rest[k + 1]}
                                \cup After(s, rest[k + 1])
             /\ (Before(rest, k) \cup {rest[k + 1]})
                  \cap After(s, rest[k + 1]) = {}
  <2>1. k + 1 \in 1..Len(rest) /\ m + k + 1 \in 1..Len(s)
        /\ rest[k + 1] = s[m + k + 1]
    BY <1>0, <1>1
  <2>2. /\ k \in Nat /\ m + k + 1 <= Len(s)
        /\ 1..(k + 1) = 1..k \cup {k + 1}
    <3>1. k \in Nat /\ k + 1 <= Len(s) - m
      BY <1>0, <1>1
    <3>. QED
      BY <1>0, <3>1
  <2>3. After(s, rest[k + 1]) = {s[j] : j \in (m + k + 2)..Len(s)}
    <3>1. (m + k + 1) + 1 = m + k + 2
      OBVIOUS
    <3>. QED
      BY <2>1, <3>1, AfterEntry
  <2>4. Before(rest, k + 1) = {s[j] : j \in (m + 1)..(m + k + 1)}
    <3>1. ASSUME NEW j \in (m + 1)..(m + k + 1)
          PROVE  j - m \in 1..(k + 1) /\ rest[j - m] = s[j]
      <4>1. /\ j - m \in 1..(k + 1) /\ j - m \in 1..(Len(s) - m)
            /\ m + (j - m) = j
        BY <1>0, <2>2
      <4>. QED
        BY <1>1, <4>1
    <3>2. ASSUME NEW j \in 1..(k + 1)
          PROVE  m + j \in (m + 1)..(m + k + 1) /\ rest[j] = s[m + j]
      BY <1>0, <1>1, <2>2
    <3> DEFINE A == 1..(k + 1)
               B == (m + 1)..(m + k + 1)
    <3>3. \A i \in B : \E j \in A : rest[j] = s[i]
      BY <3>1
    <3>4. \A j \in A : \E i \in B : rest[j] = s[i]
      BY <3>2
    <3> HIDE DEF A, B
    <3>5. {rest[j] : j \in A} = {s[i] : i \in B}
      BY <3>3, <3>4
    <3>. QED
      BY <3>5 DEF A, B, Before
  <2>5. (m + 1)..Len(s) = (m + 1)..(m + k + 1) \cup (m + k + 2)..Len(s)
    BY <1>0, <2>2
  <2>6. \A i, j \in 1..Len(s) : s[i] = s[j] => i = j
    BY DEF IsInjective
  <2>7. Before(rest, k + 1) \cap After(s, rest[k + 1]) = {}
    <3>. SUFFICES ASSUME NEW i \in (m + 1)..(m + k + 1),
                         NEW j \in (m + k + 2)..Len(s), s[i] = s[j]
                  PROVE  FALSE
      BY <2>3, <2>4, Zenon
    <3>. QED
      BY <1>0, <2>2, <2>6
  <2>8. ToSet(rest) = Before(rest, k + 1) \cup After(s, rest[k + 1])
    BY <1>2, <2>3, <2>4, <2>5
  <2>9. rest[k + 1] \in ToSet(rest)
    BY <1>0, <1>1, <2>1, Entries
  <2>10. Before(rest, k + 1) = Before(rest, k) \cup {rest[k + 1]}
    BY <2>2 DEF Before
  <2>. QED
    BY <2>7, <2>8, <2>9, <2>10
<1>. QED
  BY <1>1, <1>2, <1>3, <1>4
-----------------------------------------------------------------------------
\* Of two entries one is behind the other.
LEMMA Ordered ==
    ASSUME NEW S, NEW s \in Seq(S), IsInjective(s)
    PROVE  /\ \A c, d \in ToSet(s) : c = d \/ d \in After(s, c) \/ c \in After(s, d)
           /\ \A c, d \in ToSet(s) : d \in After(s, c) => c \notin After(s, d)
           /\ \A c : c \notin After(s, c) /\ After(s, c) \subseteq ToSet(s)
<1> USE DEF IsInjective
<1>1. ToSet(s) = {s[i] : i \in 1..Len(s)} /\ Len(s) \in Nat
  BY DEF ToSet
<1>2. ASSUME NEW i \in 1..Len(s), NEW j \in 1..Len(s)
      PROVE  s[j] \in After(s, s[i]) <=> i < j
  BY DEF After
<1>3. ASSUME NEW c
      PROVE  c \notin After(s, c) /\ After(s, c) \subseteq ToSet(s)
  <2>1. After(s, c) \subseteq ToSet(s)
    BY <1>1 DEF After
  <2>2. CASE c \in ToSet(s)
    BY <2>1, <2>2, <1>1, <1>2
  <2>3. CASE c \notin ToSet(s)
    BY <2>1, <2>3
  <2> QED
    BY <2>1, <2>2, <2>3
<1>4. ASSUME NEW c \in ToSet(s), NEW d \in ToSet(s)
      PROVE  /\ c = d \/ d \in After(s, c) \/ c \in After(s, d)
             /\ d \in After(s, c) => c \notin After(s, d)
  <2>1. PICK i \in 1..Len(s) : c = s[i]
    BY <1>1
  <2>2. PICK j \in 1..Len(s) : d = s[j]
    BY <1>1
  <2> QED
    BY <2>1, <2>2, <1>1, <1>2
<1> QED
  BY <1>3, <1>4

\* A set of numbers that is not empty has a least one.
LEMMA LeastExists ==
    ASSUME NEW S \in SUBSET Nat, S # {}
    PROVE  \E k \in S : \A j \in S : k <= j
<1>1. PICK k \in S : \A j \in S : <<j, k>> \notin OpToRel(<, Nat)
  BY NatLessThanWellFounded, WFMin
<1>2. ASSUME NEW j \in Nat, NEW n \in Nat, j < n
      PROVE  <<j, n>> \in OpToRel(<, Nat)
  BY <1>2 DEF OpToRel
<1>3. ASSUME NEW j \in S PROVE k <= j
  <2>1. ~ (j < k)
    BY <1>1, <1>2
  <2> QED
    BY <2>1
<1> QED
  BY <1>3

\* FirstIn is the entry with the least index, if there is one.
LEMMA FirstInIs ==
    ASSUME NEW S, NEW s \in Seq(S), NEW found, NEW none
    PROVE  \/ FirstIn(s, found, none) = none /\ \A i \in 1..Len(s) : s[i] \notin found
           \/ \E k \in 1..Len(s) :
                 /\ FirstIn(s, found, none) = s[k] /\ s[k] \in found
                 /\ \A j \in 1..Len(s) : s[j] \in found => k <= j
<1> DEFINE hits == {k \in 1..Len(s) : s[k] \in found}
           first(k) == \A j \in hits : k <= j
<1>1. CASE hits = {}
  BY <1>1 DEF FirstIn
<1>2. CASE hits # {}
  <2> DEFINE k == CHOOSE k \in hits : first(k)
  <2>1. \E n \in hits : first(n)
    <3>1. hits \in SUBSET Nat
      OBVIOUS
    <3> QED
      BY <3>1, <1>2, LeastExists
  <2>2. k \in hits /\ first(k)
    BY <2>1
  <2>3. FirstIn(s, found, none) = s[k]
    BY <1>2 DEF FirstIn
  <2> HIDE DEF k
  <2> QED
    BY <2>2, <2>3
<1> QED
  BY <1>1, <1>2

\* All other entries of a list that FirstIn could find are behind the one it finds.
LEMMA FirstInFinds ==
    ASSUME NEW S, NEW s \in Seq(S), IsInjective(s), NEW found, NEW none
    PROVE  LET c == FirstIn(s, found, none) IN
           \/ c = none /\ ToSet(s) \cap found = {}
           \/ /\ c \in ToSet(s) \cap found
              /\ \A d \in ToSet(s) \cap found : d = c \/ d \in After(s, c)
<1>1. ToSet(s) = {s[i] : i \in 1..Len(s)} /\ Len(s) \in Nat
  BY DEF ToSet
<1>2. CASE FirstIn(s, found, none) = none /\ \A i \in 1..Len(s) : s[i] \notin found
  BY <1>1, <1>2
<1>3. ASSUME NEW k \in 1..Len(s), FirstIn(s, found, none) = s[k], s[k] \in found,
             \A j \in 1..Len(s) : s[j] \in found => k <= j
      PROVE  /\ s[k] \in ToSet(s) \cap found
             /\ \A d \in ToSet(s) \cap found : d = s[k] \/ d \in After(s, s[k])
  <2>1. s[k] \in ToSet(s) \cap found
    BY <1>1, <1>3
  <2>2. ASSUME NEW d \in ToSet(s) \cap found PROVE d = s[k] \/ d \in After(s, s[k])
    <3>1. PICK j \in 1..Len(s) : d = s[j]
      BY <1>1
    <3>2. CASE k = j
      BY <3>1, <3>2
    <3>3. CASE k < j
      BY <1>1, <3>1, <3>3 DEF After
    <3> QED
      BY <1>1, <1>3, <3>1, <3>2, <3>3
  <2> QED
    BY <2>1, <2>2
<1> QED
  BY <1>2, <1>3, FirstInIs

\* InsertHeadList.
LEMMA PrependKeeps ==
    ASSUME NEW S, NEW s \in Seq(S), IsInjective(s), NEW x \in S, x \notin ToSet(s)
    PROVE  /\ <<x>> \o s \in Seq(S)
           /\ IsInjective(<<x>> \o s)
           /\ ToSet(<<x>> \o s) = ToSet(s) \cup {x}
           /\ After(<<x>> \o s, x) = ToSet(s)
           /\ \A e : e # x => After(<<x>> \o s, e) = After(s, e)
<1> DEFINE r == <<x>> \o s
<1>1. /\ r \in Seq(S) /\ Len(r) = Len(s) + 1 /\ Len(s) \in Nat
      /\ r[1] = x
      /\ \A i \in 1..Len(s) : r[i + 1] = s[i]
  OBVIOUS
<1>2. DOMAIN r = 1..Len(r) /\ DOMAIN s = 1..Len(s)
  BY <1>1
<1> HIDE DEF r
<1>3. \A i \in 2..Len(r) : i - 1 \in 1..Len(s) /\ r[i] = s[i - 1]
  BY <1>1
<1>4. ToSet(s) = {s[i] : i \in 1..Len(s)} /\ ToSet(r) = {r[i] : i \in 1..Len(r)}
  BY <1>2 DEF ToSet
<1>5. ToSet(r) = ToSet(s) \cup {x}
  <2>1. ASSUME NEW y \in ToSet(s) PROVE y \in ToSet(r)
    <3>1. PICK i \in 1..Len(s) : y = s[i]
      BY <1>4
    <3>2. i + 1 \in 1..Len(r) /\ r[i + 1] = y
      BY <1>1, <3>1
    <3> QED
      BY <1>4, <3>2
  <2>2. x \in ToSet(r)
    BY <1>1, <1>4
  <2>3. ASSUME NEW y \in ToSet(r) PROVE y \in ToSet(s) \cup {x}
    <3>1. PICK i \in 1..Len(r) : y = r[i]
      BY <1>4
    <3>2. i = 1 \/ i \in 2..Len(r)
      BY <1>1
    <3> QED
      BY <1>1, <1>3, <1>4, <3>1, <3>2
  <2> QED
    BY <2>1, <2>2, <2>3
<1>6. IsInjective(r)
  <2>1. SUFFICES ASSUME NEW i \in 1..Len(r), NEW j \in 1..Len(r), r[i] = r[j]
                 PROVE  i = j
    BY <1>2 DEF IsInjective
  <2>2. (i = 1 \/ i \in 2..Len(r)) /\ (j = 1 \/ j \in 2..Len(r))
    BY <1>1
  <2>3. CASE i = 1 \/ j = 1
    BY <2>1, <2>2, <2>3, <1>1, <1>3, <1>4
  <2>4. CASE i \in 2..Len(r) /\ j \in 2..Len(r)
    <3>1. i - 1 = j - 1
      BY <2>1, <2>4, <1>2, <1>3 DEF IsInjective
    <3> QED
      BY <2>4, <3>1
  <2> QED
    BY <2>2, <2>3, <2>4
<1>7. ASSUME NEW e, NEW y
      PROVE  y \in After(r, e) <=>
               \/ e = x /\ y \in ToSet(s)
               \/ y \in After(s, e)
  <2>1. ASSUME y \in After(r, e)
        PROVE  (e = x /\ y \in ToSet(s)) \/ y \in After(s, e)
    <3>1. PICK j \in 1..Len(r) : y = r[j] /\ \E i \in 1..(j - 1) : r[i] = e
      BY <2>1 DEF After
    <3>2. PICK i \in 1..(j - 1) : r[i] = e
      BY <3>1
    <3>3. j \in 2..Len(r) /\ y = s[j - 1] /\ j - 1 \in 1..Len(s)
      BY <1>1, <1>3, <3>1, <3>2
    <3>4. CASE i = 1
      BY <1>1, <1>4, <3>2, <3>3, <3>4
    <3>5. CASE i # 1
      <4>1. i \in 2..Len(r) /\ i - 1 \in 1..((j - 1) - 1) /\ s[i - 1] = e
        BY <1>1, <1>3, <3>2, <3>5
      <4> QED
        BY <3>3, <4>1 DEF After
    <3> QED
      BY <3>4, <3>5
  <2>2. ASSUME e = x, y \in ToSet(s) PROVE y \in After(r, e)
    <3>1. PICK j \in 1..Len(s) : y = s[j]
      BY <1>4, <2>2
    <3>2. j + 1 \in 1..Len(r) /\ r[j + 1] = y /\ 1 \in 1..((j + 1) - 1)
      BY <1>1, <3>1
    <3> QED
      BY <1>1, <2>2, <3>2 DEF After
  <2>3. ASSUME y \in After(s, e) PROVE y \in After(r, e)
    <3>1. PICK j \in 1..Len(s) : y = s[j] /\ \E i \in 1..(j - 1) : s[i] = e
      BY <2>3 DEF After
    <3>2. PICK i \in 1..(j - 1) : s[i] = e
      BY <3>1
    <3>3. /\ j + 1 \in 1..Len(r) /\ r[j + 1] = y
          /\ i + 1 \in 1..((j + 1) - 1) /\ r[i + 1] = e
      BY <1>1, <3>1, <3>2
    <3> QED
      BY <3>3 DEF After
  <2> QED
    BY <2>1, <2>2, <2>3
<1>8. After(s, x) \subseteq ToSet(s)
  BY <1>4 DEF After
<1>9. After(r, x) = ToSet(s) /\ \A e : e # x => After(r, e) = After(s, e)
  <2>1. After(r, x) = ToSet(s)
    BY <1>7, <1>8
  <2>2. ASSUME NEW e, e # x PROVE After(r, e) = After(s, e)
    <3>1. \A y : y \in After(r, e) <=> y \in After(s, e)
      BY <1>7, <2>2
    <3> QED
      BY <3>1
  <2> QED
    BY <2>1, <2>2
<1> QED
  BY <1>1, <1>5, <1>6, <1>9 DEF r

\* The first entry is taken off.
LEMMA TailKeeps ==
    ASSUME NEW S, NEW s \in Seq(S), IsInjective(s), s # <<>>
    PROVE  /\ Tail(s) \in Seq(S) /\ IsInjective(Tail(s))
           /\ Head(s) \in ToSet(s) /\ ToSet(Tail(s)) = ToSet(s) \ {Head(s)}
<1>1. /\ Len(s) \in Nat /\ Len(s) > 0 /\ Head(s) = s[1]
      /\ Tail(s) \in Seq(S) /\ Len(Tail(s)) = Len(s) - 1
      /\ \A i \in 1..Len(Tail(s)) : Tail(s)[i] = s[i + 1]
  BY HeadTailProperties
<1>2. /\ ToSet(s) = {s[i] : i \in 1..Len(s)}
      /\ ToSet(Tail(s)) = {Tail(s)[i] : i \in 1..Len(Tail(s))}
  BY <1>1, Entries
<1>3. \A i, j \in 1..Len(s) : s[i] = s[j] => i = j
  BY DEF IsInjective
<1>4. IsInjective(Tail(s))
  <2>1. \A i, j \in 1..Len(Tail(s)) : Tail(s)[i] = Tail(s)[j] => i = j
    BY <1>1, <1>3
  <2>2. DOMAIN Tail(s) = 1..Len(Tail(s))
    BY <1>1
  <2>. QED
    BY <2>1, <2>2 DEF IsInjective
<1>5. \A e : e \in ToSet(Tail(s)) => e \in ToSet(s) /\ e # s[1]
  <2>1. ASSUME NEW i \in 1..Len(Tail(s))
        PROVE  Tail(s)[i] \in ToSet(s) /\ Tail(s)[i] # s[1]
    <3>1. i + 1 \in 1..Len(s) /\ 1 \in 1..Len(s) /\ i + 1 # 1
      BY <1>1
    <3>. QED
      BY <1>1, <1>2, <1>3, <3>1
  <2>. QED
    BY <1>2, <2>1
<1>6. \A e \in ToSet(s) : e # s[1] => e \in ToSet(Tail(s))
  <2>1. ASSUME NEW i \in 1..Len(s), i # 1
        PROVE  s[i] \in ToSet(Tail(s))
    <3>1. i - 1 \in 1..Len(Tail(s)) /\ (i - 1) + 1 = i
      BY <1>1, <2>1
    <3>2. Tail(s)[i - 1] = s[i]
      BY <1>1, <3>1
    <3>. QED
      BY <1>2, <3>1, <3>2
  <2>. QED
    BY <1>2, <2>1
<1>7. Head(s) \in ToSet(s)
  BY <1>1, <1>2
<1>. QED
  BY <1>1, <1>4, <1>5, <1>6, <1>7
=============================================================================
