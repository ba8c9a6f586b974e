--------------------------- MODULE LoadingProofs ----------------------------
(***************************************************************************)
(* Reading an input, whatever the order of its tables: the types of what   *)
(* is built, the stores, the check of the connections, and the modes and   *)
(* scenarios that are completed after they were named.                     *)
(***************************************************************************)
EXTENDS LoadingProperties, FiniteSetTheorems, SequenceTheorems, WellFoundedInduction, TLAPS

LEMMA LeastExists ==
  ASSUME NEW S, S \subseteq Nat, S # {}
  PROVE  \E x \in S : \A y \in S : x <= y
<1>1. PICK x \in S : \A y \in S : ~ (<<y, x>> \in OpToRel(<, Nat))
  BY WFMin, NatLessThanWellFounded
<1>2. \A y \in S : ~ (y < x)
  BY <1>1 DEF OpToRel
<1> QED
  BY <1>2

LEMMA SetInduction ==
  ASSUME NEW S, S \subseteq Nat, 0 \in S, \A n \in S : n + 1 \in S
  PROVE  S = Nat
<1>1. SUFFICES ASSUME Nat \ S # {} PROVE FALSE
  OBVIOUS
<1>2. PICK x \in Nat \ S : \A y \in Nat \ S : x <= y
  BY <1>1, LeastExists
<1>3. x - 1 \in Nat /\ x - 1 \in S
  BY <1>2
<1> QED
  BY <1>2, <1>3

LEMMA MinIs ==
  ASSUME NEW S, S \subseteq Nat, S # {}
  PROVE  Min(S) \in S /\ \A y \in S : Min(S) <= y
BY LeastExists DEF Min

-----------------------------------------------------------------------------
(* Sequences of anything.                                                  *)
IsSeq(x) == \E n \in Nat : /\ DOMAIN x = 1 .. n
                           /\ x = [i \in 1 .. n |-> x[i]]

LEMMA SeqLength ==
  ASSUME NEW x, IsSeq(x)
  PROVE  Len(x) \in Nat /\ DOMAIN x = 1 .. Len(x) /\ x \in Seq(Range(x))
<1>1. PICK n \in Nat : DOMAIN x = 1 .. n /\ x = [i \in 1 .. n |-> x[i]]
  BY DEF IsSeq
<1>2. x \in [1 .. n -> Range(x)]
  BY <1>1 DEF Range
<1>3. x \in Seq(Range(x))
  BY <1>2
<1> QED
  BY <1>1, <1>3

LEMMA Appending ==
  ASSUME NEW x, IsSeq(x), NEW e
  PROVE  /\ IsSeq(Append(x, e))
         /\ Len(Append(x, e)) = Len(x) + 1
         /\ DOMAIN Append(x, e) = 1 .. Len(x) + 1
         /\ \A i \in DOMAIN x : Append(x, e)[i] = x[i]
         /\ Append(x, e)[Len(x) + 1] = e
<1> DEFINE S == Range(x) \cup {e}
<1>1. x \in Seq(S)
  <2>1. x \in Seq(Range(x))
    BY SeqLength
  <2> QED
    BY <2>1
<1>2. e \in S
  OBVIOUS
<1> HIDE DEF S
<1>3. Append(x, e) \in Seq(S) /\ Len(Append(x, e)) = Len(x) + 1 /\ Len(x) \in Nat
  BY <1>1, <1>2
<1>4. \A i \in 1 .. Len(x) : Append(x, e)[i] = x[i]
  BY <1>1, <1>2
<1>5. Append(x, e)[Len(x) + 1] = e
  BY <1>1, <1>2
<1>6. IsSeq(Append(x, e))
  <2> DEFINE y == Append(x, e)
  <2>1. y \in Seq(S)
    BY <1>3
  <2> HIDE DEF y
  <2>2. Len(y) \in Nat /\ DOMAIN y = 1 .. Len(y) /\ y \in [1 .. Len(y) -> S]
    BY <2>1
  <2>3. IsSeq(y)
    BY <2>2 DEF IsSeq
  <2> QED
    BY <2>3 DEF y
<1> QED
  BY <1>3, <1>4, <1>5, <1>6, SeqLength

-----------------------------------------------------------------------------
(* Registries: what is registered stays where it is.                       *)
TagsOf(seq) == {seq[i].tag : i \in DOMAIN seq}

Grown(seq, r) ==
  /\ IsSeq(seq) /\ IsSeq(r)
  /\ Len(seq) <= Len(r)
  /\ \A i \in DOMAIN seq : r[i] = seq[i]

LEMMA GrownAgain ==
  ASSUME NEW a, NEW b, NEW c, Grown(a, b), Grown(b, c)
  PROVE  Grown(a, c)
<1>1. DOMAIN a \subseteq DOMAIN b
  BY SeqLength DEF Grown
<1> QED
  BY <1>1, SeqLength DEF Grown

LEMMA IdIs ==
  ASSUME NEW seq, IsSeq(seq), NEW tag \in TagsOf(seq)
  PROVE  /\ IdOf(seq, tag) \in DOMAIN seq
         /\ seq[IdOf(seq, tag)].tag = tag
         /\ \A i \in DOMAIN seq : seq[i].tag = tag => IdOf(seq, tag) <= i
<1>1. Tagged(seq, tag) \subseteq Nat /\ Tagged(seq, tag) # {}
  BY SeqLength DEF Tagged, TagsOf
<1>2. /\ Min(Tagged(seq, tag)) \in Tagged(seq, tag)
      /\ \A i \in Tagged(seq, tag) : Min(Tagged(seq, tag)) <= i
  BY <1>1, MinIs
<1> QED
  BY <1>2 DEF IdOf, Tagged

LEMMA IdIsIts ==
  ASSUME NEW seq, IsSeq(seq), UniqueTags(seq), NEW i \in DOMAIN seq
  PROVE  IdOf(seq, seq[i].tag) = i
<1>1. seq[i].tag \in TagsOf(seq)
  BY DEF TagsOf
<1> QED
  BY <1>1, IdIs DEF UniqueTags

LEMMA TaggedIs ==
  ASSUME NEW seq, NEW tag
  PROVE  Tagged(seq, tag) # {} <=> tag \in TagsOf(seq)
BY DEF Tagged, TagsOf

LEMMA IdStays ==
  ASSUME NEW seq, NEW r, Grown(seq, r), NEW tag \in TagsOf(seq)
  PROVE  /\ tag \in TagsOf(r)
         /\ IdOf(r, tag) = IdOf(seq, tag)
<1>1. /\ IdOf(seq, tag) \in DOMAIN seq
      /\ seq[IdOf(seq, tag)].tag = tag
      /\ \A i \in DOMAIN seq : seq[i].tag = tag => IdOf(seq, tag) <= i
  BY IdIs DEF Grown
<1>2. /\ DOMAIN seq = 1 .. Len(seq) /\ DOMAIN r = 1 .. Len(r)
      /\ Len(seq) \in Nat /\ Len(r) \in Nat
  BY SeqLength DEF Grown
<1>3. /\ IdOf(seq, tag) \in DOMAIN r
      /\ r[IdOf(seq, tag)].tag = tag
  BY <1>1, <1>2 DEF Grown
<1>4. tag \in TagsOf(r)
  BY <1>3 DEF TagsOf
<1>5. /\ IdOf(r, tag) \in DOMAIN r
      /\ r[IdOf(r, tag)].tag = tag
      /\ \A i \in DOMAIN r : r[i].tag = tag => IdOf(r, tag) <= i
  BY <1>4, IdIs DEF Grown
<1>6. IdOf(r, tag) <= IdOf(seq, tag)
  BY <1>3, <1>5
<1>7. IdOf(r, tag) \in DOMAIN seq
  BY <1>1, <1>2, <1>5, <1>6
<1>8. r[IdOf(r, tag)] = seq[IdOf(r, tag)]
  BY <1>7 DEF Grown
<1>9. IdOf(seq, tag) <= IdOf(r, tag)
  BY <1>1, <1>5, <1>7, <1>8
<1> QED
  BY <1>1, <1>2, <1>4, <1>6, <1>7, <1>9

-----------------------------------------------------------------------------
(* What comes of registering the tags of a list's first n records.         *)
TagsAdded(seq, list, n, r) ==
  /\ Grown(seq, r)
  /\ UniqueTags(seq) => UniqueTags(r)
  /\ TagsOf(r) = TagsOf(seq) \cup {list[i].tag : i \in 1 .. n}
  /\ \A i \in DOMAIN r \ DOMAIN seq : \E j \in 1 .. n : r[i] = list[j]

LEMMA AppendsNew ==
  ASSUME NEW seq, IsSeq(seq), NEW record, record.tag \notin TagsOf(seq)
  PROVE  /\ Grown(seq, Append(seq, record))
         /\ UniqueTags(seq) => UniqueTags(Append(seq, record))
         /\ TagsOf(Append(seq, record)) = TagsOf(seq) \cup {record.tag}
         /\ \A i \in DOMAIN Append(seq, record) \ DOMAIN seq : Append(seq, record)[i] = record
<1> DEFINE r == Append(seq, record)
<1>1. /\ IsSeq(r) /\ Len(r) = Len(seq) + 1 /\ DOMAIN r = 1 .. Len(seq) + 1
      /\ \A i \in DOMAIN seq : r[i] = seq[i]
      /\ r[Len(seq) + 1] = record
  BY Appending
<1>2. Len(seq) \in Nat /\ DOMAIN seq = 1 .. Len(seq)
  BY SeqLength
<1> HIDE DEF r
<1>3. Grown(seq, r)
  BY <1>1, <1>2 DEF Grown
<1>4. \A i \in DOMAIN r : i \in DOMAIN seq \/ i = Len(seq) + 1
  BY <1>1, <1>2
<1>5. UniqueTags(seq) => UniqueTags(r)
  BY <1>1, <1>4 DEF UniqueTags, TagsOf
<1>6. TagsOf(r) = TagsOf(seq) \cup {record.tag}
  BY <1>1, <1>2, <1>4 DEF TagsOf
<1> QED
  BY <1>1, <1>3, <1>4, <1>5, <1>6 DEF r

LEMMA RegisteringOne ==
  ASSUME NEW seq, NEW list, NEW n \in Nat, NEW r, TagsAdded(seq, list, n, r)
  PROVE  TagsAdded(seq, list, n + 1, RegisterTag(r, list[n + 1]))
<1> DEFINE record == list[n + 1]
<1>1. {list[i].tag : i \in 1 .. n + 1} = {list[i].tag : i \in 1 .. n} \cup {record.tag}
  OBVIOUS
<1>2. CASE record.tag \in TagsOf(r)
  <2>1. RegisterTag(r, record) = r
    BY <1>2, TaggedIs DEF RegisterTag
  <2> QED
    BY <1>1, <1>2, <2>1 DEF TagsAdded
<1>3. CASE record.tag \notin TagsOf(r)
  <2> DEFINE q == Append(r, record)
  <2>1. RegisterTag(r, record) = q
    BY <1>3, TaggedIs DEF RegisterTag
  <2>2. /\ Grown(r, q)
        /\ UniqueTags(r) => UniqueTags(q)
        /\ TagsOf(q) = TagsOf(r) \cup {record.tag}
        /\ \A i \in DOMAIN q \ DOMAIN r : q[i] = record
    BY <1>3, AppendsNew DEF TagsAdded, Grown
  <2> HIDE DEF q
  <2>3. Grown(seq, q)
    BY <2>2, GrownAgain DEF TagsAdded
  <2>4. \A i \in DOMAIN r : q[i] = r[i]
    BY <2>2 DEF Grown
  <2>5. ASSUME NEW i \in DOMAIN q \ DOMAIN seq PROVE \E j \in 1 .. n + 1 : q[i] = list[j]
    <3>1. CASE i \in DOMAIN r
      BY <2>4, <3>1 DEF TagsAdded
    <3>2. CASE i \notin DOMAIN r
      BY <2>2, <3>2
    <3> QED
      BY <3>1, <3>2
  <2> QED
    BY <1>1, <2>1, <2>2, <2>3, <2>5 DEF TagsAdded
<1> QED
  BY <1>2, <1>3

TagChain(f, seq, list, n) ==
  f = [i \in 0 .. n |-> IF i = 0 THEN seq ELSE RegisterTag(f[i - 1], list[i])]

LEMMA TagChainExists ==
  ASSUME NEW n \in Nat, NEW seq, NEW list
  PROVE  \E f : TagChain(f, seq, list, n)
<1> DEFINE S == {m \in Nat : \E f : TagChain(f, seq, list, m)}
<1>1. 0 \in S
  <2>1. TagChain([i \in 0 .. 0 |-> seq], seq, list, 0)
    BY DEF TagChain
  <2> QED
    BY <2>1
<1>2. ASSUME NEW m \in S PROVE m + 1 \in S
  <2>1. PICK f : TagChain(f, seq, list, m)
    OBVIOUS
  <2> DEFINE g == [i \in 0 .. m + 1 |->
                     IF i = m + 1 THEN RegisterTag(f[m], list[i]) ELSE f[i]]
  <2>2. \A i \in 0 .. m : g[i] = f[i]
    OBVIOUS
  <2>3. g[m + 1] = RegisterTag(f[m], list[m + 1])
    OBVIOUS
  <2>4. ASSUME NEW i \in 0 .. m + 1
        PROVE  g[i] = IF i = 0 THEN seq ELSE RegisterTag(g[i - 1], list[i])
    <3> HIDE DEF g
    <3>1. CASE i = m + 1
      <4>1. i # 0 /\ i - 1 = m /\ m \in 0 .. m
        BY <3>1
      <4>2. g[i - 1] = f[m]
        BY <2>2, <4>1
      <4> QED
        BY <2>3, <3>1, <4>1, <4>2
    <3>2. CASE i \in 0 .. m
      <4>1. f[i] = IF i = 0 THEN seq ELSE RegisterTag(f[i - 1], list[i])
        BY <2>1, <3>2 DEF TagChain
      <4>2. i # 0 => g[i - 1] = f[i - 1]
        BY <2>2, <3>2
      <4> QED
        BY <2>2, <3>2, <4>1, <4>2
    <3> QED
      BY <3>1, <3>2
  <2>5. TagChain(g, seq, list, m + 1)
    <3>1. g = [i \in 0 .. m + 1 |-> g[i]]
      OBVIOUS
    <3> HIDE DEF g
    <3> QED
      BY <2>4, <3>1 DEF TagChain
  <2> HIDE DEF g
  <2> QED
    BY <2>5
<1>3. S = Nat
  <2>1. S \subseteq Nat
    OBVIOUS
  <2> HIDE DEF S
  <2> QED
    BY <1>1, <1>2, <2>1, SetInduction
<1> QED
  BY <1>3

LEMMA RegisteringTags ==
  ASSUME NEW seq, IsSeq(seq), NEW list, IsSeq(list)
  PROVE  TagsAdded(seq, list, Len(list), RegisterTags(seq, list))
<1> DEFINE n == Len(list)
           known == CHOOSE f : TagChain(f, seq, list, n)
<1>1. n \in Nat
  BY SeqLength
<1>2. TagChain(known, seq, list, n)
  BY <1>1, TagChainExists
<1>3. RegisterTags(seq, list) = known[n]
  BY DEF RegisterTags, TagChain
<1> HIDE DEF known, n
<1> DEFINE S == {m \in Nat : m <= n => TagsAdded(seq, list, m, known[m])}
<1>4. 0 \in S
  <2>1. known[0] = seq
    BY <1>1, <1>2 DEF TagChain
  <2>2. TagsAdded(seq, list, 0, seq)
    BY DEF TagsAdded, Grown
  <2> QED
    BY <2>1, <2>2
<1>5. ASSUME NEW m \in S PROVE m + 1 \in S
  <2>1. SUFFICES ASSUME m + 1 <= n PROVE TagsAdded(seq, list, m + 1, known[m + 1])
    OBVIOUS
  <2>2. known[m + 1] = RegisterTag(known[m], list[m + 1])
    BY <1>1, <1>2, <2>1 DEF TagChain
  <2>3. TagsAdded(seq, list, m, known[m])
    BY <1>1, <2>1
  <2> QED
    BY <2>2, <2>3, RegisteringOne
<1>6. S = Nat
  <2>1. S \subseteq Nat
    OBVIOUS
  <2> HIDE DEF S
  <2> QED
    BY <1>4, <1>5, <2>1, SetInduction
<1> QED
  BY <1>1, <1>3, <1>6 DEF n

-----------------------------------------------------------------------------
(* The same for names.                                                     *)
LEMMA ContainsIs ==
  ASSUME NEW seq, IsSeq(seq), NEW name
  PROVE  Contains(seq, name) <=> name \in Range(seq)
<1>1. DOMAIN seq = 1 .. Len(seq)
  BY SeqLength
<1> QED
  BY <1>1 DEF Contains, Range

LEMMA NameIs ==
  ASSUME NEW seq, IsSeq(seq), NEW name \in Range(seq)
  PROVE  /\ IdOfName(seq, name) \in DOMAIN seq
         /\ seq[IdOfName(seq, name)] = name
         /\ \A i \in DOMAIN seq : seq[i] = name => IdOfName(seq, name) <= i
<1> DEFINE S == {i \in DOMAIN seq : seq[i] = name}
<1>1. S \subseteq Nat /\ S # {}
  BY SeqLength DEF Range
<1>2. Min(S) \in S /\ \A i \in S : Min(S) <= i
  <2> HIDE DEF S
  <2> QED
    BY <1>1, MinIs
<1> QED
  BY <1>2 DEF IdOfName

LEMMA NameStays ==
  ASSUME NEW seq, NEW r, Grown(seq, r), NEW name \in Range(seq)
  PROVE  /\ name \in Range(r)
         /\ IdOfName(r, name) = IdOfName(seq, name)
<1>1. /\ IdOfName(seq, name) \in DOMAIN seq
      /\ seq[IdOfName(seq, name)] = name
      /\ \A i \in DOMAIN seq : seq[i] = name => IdOfName(seq, name) <= i
  BY NameIs DEF Grown
<1>2. /\ DOMAIN seq = 1 .. Len(seq) /\ DOMAIN r = 1 .. Len(r)
      /\ Len(seq) \in Nat /\ Len(r) \in Nat
  BY SeqLength DEF Grown
<1>3. /\ IdOfName(seq, name) \in DOMAIN r
      /\ r[IdOfName(seq, name)] = name
  BY <1>1, <1>2 DEF Grown
<1>4. name \in Range(r)
  BY <1>3 DEF Range
<1>5. /\ IdOfName(r, name) \in DOMAIN r
      /\ r[IdOfName(r, name)] = name
      /\ \A i \in DOMAIN r : r[i] = name => IdOfName(r, name) <= i
  BY <1>4, NameIs DEF Grown
<1>6. IdOfName(r, name) <= IdOfName(seq, name)
  BY <1>3, <1>5
<1>7. IdOfName(r, name) \in DOMAIN seq
  BY <1>1, <1>2, <1>5, <1>6
<1>8. r[IdOfName(r, name)] = seq[IdOfName(r, name)]
  BY <1>7 DEF Grown
<1>9. IdOfName(seq, name) <= IdOfName(r, name)
  BY <1>1, <1>5, <1>7, <1>8
<1> QED
  BY <1>1, <1>2, <1>4, <1>6, <1>7, <1>9

NamesAdded(seq, list, n, r) ==
  /\ Grown(seq, r)
  /\ Range(r) = Range(seq) \cup {list[i] : i \in 1 .. n}

LEMMA NamingOne ==
  ASSUME NEW seq, IsSeq(seq), NEW name
  PROVE  /\ Grown(seq, RegisterName(seq, name))
         /\ Range(RegisterName(seq, name)) = Range(seq) \cup {name}
<1>1. CASE name \in Range(seq)
  <2>1. RegisterName(seq, name) = seq
    BY <1>1, ContainsIs DEF RegisterName
  <2> QED
    BY <1>1, <2>1 DEF Grown
<1>2. CASE name \notin Range(seq)
  <2> DEFINE q == Append(seq, name)
  <2>1. RegisterName(seq, name) = q
    BY <1>2, ContainsIs DEF RegisterName
  <2>2. /\ IsSeq(q) /\ Len(q) = Len(seq) + 1 /\ DOMAIN q = 1 .. Len(seq) + 1
        /\ \A i \in DOMAIN seq : q[i] = seq[i]
        /\ q[Len(seq) + 1] = name
    BY Appending
  <2>3. Len(seq) \in Nat /\ DOMAIN seq = 1 .. Len(seq)
    BY SeqLength
  <2> HIDE DEF q
  <2>4. \A i \in DOMAIN q : i \in DOMAIN seq \/ i = Len(seq) + 1
    BY <2>2, <2>3
  <2>5. Grown(seq, q)
    BY <2>2, <2>3 DEF Grown
  <2>6. Range(q) = Range(seq) \cup {name}
    BY <2>2, <2>3, <2>4 DEF Range
  <2> QED
    BY <2>1, <2>5, <2>6
<1> QED
  BY <1>1, <1>2

NameChain(f, seq, list, n) ==
  f = [i \in 0 .. n |-> IF i = 0 THEN seq ELSE RegisterName(f[i - 1], list[i])]

LEMMA NameChainExists ==
  ASSUME NEW n \in Nat, NEW seq, NEW list
  PROVE  \E f : NameChain(f, seq, list, n)
<1> DEFINE S == {m \in Nat : \E f : NameChain(f, seq, list, m)}
<1>1. 0 \in S
  <2>1. NameChain([i \in 0 .. 0 |-> seq], seq, list, 0)
    BY DEF NameChain
  <2> QED
    BY <2>1
<1>2. ASSUME NEW m \in S PROVE m + 1 \in S
  <2>1. PICK f : NameChain(f, seq, list, m)
    OBVIOUS
  <2> DEFINE g == [i \in 0 .. m + 1 |->
                     IF i = m + 1 THEN RegisterName(f[m], list[i]) ELSE f[i]]
  <2>2. \A i \in 0 .. m : g[i] = f[i]
    OBVIOUS
  <2>3. g[m + 1] = RegisterName(f[m], list[m + 1])
    OBVIOUS
  <2>4. ASSUME NEW i \in 0 .. m + 1
        PROVE  g[i] = IF i = 0 THEN seq ELSE RegisterName(g[i - 1], list[i])
    <3> HIDE DEF g
    <3>1. CASE i = m + 1
      <4>1. i # 0 /\ i - 1 = m /\ m \in 0 .. m
        BY <3>1
      <4>2. g[i - 1] = f[m]
        BY <2>2, <4>1
      <4> QED
        BY <2>3, <3>1, <4>1, <4>2
    <3>2. CASE i \in 0 .. m
      <4>1. f[i] = IF i = 0 THEN seq ELSE RegisterName(f[i - 1], list[i])
        BY <2>1, <3>2 DEF NameChain
      <4>2. i # 0 => g[i - 1] = f[i - 1]
        BY <2>2, <3>2
      <4> QED
        BY <2>2, <3>2, <4>1, <4>2
    <3> QED
      BY <3>1, <3>2
  <2>5. NameChain(g, seq, list, m + 1)
    <3>1. g = [i \in 0 .. m + 1 |-> g[i]]
      OBVIOUS
    <3> HIDE DEF g
    <3> QED
      BY <2>4, <3>1 DEF NameChain
  <2> HIDE DEF g
  <2> QED
    BY <2>5
<1>3. S = Nat
  <2>1. S \subseteq Nat
    OBVIOUS
  <2> HIDE DEF S
  <2> QED
    BY <1>1, <1>2, <2>1, SetInduction
<1> QED
  BY <1>3

LEMMA RegisteringNames ==
  ASSUME NEW seq, IsSeq(seq), NEW list, IsSeq(list)
  PROVE  /\ Grown(seq, RegisterNames(seq, list))
         /\ Range(RegisterNames(seq, list)) = Range(seq) \cup Range(list)
<1> DEFINE n == Len(list)
           known == CHOOSE f : NameChain(f, seq, list, n)
<1>1. n \in Nat /\ DOMAIN list = 1 .. n
  BY SeqLength
<1>2. NameChain(known, seq, list, n)
  BY <1>1, NameChainExists
<1>3. RegisterNames(seq, list) = known[n]
  BY DEF RegisterNames, NameChain
<1>4. Range(list) = {list[i] : i \in 1 .. n}
  BY <1>1 DEF Range
<1> HIDE DEF known, n
<1> DEFINE S == {m \in Nat : m <= n => NamesAdded(seq, list, m, known[m])}
<1>5. 0 \in S
  <2>1. known[0] = seq
    BY <1>1, <1>2 DEF NameChain
  <2>2. NamesAdded(seq, list, 0, seq)
    BY DEF NamesAdded, Grown
  <2> QED
    BY <2>1, <2>2
<1>6. ASSUME NEW m \in S PROVE m + 1 \in S
  <2>1. SUFFICES ASSUME m + 1 <= n PROVE NamesAdded(seq, list, m + 1, known[m + 1])
    OBVIOUS
  <2>2. known[m + 1] = RegisterName(known[m], list[m + 1])
    BY <1>1, <1>2, <2>1 DEF NameChain
  <2>3. NamesAdded(seq, list, m, known[m])
    BY <1>1, <2>1
  <2>4. /\ Grown(known[m], known[m + 1])
        /\ Range(known[m + 1]) = Range(known[m]) \cup {list[m + 1]}
    BY <2>2, <2>3, NamingOne DEF NamesAdded, Grown
  <2>5. {list[i] : i \in 1 .. m + 1} = {list[i] : i \in 1 .. m} \cup {list[m + 1]}
    OBVIOUS
  <2>6. Grown(seq, known[m + 1])
    BY <2>3, <2>4, GrownAgain DEF NamesAdded
  <2> QED
    BY <2>3, <2>4, <2>5, <2>6 DEF NamesAdded
<1>7. S = Nat
  <2>1. S \subseteq Nat
    OBVIOUS
  <2> HIDE DEF S
  <2> QED
    BY <1>5, <1>6, <2>1, SetInduction
<1>8. NamesAdded(seq, list, n, known[n])
  BY <1>1, <1>7
<1> QED
  BY <1>3, <1>4, <1>8 DEF NamesAdded

(* The flows of a component get ids.                                       *)
LEMMA RegisteringFlow ==
  ASSUME NEW flows, IsSeq(flows), NEW f, NEW field
  PROVE  /\ Grown(flows, RegisterFlow(flows, f, field))
         /\ Range(RegisterFlow(flows, f, field))
              = Range(flows) \cup (IF field \in DOMAIN f THEN {f[field]} ELSE {})
BY NamingOne DEF RegisterFlow, Grown

LEMMA RegisteringFlows ==
  ASSUME NEW flows, IsSeq(flows), NEW f
  PROVE  /\ Grown(flows, RegisterFlows(flows, f))
         /\ Range(RegisterFlows(flows, f)) = Range(flows)
              \cup {f[field] : field \in {"outflow", "inflow", "flow", "lossflow"} \cap DOMAIN f}
<1> DEFINE a == RegisterFlow(flows, f, "outflow")
           b == RegisterFlow(a, f, "inflow")
           c == RegisterFlow(b, f, "flow")
           d == RegisterFlow(c, f, "lossflow")
           One(field) == IF field \in DOMAIN f THEN {f[field]} ELSE {}
<1>1. Grown(flows, a) /\ Range(a) = Range(flows) \cup One("outflow")
  BY RegisteringFlow
<1>2. Grown(a, b) /\ Range(b) = Range(a) \cup One("inflow")
  BY <1>1, RegisteringFlow DEF Grown
<1>3. Grown(b, c) /\ Range(c) = Range(b) \cup One("flow")
  BY <1>2, RegisteringFlow DEF Grown
<1>4. Grown(c, d) /\ Range(d) = Range(c) \cup One("lossflow")
  BY <1>3, RegisteringFlow DEF Grown
<1>5. RegisterFlows(flows, f) = d
  BY DEF RegisterFlows
<1>6. {f[field] : field \in {"outflow", "inflow", "flow", "lossflow"} \cap DOMAIN f}
        = One("outflow") \cup One("inflow") \cup One("flow") \cup One("lossflow")
  OBVIOUS
<1> HIDE DEF a, b, c, d, One
<1>7. Grown(flows, d)
  BY <1>1, <1>2, <1>3, <1>4, GrownAgain
<1> QED
  BY <1>1, <1>2, <1>3, <1>4, <1>5, <1>6, <1>7

-----------------------------------------------------------------------------
(* Models: what their parts are made of, ...                               *)
PartShape(part) ==
  /\ part = [param |-> part.param, conn |-> part.conn]
  /\ part.conn = [x \in DOMAIN part.conn |-> part.conn[x]]

CompShape(comp) ==
  /\ comp = [kind |-> comp.kind, idx |-> comp.idx, inflows |-> comp.inflows,
             outflows |-> comp.outflows, tag |-> comp.tag, age |-> comp.age,
             report |-> comp.report]
  /\ IsSeq(comp.inflows) /\ IsSeq(comp.outflows)

ModelShape(m) ==
  /\ m = [comps |-> m.comps, parts |-> m.parts, conns |-> m.conns, group |-> m.group]
  /\ IsSeq(m.comps) /\ IsSeq(m.conns)
  /\ \A id \in DOMAIN m.comps : CompShape(m.comps[id])
  /\ m.parts = [kind \in WithPart |-> m.parts[kind]]
  /\ \A kind \in WithPart : IsSeq(m.parts[kind])
  /\ \A kind \in WithPart : \A i \in DOMAIN m.parts[kind] : PartShape(m.parts[kind][i])
  /\ m.group = [id \in DOMAIN m.group |-> m.group[id]]
  /\ DOMAIN m.group \subseteq DOMAIN m.comps

(* ... and that every component has its own, except that movers share one. *)
Placed(m) ==
  /\ \A id \in DOMAIN m.comps :
       LET comp == m.comps[id]
       IN  /\ comp.kind \in WithPart \cup Boundary
           /\ comp.kind \in WithPart =>
                /\ comp.idx \in DOMAIN m.parts[comp.kind]
                /\ DOMAIN m.parts[comp.kind][comp.idx].conn
                     = Slots(comp.kind, comp.inflows, comp.outflows)
  /\ \A i, j \in DOMAIN m.comps :
       /\ m.comps[i].kind = m.comps[j].kind
       /\ m.comps[i].kind \in WithPart \ Movers
       /\ m.comps[i].idx = m.comps[j].idx
       => i = j

(* A mover has one slot for what it moves and one for the environment, on  *)
(* either side.                                                            *)
MoverSlots == {In(0), In(1), Out(0), Out(1)}

MoversAlike(m) ==
  \A kind \in Movers : \A i \in DOMAIN m.parts[kind] :
    DOMAIN m.parts[kind][i].conn = MoverSlots

(* The slots of a part hold ids of connections, or what they began with.   *)
SlotsHold(m) ==
  \A kind \in WithPart : \A i \in DOMAIN m.parts[kind] :
    LET conn == m.parts[kind][i].conn
    IN  \A x \in DOMAIN conn :
          /\ conn[x] \in {None, First} \cup DOMAIN m.conns
          /\ conn[x] = None => x \in OptionalSlots(kind)

ModelInv(m) == ModelShape(m) /\ Placed(m) /\ MoversAlike(m) /\ SlotsHold(m)

(* What stays of the parts of a model.                                     *)
PartsStay(m, r) ==
  \A kind \in WithPart :
    /\ Len(m.parts[kind]) <= Len(r.parts[kind])
    /\ \A i \in DOMAIN m.parts[kind] :
         /\ r.parts[kind][i].param = m.parts[kind][i].param
         /\ DOMAIN r.parts[kind][i].conn = DOMAIN m.parts[kind][i].conn

MadeOf(m, r) ==
  /\ Grown(m.comps, r.comps)
  /\ Grown(m.conns, r.conns)
  /\ r.group = m.group
  /\ PartsStay(m, r)

LEMMA MadeOfAgain ==
  ASSUME NEW a, NEW b, NEW c, ModelShape(a), ModelShape(b), ModelShape(c),
         MadeOf(a, b), MadeOf(b, c)
  PROVE  MadeOf(a, c)
<1>1. Grown(a.comps, c.comps) /\ Grown(a.conns, c.conns)
  BY GrownAgain DEF MadeOf
<1>2. ASSUME NEW kind \in WithPart
      PROVE  /\ Len(a.parts[kind]) <= Len(c.parts[kind])
             /\ \A i \in DOMAIN a.parts[kind] :
                  /\ c.parts[kind][i].param = a.parts[kind][i].param
                  /\ DOMAIN c.parts[kind][i].conn = DOMAIN a.parts[kind][i].conn
  <2>1. IsSeq(a.parts[kind]) /\ IsSeq(b.parts[kind]) /\ IsSeq(c.parts[kind])
    BY DEF ModelShape
  <2>2. /\ Len(a.parts[kind]) \in Nat /\ DOMAIN a.parts[kind] = 1 .. Len(a.parts[kind])
        /\ Len(b.parts[kind]) \in Nat /\ DOMAIN b.parts[kind] = 1 .. Len(b.parts[kind])
        /\ Len(c.parts[kind]) \in Nat /\ DOMAIN c.parts[kind] = 1 .. Len(c.parts[kind])
    BY <2>1, SeqLength
  <2>3. DOMAIN a.parts[kind] \subseteq DOMAIN b.parts[kind]
    BY <2>2 DEF MadeOf, PartsStay
  <2>4. /\ Len(a.parts[kind]) <= Len(b.parts[kind])
        /\ Len(b.parts[kind]) <= Len(c.parts[kind])
    BY DEF MadeOf, PartsStay
  <2>5. Len(a.parts[kind]) <= Len(c.parts[kind])
    BY <2>2, <2>4
  <2>6. ASSUME NEW i \in DOMAIN a.parts[kind]
        PROVE  /\ c.parts[kind][i].param = a.parts[kind][i].param
               /\ DOMAIN c.parts[kind][i].conn = DOMAIN a.parts[kind][i].conn
    <3>1. /\ b.parts[kind][i].param = a.parts[kind][i].param
          /\ DOMAIN b.parts[kind][i].conn = DOMAIN a.parts[kind][i].conn
      BY DEF MadeOf, PartsStay
    <3>2. i \in DOMAIN b.parts[kind]
      BY <2>3
    <3>3. /\ c.parts[kind][i].param = b.parts[kind][i].param
          /\ DOMAIN c.parts[kind][i].conn = DOMAIN b.parts[kind][i].conn
      BY <3>2 DEF MadeOf, PartsStay
    <3> QED
      BY <3>1, <3>3
  <2> QED
    BY <2>5, <2>6
<1> QED
  BY <1>1, <1>2 DEF MadeOf, PartsStay

-----------------------------------------------------------------------------
(* A component of the boundary.                                            *)
LEMMA AddingBoundary ==
  ASSUME NEW m, ModelInv(m), NEW kind \in Boundary, NEW inflows, IsSeq(inflows),
         NEW outflows, IsSeq(outflows), NEW tag
  PROVE  LET r == AddComponent(m, kind, First, inflows, outflows, tag)
         IN  /\ ModelInv(r) /\ MadeOf(m, r)
             /\ LastId(r) = LastId(m) + 1 /\ r.conns = m.conns /\ r.parts = m.parts
             /\ r.comps[LastId(r)] =
                  [kind |-> kind, idx |-> First, inflows |-> inflows, outflows |-> outflows,
                   tag |-> tag, age |-> 0, report |-> TRUE]
<1> DEFINE comp == [kind |-> kind, idx |-> First, inflows |-> inflows, outflows |-> outflows,
                    tag |-> tag, age |-> 0, report |-> TRUE]
           r    == AddComponent(m, kind, First, inflows, outflows, tag)
<1>1. r = [comps |-> Append(m.comps, comp), parts |-> m.parts, conns |-> m.conns, group |-> m.group]
  <2>1. m = [comps |-> m.comps, parts |-> m.parts, conns |-> m.conns, group |-> m.group]
    BY DEF ModelInv, ModelShape
  <2>2. r = [m EXCEPT !.comps = Append(@, comp)]
    BY DEF AddComponent
  <2> HIDE DEF comp, r
  <2> QED
    BY <2>1, <2>2
<1>2. CompShape(comp)
  BY DEF CompShape
<1>3. comp.kind = kind
  OBVIOUS
<1> HIDE DEF comp
<1>4. /\ IsSeq(r.comps) /\ Len(r.comps) = Len(m.comps) + 1 /\ DOMAIN r.comps = 1 .. Len(m.comps) + 1
      /\ \A i \in DOMAIN m.comps : r.comps[i] = m.comps[i]
      /\ r.comps[Len(m.comps) + 1] = comp
  BY <1>1, Appending DEF ModelInv, ModelShape
<1>5. Len(m.comps) \in Nat /\ DOMAIN m.comps = 1 .. Len(m.comps)
  BY SeqLength DEF ModelInv, ModelShape
<1>6. /\ r = [comps |-> r.comps, parts |-> r.parts, conns |-> r.conns, group |-> r.group]
      /\ r.parts = m.parts /\ r.conns = m.conns /\ r.group = m.group
  BY <1>1
<1> HIDE DEF r
<1>7. \A i \in DOMAIN r.comps : i \in DOMAIN m.comps \/ r.comps[i] = comp
  BY <1>4, <1>5
<1>8. DOMAIN m.comps \subseteq DOMAIN r.comps
  BY <1>4, <1>5
<1>9. ModelShape(r)
  BY <1>2, <1>4, <1>6, <1>7, <1>8 DEF ModelInv, ModelShape
<1>10. Placed(r)
  <2>1. kind \notin WithPart
    BY DEF Boundary, WithPart, Converters, Movers
  <2> QED
    BY <1>3, <1>4, <1>6, <1>7, <1>8, <2>1 DEF ModelInv, Placed
<1>11. SlotsHold(r) /\ MoversAlike(r)
  BY <1>6 DEF ModelInv, SlotsHold, MoversAlike
<1>12. MadeOf(m, r)
  <2>1. IsSeq(m.comps) /\ IsSeq(m.conns)
    BY DEF ModelInv, ModelShape
  <2>2. Grown(m.comps, r.comps)
    BY <1>4, <1>5, <2>1 DEF Grown
  <2>3. Grown(m.conns, r.conns)
    BY <1>6, <2>1, SeqLength DEF Grown
  <2>4. \A k \in WithPart : Len(m.parts[k]) \in Nat
    BY SeqLength DEF ModelInv, ModelShape
  <2>5. PartsStay(m, r)
    BY <1>6, <2>4 DEF PartsStay
  <2> QED
    BY <1>6, <2>2, <2>3, <2>5 DEF MadeOf
<1> QED
  BY <1>4, <1>6, <1>9, <1>10, <1>11, <1>12 DEF ModelInv, LastId, r, comp

(* A component with parameters and slots.                                  *)
NewPart(kind, inflows, outflows, param) ==
  [param |-> param,
   conn  |-> [slot \in Slots(kind, inflows, outflows) |->
                IF slot \in OptionalSlots(kind) THEN None ELSE First]]

LEMMA AddingPart ==
  ASSUME NEW m, ModelInv(m), NEW kind \in WithPart, NEW inflows, IsSeq(inflows),
         NEW outflows, IsSeq(outflows), NEW tag, NEW param,
         kind \in Movers => Slots(kind, inflows, outflows) = MoverSlots
  PROVE  LET r == AddPart(m, kind, inflows, outflows, tag, param)
         IN  /\ ModelInv(r) /\ MadeOf(m, r)
             /\ LastId(r) = LastId(m) + 1 /\ r.conns = m.conns
             /\ r.comps[LastId(r)] =
                  [kind |-> kind, idx |-> IndexIn(m, kind), inflows |-> inflows,
                   outflows |-> outflows, tag |-> tag, age |-> 0, report |-> TRUE]
             /\ \A k \in WithPart : r.parts[k] =
                  IF k = kind THEN Append(m.parts[k], NewPart(kind, inflows, outflows, param))
                  ELSE m.parts[k]
<1> DEFINE comp == [kind |-> kind, idx |-> IndexIn(m, kind), inflows |-> inflows,
                    outflows |-> outflows, tag |-> tag, age |-> 0, report |-> TRUE]
           part == NewPart(kind, inflows, outflows, param)
           r    == AddPart(m, kind, inflows, outflows, tag, param)
<1>1. r = [comps |-> Append(m.comps, comp),
           parts |-> [m.parts EXCEPT ![kind] = Append(@, part)],
           conns |-> m.conns, group |-> m.group]
  <2>1. m = [comps |-> m.comps, parts |-> m.parts, conns |-> m.conns, group |-> m.group]
    BY DEF ModelInv, ModelShape
  <2> DEFINE q == [m EXCEPT !.parts[kind] = Append(@, part)]
  <2>2. q = [comps |-> m.comps, parts |-> [m.parts EXCEPT ![kind] = Append(@, part)],
             conns |-> m.conns, group |-> m.group]
    <3> HIDE DEF part
    <3> QED
      BY <2>1
  <2>3. r = [q EXCEPT !.comps = Append(@, comp)]
    BY DEF AddComponent, AddPart, NewPart
  <2> HIDE DEF comp, r, q
  <2> QED
    BY <2>2, <2>3
<1>2. CompShape(comp)
  BY DEF CompShape
<1>3. /\ comp.kind = kind /\ comp.idx = IndexIn(m, kind)
      /\ comp.inflows = inflows /\ comp.outflows = outflows
  OBVIOUS
<1>4. /\ PartShape(part)
      /\ part.param = param
      /\ DOMAIN part.conn = Slots(kind, inflows, outflows)
      /\ \A x \in DOMAIN part.conn :
           part.conn[x] = IF x \in OptionalSlots(kind) THEN None ELSE First
  BY DEF NewPart, PartShape
<1>5. /\ m.parts = [k \in WithPart |-> m.parts[k]]
      /\ \A k \in WithPart : IsSeq(m.parts[k])
  BY DEF ModelInv, ModelShape
<1> HIDE DEF comp, part
<1>6. /\ IsSeq(r.comps) /\ Len(r.comps) = Len(m.comps) + 1 /\ DOMAIN r.comps = 1 .. Len(m.comps) + 1
      /\ \A i \in DOMAIN m.comps : r.comps[i] = m.comps[i]
      /\ r.comps[Len(m.comps) + 1] = comp
  BY <1>1, Appending DEF ModelInv, ModelShape
<1>7. Len(m.comps) \in Nat /\ DOMAIN m.comps = 1 .. Len(m.comps)
  BY SeqLength DEF ModelInv, ModelShape
<1>8. /\ r = [comps |-> r.comps, parts |-> r.parts, conns |-> r.conns, group |-> r.group]
      /\ r.conns = m.conns /\ r.group = m.group
      /\ r.parts = [m.parts EXCEPT ![kind] = Append(@, part)]
  BY <1>1
<1> HIDE DEF r
<1>9. /\ r.parts = [k \in WithPart |-> r.parts[k]]
      /\ \A k \in WithPart : r.parts[k] = IF k = kind THEN Append(m.parts[k], part) ELSE m.parts[k]
  BY <1>5, <1>8
<1>10. LET n == Len(m.parts[kind]) IN
       /\ n \in Nat /\ DOMAIN m.parts[kind] = 1 .. n
       /\ IsSeq(r.parts[kind]) /\ Len(r.parts[kind]) = n + 1 /\ DOMAIN r.parts[kind] = 1 .. n + 1
       /\ \A i \in DOMAIN m.parts[kind] : r.parts[kind][i] = m.parts[kind][i]
       /\ r.parts[kind][n + 1] = part
  <2>1. r.parts[kind] = Append(m.parts[kind], part)
    BY <1>9
  <2> QED
    BY <1>5, <2>1, Appending, SeqLength
<1>11. \A k \in WithPart : \A i \in DOMAIN r.parts[k] :
         \/ i \in DOMAIN m.parts[k] /\ r.parts[k][i] = m.parts[k][i]
         \/ k = kind /\ i = Len(m.parts[kind]) + 1 /\ r.parts[k][i] = part
  BY <1>9, <1>10
<1>12. \A k \in WithPart : \A i \in DOMAIN m.parts[k] :
         i \in DOMAIN r.parts[k] /\ r.parts[k][i] = m.parts[k][i]
  BY <1>9, <1>10
<1>13. \A i \in DOMAIN r.comps : i \in DOMAIN m.comps \/ (i = Len(m.comps) + 1 /\ r.comps[i] = comp)
  BY <1>6, <1>7
<1>14. DOMAIN m.comps \subseteq DOMAIN r.comps
  BY <1>6, <1>7
<1>15. ModelShape(r)
  <2>1. \A k \in WithPart : IsSeq(r.parts[k])
    BY <1>5, <1>9, <1>10
  <2>2. \A k \in WithPart : \A i \in DOMAIN r.parts[k] : PartShape(r.parts[k][i])
    BY <1>4, <1>11 DEF ModelInv, ModelShape
  <2>3. \A id \in DOMAIN r.comps : CompShape(r.comps[id])
    BY <1>2, <1>6, <1>13 DEF ModelInv, ModelShape
  <2>4. IsSeq(r.conns) /\ r.group = [id \in DOMAIN r.group |-> r.group[id]]
    BY <1>8 DEF ModelInv, ModelShape
  <2>5. DOMAIN r.group \subseteq DOMAIN r.comps
    BY <1>8, <1>14 DEF ModelInv, ModelShape
  <2> QED
    BY <1>6, <1>8, <1>9, <2>1, <2>2, <2>3, <2>4, <2>5 DEF ModelShape
<1>16. /\ comp.idx \in DOMAIN r.parts[kind]
       /\ DOMAIN r.parts[kind][comp.idx].conn = Slots(kind, inflows, outflows)
  <2>1. CASE kind \in Movers
    <3>1. comp.idx = 1
      BY <1>3, <2>1 DEF IndexIn
    <3>2. 1 \in DOMAIN r.parts[kind]
      BY <1>10
    <3>3. DOMAIN r.parts[kind][1].conn = MoverSlots
      BY <1>4, <1>11, <2>1, <3>2 DEF ModelInv, MoversAlike
    <3> QED
      BY <2>1, <3>1, <3>2, <3>3
  <2>2. CASE kind \notin Movers
    BY <1>3, <1>4, <1>10, <2>2 DEF IndexIn
  <2> QED
    BY <2>1, <2>2
<1>17. Placed(r)
  <2>1. ASSUME NEW id \in DOMAIN r.comps
        PROVE  /\ r.comps[id].kind \in WithPart \cup Boundary
               /\ r.comps[id].kind \in WithPart =>
                    /\ r.comps[id].idx \in DOMAIN r.parts[r.comps[id].kind]
                    /\ DOMAIN r.parts[r.comps[id].kind][r.comps[id].idx].conn
                         = Slots(r.comps[id].kind, r.comps[id].inflows, r.comps[id].outflows)
    <3>1. CASE id \in DOMAIN m.comps
      <4>1. r.comps[id] = m.comps[id]
        BY <1>6, <3>1
      <4>2. /\ m.comps[id].kind \in WithPart \cup Boundary
            /\ m.comps[id].kind \in WithPart =>
                 /\ m.comps[id].idx \in DOMAIN m.parts[m.comps[id].kind]
                 /\ DOMAIN m.parts[m.comps[id].kind][m.comps[id].idx].conn
                      = Slots(m.comps[id].kind, m.comps[id].inflows, m.comps[id].outflows)
        BY <3>1 DEF ModelInv, Placed
      <4> QED
        BY <1>12, <4>1, <4>2
    <3>2. CASE r.comps[id] = comp
      BY <1>3, <1>16, <3>2
    <3> QED
      BY <1>13, <3>1, <3>2
  <2>2. ASSUME NEW i \in DOMAIN r.comps, NEW j \in DOMAIN r.comps,
               r.comps[i].kind = r.comps[j].kind,
               r.comps[i].kind \in WithPart \ Movers, r.comps[i].idx = r.comps[j].idx
        PROVE  i = j
    <3>1. \A k \in DOMAIN m.comps : m.comps[k].kind = kind /\ kind \notin Movers
            => m.comps[k].idx # comp.idx
      <4> TAKE k \in DOMAIN m.comps
      <4> HAVE m.comps[k].kind = kind /\ kind \notin Movers
      <4>1. m.comps[k].idx \in DOMAIN m.parts[kind]
        BY DEF ModelInv, Placed
      <4>2. comp.idx = Len(m.parts[kind]) + 1
        BY <1>3 DEF IndexIn
      <4> QED
        BY <1>10, <4>1, <4>2
    <3>2. CASE i \in DOMAIN m.comps /\ j \in DOMAIN m.comps
      <4>1. r.comps[i] = m.comps[i] /\ r.comps[j] = m.comps[j]
        BY <1>6, <3>2
      <4> QED
        BY <2>2, <3>2, <4>1 DEF ModelInv, Placed
    <3>3. CASE i \notin DOMAIN m.comps /\ j \notin DOMAIN m.comps
      BY <1>13, <3>3
    <3>4. CASE i \in DOMAIN m.comps /\ j \notin DOMAIN m.comps
      <4>1. r.comps[i] = m.comps[i] /\ r.comps[j] = comp
        BY <1>6, <1>13, <3>4
      <4> QED
        BY <1>3, <2>2, <3>1, <3>4, <4>1
    <3>5. CASE i \notin DOMAIN m.comps /\ j \in DOMAIN m.comps
      <4>1. r.comps[j] = m.comps[j] /\ r.comps[i] = comp
        BY <1>6, <1>13, <3>5
      <4> QED
        BY <1>3, <2>2, <3>1, <3>5, <4>1
    <3> QED
      BY <3>2, <3>3, <3>4, <3>5
  <2> QED
    BY <2>1, <2>2 DEF Placed
<1>18. MoversAlike(r)
  <2>1. \A k \in Movers : k \in WithPart
    BY DEF WithPart
  <2> QED
    BY <1>4, <1>11, <2>1 DEF ModelInv, MoversAlike
<1>19. SlotsHold(r)
  <2> SUFFICES ASSUME NEW k \in WithPart, NEW i \in DOMAIN r.parts[k],
                      NEW x \in DOMAIN r.parts[k][i].conn
               PROVE  /\ r.parts[k][i].conn[x] \in {None, First} \cup DOMAIN r.conns
                      /\ r.parts[k][i].conn[x] = None => x \in OptionalSlots(k)
    BY DEF SlotsHold
  <2>1. CASE i \in DOMAIN m.parts[k] /\ r.parts[k][i] = m.parts[k][i]
    BY <1>8, <2>1 DEF ModelInv, SlotsHold
  <2>2. CASE k = kind /\ r.parts[k][i] = part
    BY <1>4, <2>2 DEF None, First
  <2> QED
    BY <1>11, <2>1, <2>2
<1>20. MadeOf(m, r)
  <2>1. IsSeq(m.comps) /\ IsSeq(m.conns)
    BY DEF ModelInv, ModelShape
  <2>2. Grown(m.comps, r.comps)
    BY <1>6, <1>7, <2>1 DEF Grown
  <2>3. Grown(m.conns, r.conns)
    BY <1>8, <2>1, SeqLength DEF Grown
  <2>4. \A k \in WithPart : Len(m.parts[k]) \in Nat
    BY SeqLength DEF ModelInv, ModelShape
  <2>5. \A k \in WithPart : Len(m.parts[k]) <= Len(r.parts[k])
    BY <1>9, <1>10, <2>4
  <2>6. PartsStay(m, r)
    BY <1>12, <2>5 DEF PartsStay
  <2> QED
    BY <1>8, <2>2, <2>3, <2>6 DEF MadeOf
<1>21. LastId(r) = LastId(m) + 1 /\ r.comps[LastId(r)] = comp
  BY <1>6 DEF LastId
<1> QED
  BY <1>8, <1>9, <1>15, <1>17, <1>18, <1>19, <1>20, <1>21 DEF ModelInv, r, comp, part

-----------------------------------------------------------------------------
(* A connection, entered at both ends.                                     *)
PartsShape(parts) ==
  /\ parts = [kind \in WithPart |-> parts[kind]]
  /\ \A kind \in WithPart : IsSeq(parts[kind])
  /\ \A kind \in WithPart : \A i \in DOMAIN parts[kind] : PartShape(parts[kind][i])

Located(parts, comp) ==
  /\ comp.kind \in WithPart \cup Boundary
  /\ comp.kind \in WithPart => comp.idx \in DOMAIN parts[comp.kind]

LEMMA Putting ==
  ASSUME NEW parts, PartsShape(parts), NEW comp, Located(parts, comp), NEW slot, NEW id
  PROVE  LET r == Put(parts, comp, slot, id)
         IN  /\ PartsShape(r)
             /\ \A kind \in WithPart :
                  /\ DOMAIN r[kind] = DOMAIN parts[kind] /\ Len(r[kind]) = Len(parts[kind])
                  /\ \A i \in DOMAIN parts[kind] :
                       /\ r[kind][i].param = parts[kind][i].param
                       /\ DOMAIN r[kind][i].conn = DOMAIN parts[kind][i].conn
                       /\ \A x \in DOMAIN parts[kind][i].conn :
                            r[kind][i].conn[x] =
                              IF kind = comp.kind /\ i = comp.idx /\ x = slot THEN id
                              ELSE parts[kind][i].conn[x]
<1>1. \A k \in Boundary : k \notin WithPart
  BY DEF Boundary, WithPart, Converters, Movers
<1>2. CASE comp.kind \in Boundary
  <2>1. Put(parts, comp, slot, id) = parts
    BY <1>2 DEF Put
  <2> QED
    BY <1>1, <1>2, <2>1
<1>3. CASE comp.kind \in WithPart
  <2> DEFINE K == comp.kind
             I == comp.idx
             old == parts[K][I]
             new == [old EXCEPT !.conn[slot] = id]
             seq == [parts[K] EXCEPT ![I] = new]
             r == [parts EXCEPT ![K] = seq]
  <2>1. Put(parts, comp, slot, id) = r
    BY <1>1, <1>3 DEF Put
  <2>2. I \in DOMAIN parts[K]
    BY <1>3 DEF Located
  <2>3. old = [param |-> old.param, conn |-> old.conn]
    BY <1>3, <2>2 DEF PartsShape, PartShape
  <2>4. old.conn = [x \in DOMAIN old.conn |-> old.conn[x]]
    BY <1>3, <2>2 DEF PartsShape, PartShape
  <2>5. new = [param |-> old.param, conn |-> [old.conn EXCEPT ![slot] = id]]
    <3> HIDE DEF old
    <3> QED
      BY <2>3
  <2>6. /\ new.param = old.param /\ DOMAIN new.conn = DOMAIN old.conn
        /\ \A x \in DOMAIN old.conn : new.conn[x] = IF x = slot THEN id ELSE old.conn[x]
        /\ PartShape(new)
    <3> HIDE DEF old, new
    <3> QED
      BY <2>4, <2>5 DEF PartShape
  <2>7. IsSeq(parts[K]) /\ parts[K] = [i \in DOMAIN parts[K] |-> parts[K][i]]
    BY <1>3 DEF PartsShape, IsSeq
  <2>8. /\ seq = [i \in DOMAIN parts[K] |-> IF i = I THEN new ELSE parts[K][i]]
    <3> HIDE DEF new
    <3> QED
      BY <2>2, <2>7
  <2>9. /\ DOMAIN seq = DOMAIN parts[K]
        /\ \A i \in DOMAIN parts[K] : seq[i] = IF i = I THEN new ELSE parts[K][i]
    <3> HIDE DEF new, seq
    <3> QED
      BY <2>8
  <2>10. IsSeq(seq) /\ Len(seq) = Len(parts[K])
    <3> HIDE DEF new, seq
    <3>1. PICK n \in Nat : DOMAIN parts[K] = 1 .. n
      BY <2>7 DEF IsSeq
    <3>2. IsSeq(seq)
      BY <2>8, <3>1 DEF IsSeq
    <3> QED
      BY <2>7, <2>9, <3>1, <3>2, SeqLength
  <2> HIDE DEF seq
  <2>11. /\ r = [kind \in WithPart |-> r[kind]]
         /\ r[K] = seq /\ \A kind \in WithPart : kind # K => r[kind] = parts[kind]
    BY <1>3 DEF PartsShape
  <2> HIDE DEF r, new
  <2>12. ASSUME NEW kind \in WithPart
         PROVE  /\ IsSeq(r[kind]) /\ DOMAIN r[kind] = DOMAIN parts[kind]
                /\ Len(r[kind]) = Len(parts[kind])
                /\ \A i \in DOMAIN parts[kind] :
                     r[kind][i] = IF kind = K /\ i = I THEN new ELSE parts[kind][i]
    BY <2>9, <2>10, <2>11 DEF PartsShape
  <2>13. PartsShape(r)
    <3>1. \A kind \in WithPart : \A i \in DOMAIN r[kind] : PartShape(r[kind][i])
      BY <2>6, <2>12 DEF PartsShape
    <3> QED
      BY <2>11, <2>12, <3>1 DEF PartsShape
  <2>14. ASSUME NEW kind \in WithPart, NEW i \in DOMAIN parts[kind]
         PROVE  /\ r[kind][i].param = parts[kind][i].param
                /\ DOMAIN r[kind][i].conn = DOMAIN parts[kind][i].conn
                /\ \A x \in DOMAIN parts[kind][i].conn :
                     r[kind][i].conn[x] =
                       IF kind = comp.kind /\ i = comp.idx /\ x = slot THEN id
                       ELSE parts[kind][i].conn[x]
    BY <2>6, <2>12
  <2> QED
    BY <2>1, <2>12, <2>13, <2>14
<1> QED
  BY <1>2, <1>3 DEF Located

ConnectionOf(m, from, fromPort, to, toPort, flow) ==
  [from |-> from, fromKind |-> m.comps[from].kind, fromIdx |-> m.comps[from].idx,
   fromPort |-> fromPort, to |-> to, toKind |-> m.comps[to].kind, toIdx |-> m.comps[to].idx,
   toPort |-> toPort, flow |-> flow]

(* What a slot holds once the connection is there.                         *)
HeldAfter(m, from, fromPort, to, toPort, kind, i, x) ==
  IF \/ kind = m.comps[to].kind /\ i = m.comps[to].idx /\ x = In(toPort)
     \/ kind = m.comps[from].kind /\ i = m.comps[from].idx /\ x = Out(fromPort)
    THEN Len(m.conns) + 1 ELSE m.parts[kind][i].conn[x]

Connected(m, r, from, fromPort, to, toPort, flow) ==
  /\ r.comps = m.comps
  /\ r.conns = Append(m.conns, ConnectionOf(m, from, fromPort, to, toPort, flow))
  /\ \A kind \in WithPart :
       /\ DOMAIN r.parts[kind] = DOMAIN m.parts[kind]
       /\ \A i \in DOMAIN m.parts[kind] : \A x \in DOMAIN m.parts[kind][i].conn :
            r.parts[kind][i].conn[x] = HeldAfter(m, from, fromPort, to, toPort, kind, i, x)

LEMMA Connecting ==
  ASSUME NEW m, ModelInv(m), NEW from \in DOMAIN m.comps, NEW fromPort,
         NEW to \in DOMAIN m.comps, NEW toPort, NEW flow,
         NEW r, r = AddConnection(m, from, fromPort, to, toPort, flow)
  PROVE  ModelInv(r) /\ MadeOf(m, r) /\ Connected(m, r, from, fromPort, to, toPort, flow)
<1> DEFINE f == m.comps[from]
           t == m.comps[to]
           id == Len(m.conns) + 1
           c == ConnectionOf(m, from, fromPort, to, toPort, flow)
           p == Put(m.parts, f, Out(fromPort), id)
           q == Put(p, t, In(toPort), id)
<1>1. r = [comps |-> m.comps, parts |-> q, conns |-> Append(m.conns, c), group |-> m.group]
  <2>1. m = [comps |-> m.comps, parts |-> m.parts, conns |-> m.conns, group |-> m.group]
    BY DEF ModelInv, ModelShape
  <2>2. r = [m EXCEPT !.conns = Append(@, c), !.parts = q]
    BY DEF AddConnection, ConnectionOf
  <2> HIDE DEF q, c
  <2> QED
    BY <2>1, <2>2
<1>2. PartsShape(m.parts)
  BY DEF ModelInv, ModelShape, PartsShape
<1>3. Located(m.parts, f) /\ Located(m.parts, t)
  BY DEF ModelInv, Placed, Located
<1>4. /\ PartsShape(p)
      /\ \A kind \in WithPart :
           /\ DOMAIN p[kind] = DOMAIN m.parts[kind] /\ Len(p[kind]) = Len(m.parts[kind])
           /\ \A i \in DOMAIN m.parts[kind] :
                /\ p[kind][i].param = m.parts[kind][i].param
                /\ DOMAIN p[kind][i].conn = DOMAIN m.parts[kind][i].conn
                /\ \A x \in DOMAIN m.parts[kind][i].conn :
                     p[kind][i].conn[x] =
                       IF kind = f.kind /\ i = f.idx /\ x = Out(fromPort) THEN id
                       ELSE m.parts[kind][i].conn[x]
  <2> HIDE DEF f, id
  <2> QED
    BY <1>2, <1>3, Putting
<1>5. Located(p, t)
  <2> HIDE DEF p, t
  <2> QED
    BY <1>3, <1>4 DEF Located
<1>6. /\ PartsShape(q)
      /\ \A kind \in WithPart :
           /\ DOMAIN q[kind] = DOMAIN p[kind] /\ Len(q[kind]) = Len(p[kind])
           /\ \A i \in DOMAIN p[kind] :
                /\ q[kind][i].param = p[kind][i].param
                /\ DOMAIN q[kind][i].conn = DOMAIN p[kind][i].conn
                /\ \A x \in DOMAIN p[kind][i].conn :
                     q[kind][i].conn[x] =
                       IF kind = t.kind /\ i = t.idx /\ x = In(toPort) THEN id
                       ELSE p[kind][i].conn[x]
  <2> HIDE DEF p, t, id
  <2> QED
    BY <1>4, <1>5, Putting
<1> HIDE DEF p, q, c
<1>7. /\ r = [comps |-> r.comps, parts |-> r.parts, conns |-> r.conns, group |-> r.group]
      /\ r.comps = m.comps /\ r.parts = q /\ r.conns = Append(m.conns, c) /\ r.group = m.group
  BY <1>1
<1>8. /\ \A kind \in WithPart :
           /\ DOMAIN r.parts[kind] = DOMAIN m.parts[kind] /\ Len(r.parts[kind]) = Len(m.parts[kind])
           /\ \A i \in DOMAIN m.parts[kind] :
                /\ r.parts[kind][i].param = m.parts[kind][i].param
                /\ DOMAIN r.parts[kind][i].conn = DOMAIN m.parts[kind][i].conn
                /\ \A x \in DOMAIN m.parts[kind][i].conn :
                     r.parts[kind][i].conn[x] =
                       IF \/ kind = t.kind /\ i = t.idx /\ x = In(toPort)
                          \/ kind = f.kind /\ i = f.idx /\ x = Out(fromPort)
                         THEN id ELSE m.parts[kind][i].conn[x]
  <2> HIDE DEF f, t, id
  <2> QED
    BY <1>4, <1>6, <1>7
<1>9. /\ IsSeq(r.conns) /\ Len(r.conns) = id /\ DOMAIN r.conns = 1 .. id
      /\ \A i \in DOMAIN m.conns : r.conns[i] = m.conns[i]
  BY <1>7, Appending DEF ModelInv, ModelShape
<1>10. id - 1 \in Nat /\ DOMAIN m.conns = 1 .. id - 1 /\ id \in DOMAIN r.conns
  BY <1>9, SeqLength DEF ModelInv, ModelShape
<1> HIDE DEF f, t, id
<1>11. ModelShape(r)
  BY <1>6, <1>7, <1>9 DEF ModelInv, ModelShape, PartsShape
<1>12. Placed(r)
  BY <1>7, <1>8 DEF ModelInv, Placed
<1>13. MoversAlike(r)
  BY <1>8 DEF ModelInv, MoversAlike, WithPart
<1>14. SlotsHold(r)
  <2> SUFFICES ASSUME NEW k \in WithPart, NEW i \in DOMAIN r.parts[k],
                      NEW x \in DOMAIN r.parts[k][i].conn
               PROVE  /\ r.parts[k][i].conn[x] \in {None, First} \cup DOMAIN r.conns
                      /\ r.parts[k][i].conn[x] = None => x \in OptionalSlots(k)
    BY DEF SlotsHold
  <2>1. i \in DOMAIN m.parts[k] /\ x \in DOMAIN m.parts[k][i].conn
    BY <1>8
  <2>2. r.parts[k][i].conn[x] \in {id, m.parts[k][i].conn[x]}
    BY <1>8, <2>1
  <2>3. /\ m.parts[k][i].conn[x] \in {None, First} \cup DOMAIN m.conns
        /\ m.parts[k][i].conn[x] = None => x \in OptionalSlots(k)
    BY <2>1 DEF ModelInv, SlotsHold
  <2>4. id # None
    BY <1>10 DEF None
  <2> QED
    BY <1>9, <1>10, <2>2, <2>3, <2>4
<1>15. MadeOf(m, r)
  <2>1. IsSeq(m.comps) /\ IsSeq(m.conns)
    BY DEF ModelInv, ModelShape
  <2>2. Grown(m.comps, r.comps)
    BY <1>7, <2>1, SeqLength DEF Grown
  <2>3. Grown(m.conns, r.conns)
    BY <1>9, <1>10, <2>1, SeqLength DEF Grown
  <2>4. \A k \in WithPart : Len(m.parts[k]) \in Nat
    BY SeqLength DEF ModelInv, ModelShape
  <2>5. PartsStay(m, r)
    BY <1>8, <2>4 DEF PartsStay
  <2> QED
    BY <1>7, <2>2, <2>3, <2>5 DEF MadeOf
<1>16. ModelInv(r) /\ MadeOf(m, r)
  BY <1>11, <1>12, <1>13, <1>14, <1>15 DEF ModelInv
<1>17. \A kind \in WithPart :
         /\ DOMAIN r.parts[kind] = DOMAIN m.parts[kind]
         /\ \A i \in DOMAIN m.parts[kind] : \A x \in DOMAIN m.parts[kind][i].conn :
              r.parts[kind][i].conn[x] = HeldAfter(m, from, fromPort, to, toPort, kind, i, x)
  BY <1>8 DEF HeldAfter, f, t, id
<1>18. Connected(m, r, from, fromPort, to, toPort, flow)
  BY <1>7, <1>17 DEF c, Connected
<1> QED
  BY <1>16, <1>18

-----------------------------------------------------------------------------
(* The Model_Add... functions, each with the boundary it adds: there is one*)
(* new component with a name, and it has its own parameters.               *)
LEMMA Tuples ==
  /\ IsSeq(<<>>) /\ DOMAIN <<>> = {} /\ Range(<<>>) = {}
  /\ \A a : /\ IsSeq(<<a>>) /\ Len(<<a>>) = 1 /\ DOMAIN <<a>> = 1 .. 1 /\ Range(<<a>>) = {a}
  /\ \A a, b : /\ IsSeq(<<a, b>>) /\ Len(<<a, b>>) = 2 /\ DOMAIN <<a, b>> = 1 .. 2
               /\ Range(<<a, b>>) = {a, b}
  /\ \A a, b, c : /\ IsSeq(<<a, b, c>>) /\ Len(<<a, b, c>>) = 3
                  /\ DOMAIN <<a, b, c>> = 1 .. 3 /\ Range(<<a, b, c>>) = {a, b, c}
<1>1. IsSeq(<<>>) /\ DOMAIN <<>> = {} /\ Range(<<>>) = {}
  <2>1. DOMAIN <<>> = 1 .. 0 /\ <<>> = [i \in 1 .. 0 |-> <<>>[i]]
    OBVIOUS
  <2> QED
    BY <2>1 DEF IsSeq, Range
<1>2. ASSUME NEW a
      PROVE  /\ IsSeq(<<a>>) /\ Len(<<a>>) = 1 /\ DOMAIN <<a>> = 1 .. 1 /\ Range(<<a>>) = {a}
  <2>1. DOMAIN <<a>> = 1 .. 1 /\ <<a>> = [i \in 1 .. 1 |-> <<a>>[i]] /\ Len(<<a>>) = 1
    OBVIOUS
  <2> QED
    BY <2>1 DEF IsSeq, Range
<1>3. ASSUME NEW a, NEW b
      PROVE  /\ IsSeq(<<a, b>>) /\ Len(<<a, b>>) = 2 /\ DOMAIN <<a, b>> = 1 .. 2
             /\ Range(<<a, b>>) = {a, b}
  <2>1. /\ DOMAIN <<a, b>> = 1 .. 2 /\ <<a, b>> = [i \in 1 .. 2 |-> <<a, b>>[i]]
        /\ Len(<<a, b>>) = 2
    OBVIOUS
  <2>2. Range(<<a, b>>) = {a, b}
    BY <2>1 DEF Range
  <2> QED
    BY <2>1, <2>2 DEF IsSeq
<1>4. ASSUME NEW a, NEW b, NEW c
      PROVE  /\ IsSeq(<<a, b, c>>) /\ Len(<<a, b, c>>) = 3
             /\ DOMAIN <<a, b, c>> = 1 .. 3 /\ Range(<<a, b, c>>) = {a, b, c}
  <2>1. /\ DOMAIN <<a, b, c>> = 1 .. 3 /\ <<a, b, c>> = [i \in 1 .. 3 |-> <<a, b, c>>[i]]
        /\ Len(<<a, b, c>>) = 3
    OBVIOUS
  <2>2. Range(<<a, b, c>>) = {a, b, c}
    BY <2>1 DEF Range
  <2> QED
    BY <2>1, <2>2 DEF IsSeq
<1> QED
  BY <1>1, <1>2, <1>3, <1>4

AddedOne(m, r, kind, inflows, outflows, tag, param) ==
  /\ ModelInv(r) /\ MadeOf(m, r)
  /\ \E id \in DOMAIN r.comps \ DOMAIN m.comps :
       /\ r.comps[id] = [kind |-> kind, idx |-> IndexIn(m, kind), inflows |-> inflows,
                         outflows |-> outflows, tag |-> tag, age |-> 0, report |-> TRUE]
       /\ \A j \in DOMAIN r.comps \ DOMAIN m.comps : j # id =>
            /\ r.comps[j].kind \in Boundary /\ r.comps[j].tag = ""
            /\ Range(r.comps[j].inflows) \cup Range(r.comps[j].outflows) \subseteq {NoFlow}
  /\ \A k \in WithPart :
       Len(r.parts[k]) = IF k = kind THEN Len(m.parts[k]) + 1 ELSE Len(m.parts[k])
  /\ r.parts[kind][Len(m.parts[kind]) + 1].param = param

LEMMA AddingPartOnly ==
  ASSUME NEW m, ModelInv(m), NEW kind \in WithPart, NEW inflows, IsSeq(inflows),
         NEW outflows, IsSeq(outflows), NEW tag, NEW param,
         kind \in Movers => Slots(kind, inflows, outflows) = MoverSlots,
         NEW r, r = AddPart(m, kind, inflows, outflows, tag, param)
  PROVE  AddedOne(m, r, kind, inflows, outflows, tag, param) /\ LastId(r) = LastId(m) + 1
<1> DEFINE comp == [kind |-> kind, idx |-> IndexIn(m, kind), inflows |-> inflows,
                    outflows |-> outflows, tag |-> tag, age |-> 0, report |-> TRUE]
           part == NewPart(kind, inflows, outflows, param)
<1>1. /\ ModelInv(r) /\ MadeOf(m, r)
      /\ LastId(r) = LastId(m) + 1
      /\ r.comps[LastId(r)] = comp
      /\ \A k \in WithPart : r.parts[k] = IF k = kind THEN Append(m.parts[k], part) ELSE m.parts[k]
  BY AddingPart
<1>2. part.param = param
  BY DEF NewPart
<1> HIDE DEF comp, part
<1>3. /\ Len(m.comps) \in Nat /\ DOMAIN m.comps = 1 .. Len(m.comps)
      /\ Len(r.comps) = Len(m.comps) + 1 /\ DOMAIN r.comps = 1 .. Len(m.comps) + 1
  BY <1>1, SeqLength DEF ModelInv, ModelShape, LastId
<1>4. IsSeq(m.parts[kind])
  BY DEF ModelInv, ModelShape
<1>5. /\ r.parts[kind][Len(m.parts[kind]) + 1] = part
      /\ Len(r.parts[kind]) = Len(m.parts[kind]) + 1
  <2>1. r.parts[kind] = Append(m.parts[kind], part)
    BY <1>1
  <2> QED
    BY <1>4, <2>1, Appending
<1>6. \A j \in DOMAIN r.comps \ DOMAIN m.comps : j = LastId(r)
  BY <1>3 DEF LastId
<1>7. LastId(r) \in DOMAIN r.comps \ DOMAIN m.comps
  BY <1>3 DEF LastId
<1> QED
  BY <1>1, <1>2, <1>5, <1>6, <1>7 DEF AddedOne, comp

(* What is there before, or comes after, without a name.                   *)
Nameless(m, r) ==
  /\ ModelInv(r) /\ MadeOf(m, r)
  /\ \A j \in DOMAIN r.comps \ DOMAIN m.comps :
       /\ r.comps[j].kind \in Boundary /\ r.comps[j].tag = ""
       /\ Range(r.comps[j].inflows) \cup Range(r.comps[j].outflows) \subseteq {NoFlow}
  /\ \A k \in WithPart : Len(r.parts[k]) = Len(m.parts[k])

LEMMA AddingNameless ==
  ASSUME NEW m, ModelInv(m), NEW kind \in Boundary, NEW inflows, IsSeq(inflows),
         NEW outflows, IsSeq(outflows),
         Range(inflows) \cup Range(outflows) \subseteq {NoFlow}
  PROVE  LET r == AddComponent(m, kind, First, inflows, outflows, "")
         IN  Nameless(m, r) /\ LastId(r) = LastId(m) + 1
<1> DEFINE tag == ""
           r == AddComponent(m, kind, First, inflows, outflows, tag)
           comp == [kind |-> kind, idx |-> First, inflows |-> inflows, outflows |-> outflows,
                    tag |-> tag, age |-> 0, report |-> TRUE]
<1> HIDE DEF tag
<1>1. /\ ModelInv(r) /\ MadeOf(m, r)
      /\ LastId(r) = LastId(m) + 1 /\ r.conns = m.conns /\ r.parts = m.parts
      /\ r.comps[LastId(r)] = comp
  BY AddingBoundary
<1>5. comp.kind = kind /\ comp.tag = tag /\ comp.inflows = inflows /\ comp.outflows = outflows
  OBVIOUS
<1> HIDE DEF r, comp
<1>2. /\ Len(m.comps) \in Nat /\ DOMAIN m.comps = 1 .. Len(m.comps)
      /\ Len(r.comps) = Len(m.comps) + 1 /\ DOMAIN r.comps = 1 .. Len(m.comps) + 1
  BY <1>1, SeqLength DEF ModelInv, ModelShape, LastId
<1>3. \A j \in DOMAIN r.comps \ DOMAIN m.comps : j = LastId(r)
  BY <1>2 DEF LastId
<1>4. /\ r.comps[LastId(r)].kind = kind /\ r.comps[LastId(r)].tag = ""
      /\ r.comps[LastId(r)].inflows = inflows /\ r.comps[LastId(r)].outflows = outflows
  BY <1>1, <1>5 DEF tag
<1> QED
  BY <1>1, <1>3, <1>4 DEF Nameless, r, tag

LEMMA ConnectingNameless ==
  ASSUME NEW m, ModelInv(m), NEW from \in DOMAIN m.comps, NEW fromPort,
         NEW to \in DOMAIN m.comps, NEW toPort, NEW flow,
         NEW r, r = AddConnection(m, from, fromPort, to, toPort, flow)
  PROVE  Nameless(m, r) /\ r.comps = m.comps /\ LastId(r) = LastId(m)
<1>1. ModelInv(r) /\ MadeOf(m, r) /\ Connected(m, r, from, fromPort, to, toPort, flow)
  BY Connecting
<1>3. r.comps = m.comps /\ \A kind \in WithPart : DOMAIN r.parts[kind] = DOMAIN m.parts[kind]
  BY <1>1 DEF Connected
<1>2. \A kind \in WithPart : Len(r.parts[kind]) = Len(m.parts[kind])
  <2> TAKE kind \in WithPart
  <2>1. IsSeq(r.parts[kind]) /\ IsSeq(m.parts[kind])
    BY <1>1 DEF ModelInv, ModelShape
  <2>2. /\ Len(r.parts[kind]) \in Nat /\ DOMAIN r.parts[kind] = 1 .. Len(r.parts[kind])
        /\ Len(m.parts[kind]) \in Nat /\ DOMAIN m.parts[kind] = 1 .. Len(m.parts[kind])
    BY <2>1, SeqLength
  <2>3. DOMAIN r.parts[kind] = DOMAIN m.parts[kind]
    BY <1>3
  <2> QED
    BY <2>2, <2>3
<1> QED
  BY <1>1, <1>2, <1>3 DEF Nameless, LastId

LEMMA NamelessAgain ==
  ASSUME NEW a, NEW b, NEW c, ModelInv(a), Nameless(a, b), Nameless(b, c)
  PROVE  Nameless(a, c)
<1>1. MadeOf(a, c)
  BY MadeOfAgain DEF Nameless, ModelInv
<1>2. ASSUME NEW j \in DOMAIN c.comps \ DOMAIN a.comps
      PROVE  /\ c.comps[j].kind \in Boundary /\ c.comps[j].tag = ""
             /\ Range(c.comps[j].inflows) \cup Range(c.comps[j].outflows) \subseteq {NoFlow}
  <2>1. CASE j \in DOMAIN b.comps
    <3>1. c.comps[j] = b.comps[j]
      BY <2>1 DEF Nameless, MadeOf, Grown
    <3> QED
      BY <2>1, <3>1 DEF Nameless
  <2>2. CASE j \notin DOMAIN b.comps
    BY <2>2 DEF Nameless
  <2> QED
    BY <2>1, <2>2
<1> QED
  BY <1>1, <1>2 DEF Nameless

LEMMA AddedAfterNameless ==
  ASSUME NEW a, NEW b, NEW c, NEW kind \in WithPart, NEW inflows, NEW outflows, NEW tag, NEW param,
         ModelInv(a), Nameless(a, b), AddedOne(b, c, kind, inflows, outflows, tag, param)
  PROVE  AddedOne(a, c, kind, inflows, outflows, tag, param)
<1>1. MadeOf(a, c)
  BY MadeOfAgain DEF Nameless, AddedOne, ModelInv
<1>2. \A k \in WithPart : Len(b.parts[k]) = Len(a.parts[k])
  BY DEF Nameless
<1>3. IndexIn(b, kind) = IndexIn(a, kind)
  BY <1>2 DEF IndexIn
<1>4. PICK id \in DOMAIN c.comps \ DOMAIN b.comps :
       /\ c.comps[id] = [kind |-> kind, idx |-> IndexIn(b, kind), inflows |-> inflows,
                         outflows |-> outflows, tag |-> tag, age |-> 0, report |-> TRUE]
       /\ \A j \in DOMAIN c.comps \ DOMAIN b.comps : j # id =>
            /\ c.comps[j].kind \in Boundary /\ c.comps[j].tag = ""
            /\ Range(c.comps[j].inflows) \cup Range(c.comps[j].outflows) \subseteq {NoFlow}
  BY DEF AddedOne
<1>5. DOMAIN a.comps \subseteq DOMAIN b.comps
  <2>1. Grown(a.comps, b.comps)
    BY DEF Nameless, MadeOf
  <2> QED
    BY <2>1, SeqLength DEF Grown
<1>6. ASSUME NEW j \in DOMAIN c.comps \ DOMAIN a.comps, j # id
      PROVE  /\ c.comps[j].kind \in Boundary /\ c.comps[j].tag = ""
             /\ Range(c.comps[j].inflows) \cup Range(c.comps[j].outflows) \subseteq {NoFlow}
  <2>1. CASE j \in DOMAIN b.comps
    <3>1. c.comps[j] = b.comps[j]
      BY <2>1 DEF AddedOne, MadeOf, Grown
    <3> QED
      BY <2>1, <3>1 DEF Nameless
  <2>2. CASE j \notin DOMAIN b.comps
    BY <1>4, <1>6, <2>2
  <2> QED
    BY <2>1, <2>2
<1>7. \E i \in DOMAIN c.comps \ DOMAIN a.comps :
       /\ c.comps[i] = [kind |-> kind, idx |-> IndexIn(a, kind), inflows |-> inflows,
                         outflows |-> outflows, tag |-> tag, age |-> 0, report |-> TRUE]
       /\ \A j \in DOMAIN c.comps \ DOMAIN a.comps : j # i =>
            /\ c.comps[j].kind \in Boundary /\ c.comps[j].tag = ""
            /\ Range(c.comps[j].inflows) \cup Range(c.comps[j].outflows) \subseteq {NoFlow}
  <2>1. id \in DOMAIN c.comps \ DOMAIN a.comps
    BY <1>4, <1>5
  <2> QED
    BY <1>3, <1>4, <1>6, <2>1
<1>8. /\ \A k \in WithPart :
           Len(c.parts[k]) = IF k = kind THEN Len(a.parts[k]) + 1 ELSE Len(a.parts[k])
      /\ c.parts[kind][Len(a.parts[kind]) + 1].param = param
  BY <1>2 DEF AddedOne
<1> QED
  BY <1>1, <1>7, <1>8 DEF AddedOne

LEMMA NamelessAfterAdded ==
  ASSUME NEW a, NEW b, NEW c, NEW kind \in WithPart, NEW inflows, NEW outflows, NEW tag, NEW param,
         ModelInv(a), AddedOne(a, b, kind, inflows, outflows, tag, param), Nameless(b, c)
  PROVE  AddedOne(a, c, kind, inflows, outflows, tag, param)
<1>1. MadeOf(a, c)
  BY MadeOfAgain DEF Nameless, AddedOne, ModelInv
<1>2. \A k \in WithPart : Len(c.parts[k]) = Len(b.parts[k])
  BY DEF Nameless
<1>3. PICK id \in DOMAIN b.comps \ DOMAIN a.comps :
       /\ b.comps[id] = [kind |-> kind, idx |-> IndexIn(a, kind), inflows |-> inflows,
                         outflows |-> outflows, tag |-> tag, age |-> 0, report |-> TRUE]
       /\ \A j \in DOMAIN b.comps \ DOMAIN a.comps : j # id =>
            /\ b.comps[j].kind \in Boundary /\ b.comps[j].tag = ""
            /\ Range(b.comps[j].inflows) \cup Range(b.comps[j].outflows) \subseteq {NoFlow}
  BY DEF AddedOne
<1>4. DOMAIN b.comps \subseteq DOMAIN c.comps /\ \A j \in DOMAIN b.comps : c.comps[j] = b.comps[j]
  <2>1. Grown(b.comps, c.comps)
    BY DEF Nameless, MadeOf
  <2> QED
    BY <2>1, SeqLength DEF Grown
<1>5. id \in DOMAIN c.comps \ DOMAIN a.comps
  BY <1>3, <1>4
<1>6. \A j \in DOMAIN c.comps \ DOMAIN a.comps : j # id =>
        /\ c.comps[j].kind \in Boundary /\ c.comps[j].tag = ""
        /\ Range(c.comps[j].inflows) \cup Range(c.comps[j].outflows) \subseteq {NoFlow}
  BY <1>3, <1>4 DEF Nameless
<1>7. LET n == Len(a.parts[kind]) + 1 IN
      /\ n \in DOMAIN b.parts[kind]
      /\ c.parts[kind][n].param = b.parts[kind][n].param
  <2>1. IsSeq(b.parts[kind]) /\ IsSeq(a.parts[kind])
    BY DEF ModelInv, ModelShape, AddedOne
  <2>2. /\ Len(b.parts[kind]) = Len(a.parts[kind]) + 1
        /\ Len(a.parts[kind]) \in Nat /\ DOMAIN b.parts[kind] = 1 .. Len(b.parts[kind])
    BY <2>1, SeqLength DEF AddedOne
  <2>3. Len(a.parts[kind]) + 1 \in DOMAIN b.parts[kind]
    BY <2>2
  <2> QED
    BY <2>3 DEF Nameless, MadeOf, PartsStay
<1> QED
  BY <1>1, <1>2, <1>3, <1>4, <1>5, <1>6, <1>7 DEF AddedOne, Nameless

(* Sequences of the input, and the orders in which names may come.         *)
LEMMA SeqIs ==
  ASSUME NEW x, NEW S, x \in Seq(S)
  PROVE  IsSeq(x)
BY DEF IsSeq

LEMMA OrderIs ==
  ASSUME NEW S, IsFiniteSet(S), NEW x \in Bijection(1 .. Cardinality(S), S)
  PROVE  IsSeq(x) /\ Range(x) = S
<1>1. Cardinality(S) \in Nat
  BY FS_CardinalityType
<1>2. /\ DOMAIN x = 1 .. Cardinality(S) /\ x = [i \in 1 .. Cardinality(S) |-> x[i]]
  BY DEF Bijection, Injection, Surjection
<1>3. Range(x) = S
  BY DEF Bijection, Injection, Surjection, Range
<1> QED
  BY <1>1, <1>2, <1>3 DEF IsSeq

LEMMA Replacing ==
  ASSUME NEW x, IsSeq(x), NEW n \in DOMAIN x, NEW e
  PROVE  /\ IsSeq([x EXCEPT ![n] = e]) /\ Len([x EXCEPT ![n] = e]) = Len(x)
         /\ DOMAIN [x EXCEPT ![n] = e] = DOMAIN x
         /\ \A i \in DOMAIN x : [x EXCEPT ![n] = e][i] = IF i = n THEN e ELSE x[i]
<1> DEFINE r == [x EXCEPT ![n] = e]
<1>1. DOMAIN r = DOMAIN x /\ r = [i \in DOMAIN x |-> r[i]]
  OBVIOUS
<1>2. \A i \in DOMAIN x : r[i] = IF i = n THEN e ELSE x[i]
  OBVIOUS
<1> HIDE DEF r
<1>3. Len(x) \in Nat /\ DOMAIN x = 1 .. Len(x)
  BY SeqLength
<1>4. IsSeq(r)
  BY <1>1, <1>3 DEF IsSeq
<1>5. Len(r) \in Nat /\ DOMAIN r = 1 .. Len(r)
  BY <1>4, SeqLength
<1>6. Len(r) = Len(x)
  BY <1>1, <1>3, <1>5
<1> QED
  BY <1>1, <1>2, <1>4, <1>6 DEF r

(* A record is registered: it takes the place of the one with its tag, and *)
(* every tag keeps its id.                                                 *)
Registered(seq, record, r) ==
  /\ IsSeq(r) /\ Len(seq) <= Len(r) /\ DOMAIN seq \subseteq DOMAIN r
  /\ UniqueTags(seq) => UniqueTags(r)
  /\ TagsOf(r) = TagsOf(seq) \cup {record.tag}
  /\ \A i \in DOMAIN seq : r[i].tag = seq[i].tag /\ IdOf(r, seq[i].tag) = IdOf(seq, seq[i].tag)
  /\ \A i \in DOMAIN seq : seq[i].tag # record.tag => r[i] = seq[i]
  /\ IdOf(r, record.tag) \in DOMAIN r /\ r[IdOf(r, record.tag)] = record
  /\ \A i \in DOMAIN r : r[i].tag # record.tag => i \in DOMAIN seq

LEMMA Registering ==
  ASSUME NEW seq, IsSeq(seq), NEW record
  PROVE  Registered(seq, record, Register(seq, record))
<1> DEFINE tag == record.tag
<1>1. CASE tag \notin TagsOf(seq)
  <2> DEFINE r == Append(seq, record)
  <2>1. Register(seq, record) = r
    BY <1>1, TaggedIs DEF Register
  <2>2. /\ Grown(seq, r) /\ (UniqueTags(seq) => UniqueTags(r))
        /\ TagsOf(r) = TagsOf(seq) \cup {tag}
    BY <1>1, AppendsNew
  <2>3. DOMAIN r = 1 .. Len(seq) + 1 /\ r[Len(seq) + 1] = record
    BY Appending
  <2> HIDE DEF r
  <2>4. /\ Len(seq) \in Nat /\ DOMAIN seq = 1 .. Len(seq)
    BY SeqLength
  <2>5. \A i \in DOMAIN seq : seq[i].tag \in TagsOf(seq)
    BY DEF TagsOf
  <2>6. \A i \in DOMAIN seq : r[i] = seq[i] /\ IdOf(r, seq[i].tag) = IdOf(seq, seq[i].tag)
    BY <2>2, <2>5, IdStays DEF Grown
  <2>7. IdOf(r, tag) \in DOMAIN r /\ r[IdOf(r, tag)].tag = tag
    <3>1. IsSeq(r) /\ tag \in TagsOf(r)
      BY <2>2 DEF Grown
    <3> QED
      BY <3>1, IdIs
  <2>8. IdOf(r, tag) \notin DOMAIN seq
    BY <1>1, <2>2, <2>5, <2>7 DEF Grown
  <2>9. IdOf(r, tag) = Len(seq) + 1
    <3> DEFINE n == IdOf(r, tag)
    <3>1. n \in 1 .. Len(seq) + 1 /\ n \notin 1 .. Len(seq)
      BY <2>3, <2>4, <2>7, <2>8
    <3> HIDE DEF n
    <3>2. n = Len(seq) + 1
      BY <2>4, <3>1
    <3> QED
      BY <3>2 DEF n
  <2>10. r[IdOf(r, tag)] = record
    BY <2>3, <2>9
  <2>11. IsSeq(r) /\ Len(seq) <= Len(r)
    BY <2>2 DEF Grown
  <2>12. DOMAIN seq \subseteq DOMAIN r /\ \A i \in DOMAIN r : i \notin DOMAIN seq => i = Len(seq) + 1
    BY <2>3, <2>4
  <2>13. \A i \in DOMAIN r : r[i].tag # tag => i \in DOMAIN seq
    BY <2>3, <2>12
  <2> QED
    BY <2>1, <2>2, <2>6, <2>7, <2>10, <2>11, <2>12, <2>13 DEF Registered
<1>2. CASE tag \in TagsOf(seq)
  <2> DEFINE n == IdOf(seq, tag)
             r == [seq EXCEPT ![n] = record]
  <2>1. Register(seq, record) = r
    BY <1>2, TaggedIs DEF Register
  <2>2. n \in DOMAIN seq /\ seq[n].tag = tag /\ \A i \in DOMAIN seq : seq[i].tag = tag => n <= i
    BY <1>2, IdIs
  <2>3. /\ IsSeq(r) /\ Len(r) = Len(seq) /\ DOMAIN r = DOMAIN seq
        /\ \A i \in DOMAIN seq : r[i] = IF i = n THEN record ELSE seq[i]
    <3> HIDE DEF n
    <3> QED
      BY <2>2, Replacing
  <2> HIDE DEF n, r
  <2>4. \A i \in DOMAIN seq : r[i].tag = seq[i].tag
    BY <2>2, <2>3
  <2>5. TagsOf(r) = TagsOf(seq)
    BY <2>3, <2>4 DEF TagsOf
  <2>6. \A t : Tagged(r, t) = Tagged(seq, t)
    BY <2>3, <2>4 DEF Tagged
  <2>7. \A t : IdOf(r, t) = IdOf(seq, t)
    BY <2>6 DEF IdOf
  <2>8. UniqueTags(seq) => UniqueTags(r)
    BY <2>3, <2>4 DEF UniqueTags
  <2>9. IdOf(r, tag) = n
    BY <2>7 DEF n
  <2>10. Len(seq) <= Len(r)
    BY <2>3, SeqLength
  <2>11. TagsOf(r) = TagsOf(seq) \cup {tag}
    BY <1>2, <2>5
  <2>12. \A i \in DOMAIN seq : seq[i].tag # tag => r[i] = seq[i]
    BY <2>2, <2>3
  <2> QED
    BY <2>1, <2>2, <2>3, <2>4, <2>7, <2>8, <2>9, <2>10, <2>11, <2>12 DEF Registered
<1> QED
  BY <1>1, <1>2

LEMMA AddingConverter ==
  ASSUME NEW m, ModelInv(m), NEW kind \in Converters, NEW param,
         NEW inflow, NEW outflow, NEW lossflow, NEW tag
  PROVE  AddedOne(m, AddConverter(m, kind, param, inflow, outflow, lossflow, tag),
                  kind, <<inflow>>, <<outflow, lossflow, NoFlow>>, tag, param)
<1> DEFINE ins == <<inflow>>
           outs == <<outflow, lossflow, NoFlow>>
           flow == <<NoFlow>>
           sink == AddWasteSink(m, flow)
           made == AddPart(sink, kind, ins, outs, tag, param)
           r == AddConnection(made, LastId(made), 2, LastId(sink), 0, NoFlow)
<1>1. AddConverter(m, kind, param, inflow, outflow, lossflow, tag) = r
  BY DEF AddConverter
<1>2. IsSeq(flow) /\ IsSeq(<<>>) /\ Range(flow) \cup Range(<<>>) \subseteq {NoFlow}
  BY Tuples
<1>3. IsSeq(ins) /\ IsSeq(outs)
  BY Tuples
<1>4. kind \in WithPart /\ kind \notin Movers
  BY DEF WithPart, Converters, Movers
<1> HIDE DEF ins, outs, flow
<1>5. Nameless(m, sink) /\ LastId(sink) = LastId(m) + 1
  <2>1. "WasteSink" \in Boundary
    BY DEF Boundary
  <2> QED
    BY <1>2, <2>1, AddingNameless DEF AddWasteSink
<1> HIDE DEF sink
<1>6. ModelInv(sink)
  BY <1>5 DEF Nameless
<1>7. AddedOne(sink, made, kind, ins, outs, tag, param) /\ LastId(made) = LastId(sink) + 1
  BY <1>3, <1>4, <1>6, AddingPartOnly
<1> HIDE DEF made
<1>8. ModelInv(made)
  BY <1>7 DEF AddedOne
<1>9. LastId(made) \in DOMAIN made.comps /\ LastId(sink) \in DOMAIN made.comps
  <2>1. IsSeq(made.comps) /\ IsSeq(sink.comps) /\ IsSeq(m.comps)
    BY <1>6, <1>8 DEF ModelInv, ModelShape
  <2>2. LastId(m) \in Nat /\ DOMAIN made.comps = 1 .. LastId(made)
    BY <2>1, SeqLength DEF LastId
  <2> QED
    BY <1>5, <1>7, <2>2
<1>10. Nameless(made, r)
  BY <1>8, <1>9, ConnectingNameless
<1> HIDE DEF r
<1>11. AddedOne(sink, r, kind, ins, outs, tag, param)
  BY <1>4, <1>6, <1>7, <1>10, NamelessAfterAdded
<1>12. AddedOne(m, r, kind, ins, outs, tag, param)
  BY <1>4, <1>5, <1>11, AddedAfterNameless
<1> QED
  BY <1>1, <1>12 DEF ins, outs

LEMMA AddingScheduleBasedSource ==
  ASSUME NEW m, ModelInv(m), NEW param, NEW outflow, NEW tag
  PROVE  AddedOne(m, AddScheduleBasedSource(m, param, outflow, tag),
                  "ScheduleBasedSource", <<>>, <<outflow>>, tag, param)
<1> DEFINE kind == "ScheduleBasedSource"
           ins == <<>>
           outs == <<outflow>>
           flow == <<>>
           sink == AddWasteSink(m, flow)
           made == AddPart(sink, kind, ins, outs, tag, param)
           r == AddConnection(made, LastId(made), 1, LastId(sink), 0, NoFlow)
<1>1. AddScheduleBasedSource(m, param, outflow, tag) = r
  BY DEF AddScheduleBasedSource
<1>2. IsSeq(flow) /\ IsSeq(<<>>) /\ Range(flow) \cup Range(<<>>) \subseteq {NoFlow}
  BY Tuples
<1>3. IsSeq(ins) /\ IsSeq(outs)
  BY Tuples
<1>4. kind \in WithPart /\ kind \notin Movers
  BY DEF WithPart, Converters, Movers
<1> HIDE DEF ins, outs, flow
<1>5. Nameless(m, sink) /\ LastId(sink) = LastId(m) + 1
  <2>1. "WasteSink" \in Boundary
    BY DEF Boundary
  <2> QED
    BY <1>2, <2>1, AddingNameless DEF AddWasteSink
<1> HIDE DEF sink, kind
<1>6. ModelInv(sink)
  BY <1>5 DEF Nameless
<1>7. AddedOne(sink, made, kind, ins, outs, tag, param) /\ LastId(made) = LastId(sink) + 1
  BY <1>3, <1>4, <1>6, AddingPartOnly
<1> HIDE DEF made
<1>8. ModelInv(made)
  BY <1>7 DEF AddedOne
<1>9. LastId(made) \in DOMAIN made.comps /\ LastId(sink) \in DOMAIN made.comps
  <2>1. IsSeq(made.comps) /\ IsSeq(sink.comps) /\ IsSeq(m.comps)
    BY <1>6, <1>8 DEF ModelInv, ModelShape
  <2>2. LastId(m) \in Nat /\ DOMAIN made.comps = 1 .. LastId(made)
    BY <2>1, SeqLength DEF LastId
  <2> QED
    BY <1>5, <1>7, <2>2
<1>10. Nameless(made, r)
  BY <1>8, <1>9, ConnectingNameless
<1> HIDE DEF r
<1>11. AddedOne(sink, r, kind, ins, outs, tag, param)
  BY <1>4, <1>6, <1>7, <1>10, NamelessAfterAdded
<1>12. AddedOne(m, r, kind, ins, outs, tag, param)
  BY <1>4, <1>5, <1>11, AddedAfterNameless
<1> QED
  BY <1>1, <1>12 DEF ins, outs, kind

LEMMA AddingStoreWithWasteflow ==
  ASSUME NEW m, ModelInv(m), NEW param, NEW flow, NEW tag
  PROVE  AddedOne(m, AddStoreWithWasteflow(m, param, flow, tag),
                  "Store", <<flow>>, <<flow>>, tag, param)
<1> DEFINE kind == "Store"
           ins == <<flow>>
           waste == <<NoFlow>>
           made == AddPart(m, kind, ins, ins, tag, param)
           sink == AddWasteSink(made, waste)
           r == AddConnection(sink, LastId(made), 1, LastId(sink), 0, NoFlow)
<1>1. AddStoreWithWasteflow(m, param, flow, tag) = r
  BY DEF AddStoreWithWasteflow, AddStore
<1>2. IsSeq(waste) /\ IsSeq(<<>>) /\ Range(waste) \cup Range(<<>>) \subseteq {NoFlow}
  BY Tuples
<1>3. IsSeq(ins)
  BY Tuples
<1>4. kind \in WithPart /\ kind \notin Movers
  BY DEF WithPart, Converters, Movers
<1> HIDE DEF ins, waste, kind
<1>7. AddedOne(m, made, kind, ins, ins, tag, param) /\ LastId(made) = LastId(m) + 1
  BY <1>3, <1>4, AddingPartOnly
<1> HIDE DEF made
<1>8. ModelInv(made)
  BY <1>7 DEF AddedOne
<1>5. Nameless(made, sink) /\ LastId(sink) = LastId(made) + 1
  <2>1. "WasteSink" \in Boundary
    BY DEF Boundary
  <2> QED
    BY <1>2, <1>8, <2>1, AddingNameless DEF AddWasteSink
<1> HIDE DEF sink
<1>6. ModelInv(sink)
  BY <1>5 DEF Nameless
<1>9. LastId(made) \in DOMAIN sink.comps /\ LastId(sink) \in DOMAIN sink.comps
  <2>1. IsSeq(made.comps) /\ IsSeq(sink.comps) /\ IsSeq(m.comps)
    BY <1>6, <1>8 DEF ModelInv, ModelShape
  <2>2. LastId(m) \in Nat /\ DOMAIN sink.comps = 1 .. LastId(sink)
    BY <2>1, SeqLength DEF LastId
  <2> QED
    BY <1>5, <1>7, <2>2
<1>10. Nameless(sink, r)
  BY <1>6, <1>9, ConnectingNameless
<1> HIDE DEF r
<1>11. Nameless(made, r)
  BY <1>5, <1>8, <1>10, NamelessAgain
<1>12. AddedOne(m, r, kind, ins, ins, tag, param)
  BY <1>4, <1>7, <1>11, NamelessAfterAdded
<1> QED
  BY <1>1, <1>12 DEF ins, kind

LEMMA AddingMover ==
  ASSUME NEW m, ModelInv(m), NEW kind \in Movers, NEW param, NEW inflow, NEW outflow, NEW tag
  PROVE  AddedOne(m, AddMover(m, kind, param, inflow, outflow, tag),
                  kind, <<inflow, NoFlow>>, <<outflow, NoFlow>>, tag, param)
<1> DEFINE ins == <<inflow, NoFlow>>
           outs == <<outflow, NoFlow>>
           flow == <<NoFlow>>
           none == <<>>
           sink == AddWasteSink(m, flow)
           env == AddComponent(sink, "EnvironmentSource", First, none, flow, "")
           made == AddPart(env, kind, ins, outs, tag, param)
           first == AddConnection(made, LastId(made), 1, LastId(sink), 0, NoFlow)
           r == AddConnection(first, LastId(env), 0, LastId(made), 1, NoFlow)
<1>1. AddMover(m, kind, param, inflow, outflow, tag) = r
  BY DEF AddMover
<1>2. IsSeq(flow) /\ IsSeq(none) /\ Range(flow) \cup Range(none) \subseteq {NoFlow}
  BY Tuples
<1>3. IsSeq(ins) /\ IsSeq(outs) /\ DOMAIN ins = 1 .. 2 /\ DOMAIN outs = 1 .. 2
  BY Tuples
<1>4. kind \in WithPart /\ kind \notin {"ScheduleBasedSource", "Store"}
  BY DEF WithPart, Movers
<1> HIDE DEF ins, outs
<1>13. Slots(kind, ins, outs) = MoverSlots
  <2>1. {In(i - 1) : i \in DOMAIN ins} = {In(0), In(1)}
    BY <1>3 DEF In
  <2>2. {Out(i - 1) : i \in DOMAIN outs} = {Out(0), Out(1)}
    BY <1>3 DEF Out
  <2> QED
    BY <1>4, <2>1, <2>2 DEF Slots, MoverSlots
<1>14. "WasteSink" \in Boundary /\ "EnvironmentSource" \in Boundary
  BY DEF Boundary
<1>5. Nameless(m, sink) /\ LastId(sink) = LastId(m) + 1
  <2> HIDE DEF flow
  <2>1. IsSeq(<<>>) /\ Range(flow) \cup Range(<<>>) \subseteq {NoFlow}
    BY <1>2
  <2> QED
    BY <1>2, <1>14, <2>1, AddingNameless DEF AddWasteSink
<1> HIDE DEF flow, none, sink
<1>6. ModelInv(sink)
  BY <1>5 DEF Nameless
<1>15. Nameless(sink, env) /\ LastId(env) = LastId(sink) + 1
  <2>1. Range(none) \cup Range(flow) \subseteq {NoFlow}
    BY <1>2
  <2> QED
    BY <1>2, <1>6, <1>14, <2>1, AddingNameless
<1> HIDE DEF env
<1>16. ModelInv(env)
  BY <1>15 DEF Nameless
<1>7. AddedOne(env, made, kind, ins, outs, tag, param) /\ LastId(made) = LastId(env) + 1
  BY <1>3, <1>4, <1>13, <1>16, AddingPartOnly
<1> HIDE DEF made
<1>8. ModelInv(made)
  BY <1>7 DEF AddedOne
<1>9. {LastId(made), LastId(sink), LastId(env)} \subseteq DOMAIN made.comps
  <2>1. IsSeq(made.comps) /\ IsSeq(m.comps)
    BY <1>8 DEF ModelInv, ModelShape
  <2>2. LastId(m) \in Nat /\ DOMAIN made.comps = 1 .. LastId(made)
    BY <2>1, SeqLength DEF LastId
  <2> QED
    BY <1>5, <1>7, <1>15, <2>2
<1>10. Nameless(made, first) /\ first.comps = made.comps
  BY <1>8, <1>9, ConnectingNameless
<1> HIDE DEF first
<1>17. Nameless(first, r)
  <2>1. ModelInv(first)
    BY <1>10 DEF Nameless
  <2>2. LastId(env) \in DOMAIN first.comps /\ LastId(made) \in DOMAIN first.comps
    BY <1>9, <1>10
  <2> QED
    BY <2>1, <2>2, ConnectingNameless
<1> HIDE DEF r
<1>18. Nameless(made, r)
  BY <1>8, <1>10, <1>17, NamelessAgain
<1>19. Nameless(m, env)
  BY <1>5, <1>15, NamelessAgain
<1>11. AddedOne(env, r, kind, ins, outs, tag, param)
  BY <1>4, <1>7, <1>16, <1>18, NamelessAfterAdded
<1>12. AddedOne(m, r, kind, ins, outs, tag, param)
  BY <1>4, <1>11, <1>19, AddedAfterNameless
<1> QED
  BY <1>1, <1>12 DEF ins, outs

AddedWith(m, r, kind, flowIds, tag, param) ==
  \E inflows, outflows :
    /\ AddedOne(m, r, kind, inflows, outflows, tag, param)
    /\ Range(inflows) \cup Range(outflows) \subseteq flowIds

LEMMA AddingPlain ==
  ASSUME NEW m, ModelInv(m), NEW kind \in WithPart \ Movers,
         NEW inflows, IsSeq(inflows), NEW outflows, IsSeq(outflows),
         NEW tag, NEW param, NEW flowIds, Range(inflows) \cup Range(outflows) \subseteq flowIds,
         NEW r, r = AddPart(m, kind, inflows, outflows, tag, param)
  PROVE  AddedWith(m, r, kind, flowIds, tag, param)
<1>1. AddedOne(m, r, kind, inflows, outflows, tag, param)
  BY AddingPartOnly
<1> QED
  BY <1>1 DEF AddedWith

LEMMA AddingToModel ==
  ASSUME NEW m, ModelInv(m), NEW kind \in WithPart, NEW f, NEW param, NEW flows, NEW tag,
         kind = "Mux" => f.num_inflows \in Nat /\ f.num_outflows \in Nat,
         NEW r, r = AddToModel(m, kind, f, param, flows, tag)
  PROVE  AddedWith(m, r, kind, {FlowId(flows, f, field) : field \in {"inflow", "outflow", "lossflow"}}
                                 \cup {NoFlow}, tag, param)
<1> DEFINE in == FlowId(flows, f, "inflow")
           out == FlowId(flows, f, "outflow")
           loss == FlowId(flows, f, "lossflow")
           ids == {in, out, loss, NoFlow}
<1>1. {FlowId(flows, f, field) : field \in {"inflow", "outflow", "lossflow"}} \cup {NoFlow} = ids
  OBVIOUS
<1>2. /\ IsSeq(<<in>>) /\ IsSeq(<<out>>) /\ IsSeq(<<>>) /\ IsSeq(<<in, in>>)
      /\ Range(<<in>>) \cup Range(<<>>) \subseteq ids /\ Range(<<>>) \cup Range(<<out>>) \subseteq ids
      /\ Range(<<in, in>>) \cup Range(<<in>>) \subseteq ids
      /\ Range(<<in>>) \cup Range(<<in>>) \subseteq ids
  <2> HIDE DEF in, out
  <2> QED
    BY Tuples
<1>3. /\ Range(<<in>>) \cup Range(<<out, loss, NoFlow>>) \subseteq ids
      /\ Range(<<in, NoFlow>>) \cup Range(<<out, NoFlow>>) \subseteq ids
  <2> HIDE DEF in, out, loss
  <2> QED
    BY Tuples
<1> HIDE DEF in, out, loss, ids
<1>4. kind \in {"ConstantLoad", "ScheduleBasedLoad", "ConstantSource", "ScheduleBasedSource",
                "Mux", "PassThrough", "Switch", "Store"} \cup Converters \cup Movers
  BY DEF WithPart
<1>5. CASE kind = "ConstantLoad"
  <2>1. r = AddPart(m, kind, <<in>>, <<>>, tag, param)
    BY <1>5 DEF AddToModel, AddConstantLoad, in, Converters, Movers
  <2>2. kind \in WithPart \ Movers
    BY <1>5 DEF Movers
  <2> QED
    BY <1>1, <1>2, <2>1, <2>2, AddingPlain
<1>6. CASE kind = "ScheduleBasedLoad"
  <2>1. r = AddPart(m, kind, <<in>>, <<>>, tag, param)
    BY <1>6 DEF AddToModel, AddScheduleBasedLoad, in, Converters, Movers
  <2>2. kind \in WithPart \ Movers
    BY <1>6 DEF Movers
  <2> QED
    BY <1>1, <1>2, <2>1, <2>2, AddingPlain
<1>7. CASE kind = "ConstantSource"
  <2>1. r = AddPart(m, kind, <<>>, <<out>>, tag, param)
    BY <1>7 DEF AddToModel, AddConstantSource, out, Converters, Movers
  <2>2. kind \in WithPart \ Movers
    BY <1>7 DEF Movers
  <2> QED
    BY <1>1, <1>2, <2>1, <2>2, AddingPlain
<1>8. CASE kind = "ScheduleBasedSource"
  <2>1. r = AddScheduleBasedSource(m, param, out, tag)
    BY <1>8 DEF AddToModel, out, Converters, Movers
  <2>2. AddedOne(m, r, kind, <<>>, <<out>>, tag, param)
    BY <1>8, <2>1, AddingScheduleBasedSource
  <2> QED
    BY <1>1, <1>2, <2>2 DEF AddedWith
<1>9. CASE kind = "Mux"
  <2> DEFINE ins == [i \in 1 .. f.num_inflows |-> out]
             outs == [i \in 1 .. f.num_outflows |-> out]
  <2>1. r = AddPart(m, kind, ins, outs, tag, param)
    BY <1>9 DEF AddToModel, AddMux, out, Converters, Movers
  <2>2. kind \in WithPart \ Movers
    BY <1>9 DEF Movers
  <2>3. f.num_inflows \in Nat /\ f.num_outflows \in Nat
    BY <1>9
  <2>4. IsSeq(ins) /\ IsSeq(outs)
    BY <2>3 DEF IsSeq
  <2>5. Range(ins) \cup Range(outs) \subseteq ids
    BY DEF Range, ids
  <2> HIDE DEF ins, outs
  <2> QED
    BY <1>1, <2>1, <2>2, <2>4, <2>5, AddingPlain
<1>10. CASE kind = "PassThrough"
  <2>1. r = AddPart(m, kind, <<in>>, <<in>>, tag, param)
    BY <1>10 DEF AddToModel, AddPassThrough, in, Converters, Movers
  <2>2. kind \in WithPart \ Movers
    BY <1>10 DEF Movers
  <2> QED
    BY <1>1, <1>2, <2>1, <2>2, AddingPlain
<1>11. CASE kind = "Switch"
  <2>1. r = AddPart(m, kind, <<in, in>>, <<in>>, tag, param)
    BY <1>11 DEF AddToModel, AddSwitch, in, Converters, Movers
  <2>2. kind \in WithPart \ Movers
    BY <1>11 DEF Movers
  <2> QED
    BY <1>1, <1>2, <2>1, <2>2, AddingPlain
<1>12. CASE kind = "Store"
  <2>2. kind \in WithPart \ Movers
    BY <1>12 DEF Movers
  <2>1. CASE param.roundTrip[1] = param.roundTrip[2]
    <3>1. r = AddPart(m, kind, <<in>>, <<in>>, tag, param)
      BY <1>12, <2>1 DEF AddToModel, AddStore, in, Converters, Movers
    <3> QED
      BY <1>1, <1>2, <2>2, <3>1, AddingPlain
  <2>3. CASE param.roundTrip[1] # param.roundTrip[2]
    <3>1. r = AddStoreWithWasteflow(m, param, in, tag)
      BY <1>12, <2>3 DEF AddToModel, in, Converters, Movers
    <3>2. AddedOne(m, r, kind, <<in>>, <<in>>, tag, param)
      BY <1>12, <3>1, AddingStoreWithWasteflow
    <3> QED
      BY <1>1, <1>2, <3>2 DEF AddedWith
  <2> QED
    BY <2>1, <2>3
<1>13. CASE kind \in Converters
  <2>1. r = AddConverter(m, kind, param, in, out, loss, tag)
    BY <1>13 DEF AddToModel, in, out, loss, Converters, Movers
  <2>2. AddedOne(m, r, kind, <<in>>, <<out, loss, NoFlow>>, tag, param)
    BY <1>13, <2>1, AddingConverter
  <2> QED
    BY <1>1, <1>3, <2>2 DEF AddedWith
<1>14. CASE kind \in Movers
  <2>1. r = AddMover(m, kind, param, in, out, tag)
    BY <1>14 DEF AddToModel, in, out, Converters, Movers
  <2>2. AddedOne(m, r, kind, <<in, NoFlow>>, <<out, NoFlow>>, tag, param)
    BY <1>14, <2>1, AddingMover
  <2> QED
    BY <1>1, <1>3, <2>2 DEF AddedWith
<1> QED
  BY <1>4, <1>5, <1>6, <1>7, <1>8, <1>9, <1>10, <1>11, <1>12, <1>13, <1>14

LEMMA FlowIdIs ==
  ASSUME NEW flows, IsSeq(flows), NEW f, NoFlow \in DOMAIN flows, NEW field,
         field \in {"inflow", "outflow", "lossflow"}
  PROVE  FlowId(RegisterFlows(flows, f), f, field) \in DOMAIN RegisterFlows(flows, f)
<1> DEFINE r == RegisterFlows(flows, f)
<1>1. /\ Grown(flows, r)
      /\ Range(r) = Range(flows)
           \cup {f[x] : x \in {"outflow", "inflow", "flow", "lossflow"} \cap DOMAIN f}
  BY RegisteringFlows
<1> HIDE DEF r
<1>2. NoFlow \in DOMAIN r
  BY <1>1, SeqLength DEF Grown
<1>3. ASSUME NEW x \in {"outflow", "inflow", "flow", "lossflow"} \cap DOMAIN f
      PROVE  IdOfName(r, f[x]) \in DOMAIN r
  <2>1. f[x] \in Range(r) /\ IsSeq(r)
    BY <1>1 DEF Grown
  <2> QED
    BY <2>1, NameIs
<1>4. FlowId(r, f, field) \in DOMAIN r
  <2>1. CASE field # "lossflow" /\ "flow" \in DOMAIN f
    BY <1>3, <2>1 DEF FlowId
  <2>2. CASE ~ (field # "lossflow" /\ "flow" \in DOMAIN f) /\ field \in DOMAIN f
    BY <1>3, <2>2 DEF FlowId
  <2>3. CASE ~ (field # "lossflow" /\ "flow" \in DOMAIN f) /\ field \notin DOMAIN f
    BY <1>2, <2>3 DEF FlowId
  <2> QED
    BY <2>1, <2>2, <2>3
<1> QED
  BY <1>4 DEF r

-----------------------------------------------------------------------------
(* Further settings of a component leave everything else as it is.         *)
Settled(m, r) ==
  /\ ModelInv(r) /\ r.conns = m.conns
  /\ Len(r.comps) = Len(m.comps) /\ DOMAIN r.comps = DOMAIN m.comps
  /\ \A j \in DOMAIN m.comps :
       /\ r.comps[j].kind = m.comps[j].kind /\ r.comps[j].idx = m.comps[j].idx
       /\ r.comps[j].inflows = m.comps[j].inflows /\ r.comps[j].outflows = m.comps[j].outflows
       /\ r.comps[j].tag = m.comps[j].tag
  /\ \A k \in WithPart :
       /\ Len(r.parts[k]) = Len(m.parts[k]) /\ DOMAIN r.parts[k] = DOMAIN m.parts[k]
       /\ \A i \in DOMAIN m.parts[k] :
            /\ r.parts[k][i].conn = m.parts[k][i].conn
            /\ DOMAIN r.parts[k][i].param = DOMAIN m.parts[k][i].param
            /\ \A x \in DOMAIN m.parts[k][i].param :
                 x # "limit" => r.parts[k][i].param[x] = m.parts[k][i].param[x]

LEMMA SettledAgain ==
  ASSUME NEW a, NEW b, NEW c, Settled(a, b), Settled(b, c)
  PROVE  Settled(a, c)
<1>1. /\ ModelInv(c) /\ c.conns = a.conns
      /\ Len(c.comps) = Len(a.comps) /\ DOMAIN c.comps = DOMAIN a.comps
  BY DEF Settled
<1>2. \A j \in DOMAIN a.comps :
       /\ c.comps[j].kind = a.comps[j].kind /\ c.comps[j].idx = a.comps[j].idx
       /\ c.comps[j].inflows = a.comps[j].inflows /\ c.comps[j].outflows = a.comps[j].outflows
       /\ c.comps[j].tag = a.comps[j].tag
  BY DEF Settled
<1>3. ASSUME NEW k \in WithPart
      PROVE  /\ Len(c.parts[k]) = Len(a.parts[k]) /\ DOMAIN c.parts[k] = DOMAIN a.parts[k]
             /\ \A i \in DOMAIN a.parts[k] :
                  /\ c.parts[k][i].conn = a.parts[k][i].conn
                  /\ DOMAIN c.parts[k][i].param = DOMAIN a.parts[k][i].param
                  /\ \A x \in DOMAIN a.parts[k][i].param :
                       x # "limit" => c.parts[k][i].param[x] = a.parts[k][i].param[x]
  BY DEF Settled
<1> QED
  BY <1>1, <1>2, <1>3 DEF Settled

LEMMA SettledItself ==
  ASSUME NEW m, ModelInv(m)
  PROVE  Settled(m, m)
BY DEF Settled

SameComponent(comp, old) ==
  /\ CompShape(comp)
  /\ comp.kind = old.kind /\ comp.idx = old.idx /\ comp.tag = old.tag
  /\ comp.inflows = old.inflows /\ comp.outflows = old.outflows

LEMMA Resetting ==
  ASSUME NEW m, ModelInv(m), NEW comps, IsSeq(comps), Len(comps) = Len(m.comps),
         DOMAIN comps = DOMAIN m.comps,
         \A j \in DOMAIN m.comps : SameComponent(comps[j], m.comps[j]),
         NEW r, r = [comps |-> comps, parts |-> m.parts, conns |-> m.conns, group |-> m.group]
  PROVE  Settled(m, r)
<1>1. /\ r = [comps |-> r.comps, parts |-> r.parts, conns |-> r.conns, group |-> r.group]
      /\ r.comps = comps /\ r.parts = m.parts /\ r.conns = m.conns /\ r.group = m.group
  OBVIOUS
<1>2. \A j \in DOMAIN m.comps :
        /\ comps[j].kind = m.comps[j].kind /\ comps[j].idx = m.comps[j].idx
        /\ comps[j].inflows = m.comps[j].inflows /\ comps[j].outflows = m.comps[j].outflows
        /\ comps[j].tag = m.comps[j].tag /\ CompShape(comps[j])
  BY DEF SameComponent
<1>3. ModelShape(r)
  <2>1. /\ IsSeq(m.conns) /\ m.parts = [kind \in WithPart |-> m.parts[kind]]
        /\ \A kind \in WithPart : IsSeq(m.parts[kind])
        /\ \A kind \in WithPart : \A i \in DOMAIN m.parts[kind] : PartShape(m.parts[kind][i])
    BY DEF ModelInv, ModelShape
  <2>2. m.group = [j \in DOMAIN m.group |-> m.group[j]] /\ DOMAIN m.group \subseteq DOMAIN m.comps
    BY DEF ModelInv, ModelShape
  <2>3. /\ IsSeq(r.comps) /\ IsSeq(r.conns)
        /\ \A j \in DOMAIN r.comps : CompShape(r.comps[j])
    BY <1>1, <1>2, <2>1
  <2>4. r.group = [j \in DOMAIN r.group |-> r.group[j]] /\ DOMAIN r.group \subseteq DOMAIN r.comps
    BY <1>1, <2>2
  <2> QED
    BY <1>1, <2>1, <2>3, <2>4 DEF ModelShape
<1>4. Placed(r)
  BY <1>1, <1>2 DEF ModelInv, Placed
<1>5. MoversAlike(r) /\ SlotsHold(r)
  BY <1>1 DEF ModelInv, MoversAlike, SlotsHold
<1> QED
  BY <1>1, <1>2, <1>3, <1>4, <1>5 DEF Settled, ModelInv

LEMMA ResettingOne ==
  ASSUME NEW m, ModelInv(m), NEW id \in DOMAIN m.comps, NEW comp, SameComponent(comp, m.comps[id]),
         NEW r, r = [comps |-> [m.comps EXCEPT ![id] = comp], parts |-> m.parts,
                     conns |-> m.conns, group |-> m.group]
  PROVE  Settled(m, r)
<1> DEFINE comps == [m.comps EXCEPT ![id] = comp]
<1>1. IsSeq(m.comps) /\ \A j \in DOMAIN m.comps : CompShape(m.comps[j])
  BY DEF ModelInv, ModelShape
<1>2. /\ IsSeq(comps) /\ Len(comps) = Len(m.comps) /\ DOMAIN comps = DOMAIN m.comps
      /\ \A i \in DOMAIN m.comps : comps[i] = IF i = id THEN comp ELSE m.comps[i]
  BY <1>1, Replacing
<1>3. r = [comps |-> comps, parts |-> m.parts, conns |-> m.conns, group |-> m.group]
  OBVIOUS
<1> HIDE DEF comps
<1>4. \A j \in DOMAIN m.comps : SameComponent(comps[j], m.comps[j])
  BY <1>1, <1>2 DEF SameComponent
<1> QED
  BY <1>2, <1>3, <1>4, Resetting

LEMMA SettingReport ==
  ASSUME NEW m, ModelInv(m), NEW id \in DOMAIN m.comps, NEW v
  PROVE  Settled(m, SetReporting(m, id, v))
<1> DEFINE ids == {id} \cup BoundaryOf(m, id)
           comps == [i \in DOMAIN m.comps |-> IF i \in ids THEN [m.comps[i] EXCEPT !.report = v]
                                              ELSE m.comps[i]]
           r == SetReporting(m, id, v)
<1>1. /\ m = [comps |-> m.comps, parts |-> m.parts, conns |-> m.conns, group |-> m.group]
      /\ IsSeq(m.comps) /\ \A j \in DOMAIN m.comps : CompShape(m.comps[j])
  BY DEF ModelInv, ModelShape
<1>2. r = [m EXCEPT !.comps = comps]
  BY DEF SetReporting
<1> HIDE DEF ids, r
<1>3. ASSUME NEW j \in DOMAIN m.comps
      PROVE  SameComponent(comps[j], m.comps[j])
  <2> DEFINE old == m.comps[j]
             comp == [old EXCEPT !.report = v]
  <2>1. CompShape(old) /\ comps[j] = IF j \in ids THEN comp ELSE old
    BY <1>1
  <2> HIDE DEF old, comps
  <2>2. old = [kind |-> old.kind, idx |-> old.idx, inflows |-> old.inflows,
               outflows |-> old.outflows, tag |-> old.tag, age |-> old.age, report |-> old.report]
    BY <2>1 DEF CompShape
  <2>3. comp = [kind |-> old.kind, idx |-> old.idx, inflows |-> old.inflows,
                outflows |-> old.outflows, tag |-> old.tag, age |-> old.age, report |-> v]
    BY <2>2
  <2>4. SameComponent(comp, old)
    BY <2>1, <2>3 DEF CompShape, SameComponent
  <2>5. SameComponent(old, old)
    BY <2>1 DEF SameComponent
  <2> HIDE DEF comp
  <2> QED
    BY <2>1, <2>4, <2>5 DEF old
<1>4. IsSeq(comps) /\ Len(comps) = Len(m.comps) /\ DOMAIN comps = DOMAIN m.comps
  <2>1. DOMAIN comps = DOMAIN m.comps /\ comps = [i \in DOMAIN comps |-> comps[i]]
    OBVIOUS
  <2> HIDE DEF comps
  <2> QED
    BY <1>1, <2>1 DEF IsSeq
<1> HIDE DEF comps
<1>5. r = [comps |-> comps, parts |-> m.parts, conns |-> m.conns, group |-> m.group]
  BY <1>1, <1>2
<1>6. Settled(m, r)
  BY <1>3, <1>4, <1>5, Resetting
<1> QED
  BY <1>6 DEF r

LEMMA SettingAge ==
  ASSUME NEW m, ModelInv(m), NEW id \in DOMAIN m.comps, NEW v
  PROVE  Settled(m, SetInitialAge(m, id, v))
<1> DEFINE old == m.comps[id]
           comp == [old EXCEPT !.age = v]
           r == SetInitialAge(m, id, v)
<1>1. /\ m = [comps |-> m.comps, parts |-> m.parts, conns |-> m.conns, group |-> m.group]
      /\ CompShape(old)
  BY DEF ModelInv, ModelShape
<1>2. old = [kind |-> old.kind, idx |-> old.idx, inflows |-> old.inflows,
             outflows |-> old.outflows, tag |-> old.tag, age |-> old.age, report |-> old.report]
  BY <1>1 DEF CompShape
<1> HIDE DEF old
<1>3. comp = [kind |-> old.kind, idx |-> old.idx, inflows |-> old.inflows,
              outflows |-> old.outflows, tag |-> old.tag, age |-> v, report |-> old.report]
  BY <1>2
<1>4. SameComponent(comp, old)
  BY <1>1, <1>3 DEF CompShape, SameComponent
<1>5. r = [comps |-> [m.comps EXCEPT ![id] = comp], parts |-> m.parts,
           conns |-> m.conns, group |-> m.group]
  BY <1>1 DEF SetInitialAge, old
<1> HIDE DEF comp, r
<1>6. Settled(m, r)
  BY <1>4, <1>5, ResettingOne DEF old
<1> QED
  BY <1>6 DEF r

LEMMA SettingGroup ==
  ASSUME NEW m, ModelInv(m), NEW id \in DOMAIN m.comps, NEW name
  PROVE  Settled(m, AddComponentToGroup(m, id, name))
<1> DEFINE group == [i \in DOMAIN m.group \cup {id} |-> IF i \in DOMAIN m.group THEN m.group[i] ELSE name]
           r == AddComponentToGroup(m, id, name)
<1>1. m = [comps |-> m.comps, parts |-> m.parts, conns |-> m.conns, group |-> m.group]
  BY DEF ModelInv, ModelShape
<1>2. r = [m EXCEPT !.group = group]
  BY DEF AddComponentToGroup
<1>3. group = [i \in DOMAIN group |-> group[i]] /\ DOMAIN group \subseteq DOMAIN m.comps
  BY DEF ModelInv, ModelShape
<1> HIDE DEF group, r
<1>4. /\ r = [comps |-> r.comps, parts |-> r.parts, conns |-> r.conns, group |-> r.group]
      /\ r.comps = m.comps /\ r.parts = m.parts /\ r.conns = m.conns /\ r.group = group
  BY <1>1, <1>2
<1>5. ModelShape(r)
  BY <1>3, <1>4 DEF ModelInv, ModelShape
<1>6. Placed(r) /\ MoversAlike(r) /\ SlotsHold(r)
  BY <1>4 DEF ModelInv, Placed, MoversAlike, SlotsHold
<1>7. Settled(m, r)
  BY <1>4, <1>5, <1>6 DEF Settled, ModelInv
<1> QED
  BY <1>7 DEF r

LEMMA SettingLimit ==
  ASSUME NEW m, ModelInv(m), NEW id \in DOMAIN m.comps, NEW f
  PROVE  Settled(m, SetLimit(m, id, f))
<1> DEFINE comp == m.comps[id]
           k == comp.kind
           n == comp.idx
           r == SetLimit(m, id, f)
           v == {Amount(f.max_outflow)}
           parts == [m.parts EXCEPT ![k][n].param.limit = v]
<1>1. CASE "max_outflow" \notin DOMAIN f
  BY <1>1, SettledItself DEF SetLimit
<1>2. CASE "max_outflow" \in DOMAIN f
  <2>1. m = [comps |-> m.comps, parts |-> m.parts, conns |-> m.conns, group |-> m.group]
    BY DEF ModelInv, ModelShape
  <2>2. r = [m EXCEPT !.parts = parts]
    BY <1>2 DEF SetLimit
  <2>3. m.parts = [kind \in WithPart |-> m.parts[kind]]
    BY DEF ModelInv, ModelShape
  <2>4. k \in WithPart \cup Boundary /\ (k \in WithPart => n \in DOMAIN m.parts[k])
    BY DEF ModelInv, Placed
  <2>5. \A kind \in WithPart : IsSeq(m.parts[kind])
    BY DEF ModelInv, ModelShape
  <2>6. \A kind \in WithPart : \A i \in DOMAIN m.parts[kind] : PartShape(m.parts[kind][i])
    BY DEF ModelInv, ModelShape
  <2> DEFINE old == m.parts[k][n]
             part == [old EXCEPT !.param.limit = v]
             list == [m.parts[k] EXCEPT ![n] = part]
  <2>7. parts = [m.parts EXCEPT ![k] = list]
    BY <2>3
  <2> HIDE DEF v, parts, r, list
  <2>8. /\ parts = [kind \in WithPart |-> parts[kind]]
        /\ \A kind \in WithPart : parts[kind] = IF kind = k THEN list ELSE m.parts[kind]
    BY <2>3, <2>7
  <2>9. ASSUME k \in WithPart
        PROVE  /\ part = [param |-> part.param, conn |-> part.conn] /\ part.conn = old.conn
               /\ DOMAIN part.param = DOMAIN old.param
               /\ \A x \in DOMAIN old.param : x # "limit" => part.param[x] = old.param[x]
    <3>1. PartShape(old)
      BY <2>4, <2>6, <2>9
    <3> HIDE DEF old
    <3>2. old = [param |-> old.param, conn |-> old.conn]
      BY <3>1 DEF PartShape
    <3>3. part = [param |-> [old.param EXCEPT !.limit = v], conn |-> old.conn]
      BY <3>2
    <3> QED
      BY <3>3
  <2> HIDE DEF part, old
  <2>10. ASSUME k \in WithPart
         PROVE  /\ IsSeq(list) /\ Len(list) = Len(m.parts[k]) /\ DOMAIN list = DOMAIN m.parts[k]
                /\ \A i \in DOMAIN m.parts[k] : list[i] = IF i = n THEN part ELSE m.parts[k][i]
    BY <2>4, <2>5, <2>10, Replacing DEF list
  <2>11. k \in WithPart => PartShape(part)
    <3>1. SUFFICES ASSUME k \in WithPart
                   PROVE  PartShape(part)
      OBVIOUS
    <3>2. PartShape(old)
      BY <2>4, <2>6, <3>1 DEF old
    <3> QED
      BY <2>9, <3>1, <3>2 DEF PartShape
  <2>12. \A kind \in WithPart :
           /\ IsSeq(parts[kind])
           /\ Len(parts[kind]) = Len(m.parts[kind]) /\ DOMAIN parts[kind] = DOMAIN m.parts[kind]
           /\ \A i \in DOMAIN m.parts[kind] :
                /\ PartShape(parts[kind][i])
                /\ parts[kind][i].conn = m.parts[kind][i].conn
                /\ DOMAIN parts[kind][i].param = DOMAIN m.parts[kind][i].param
                /\ \A x \in DOMAIN m.parts[kind][i].param :
                     x # "limit" => parts[kind][i].param[x] = m.parts[kind][i].param[x]
    <3> TAKE kind \in WithPart
    <3>1. CASE kind = k
      <4>1. parts[k] = list /\ k \in WithPart
        BY <2>8, <3>1
      <4>2. \A i \in DOMAIN m.parts[k] : list[i] = IF i = n THEN part ELSE m.parts[k][i]
        BY <2>10, <4>1
      <4>3. old = m.parts[k][n]
        BY DEF old
      <4> QED
        BY <2>6, <2>9, <2>10, <2>11, <3>1, <4>1, <4>2, <4>3
    <3>2. CASE kind # k
      <4>1. parts[kind] = m.parts[kind]
        BY <2>8, <3>2
      <4> QED
        BY <2>5, <2>6, <4>1
    <3> QED
      BY <3>1, <3>2
  <2>13. /\ r = [comps |-> r.comps, parts |-> r.parts, conns |-> r.conns, group |-> r.group]
         /\ r.comps = m.comps /\ r.parts = parts /\ r.conns = m.conns /\ r.group = m.group
    BY <2>1, <2>2
  <2> HIDE DEF comp, k, n
  <2>14. ModelShape(r)
    BY <2>8, <2>12, <2>13 DEF ModelInv, ModelShape
  <2>15. Placed(r)
    BY <2>12, <2>13 DEF ModelInv, Placed
  <2>16. MoversAlike(r)
    BY <2>12, <2>13 DEF ModelInv, MoversAlike, WithPart
  <2>17. SlotsHold(r)
    BY <2>12, <2>13 DEF ModelInv, SlotsHold
  <2>18. Settled(m, r)
    BY <2>12, <2>13, <2>14, <2>15, <2>16, <2>17 DEF Settled, ModelInv
  <2> QED
    BY <2>18 DEF r
<1> QED
  BY <1>1, <1>2

LEMMA Settling ==
  ASSUME NEW m, ModelInv(m), NEW id \in DOMAIN m.comps, NEW f, NEW table
  PROVE  Settled(m, Settle(SetLimit(m, id, f), id, f, table))
<1> DEFINE limited == SetLimit(m, id, f)
           reported == SetReporting(limited, id, f.report)
           aged == IF "initial_age" \in DOMAIN table
                     THEN SetInitialAge(reported, id, f.initial_age) ELSE reported
           r == IF "group" \in DOMAIN table THEN AddComponentToGroup(aged, id, f.group) ELSE aged
<1>1. Settle(limited, id, f, table) = r
  BY DEF Settle
<1>2. Settled(m, limited)
  BY SettingLimit
<1> HIDE DEF limited
<1>3. ModelInv(limited) /\ id \in DOMAIN limited.comps
  BY <1>2 DEF Settled
<1>4. Settled(limited, reported)
  BY <1>3, SettingReport
<1> HIDE DEF reported
<1>5. ModelInv(reported) /\ id \in DOMAIN reported.comps
  BY <1>3, <1>4 DEF Settled
<1>6. Settled(reported, aged)
  BY <1>5, SettingAge, SettledItself
<1> HIDE DEF aged
<1>7. ModelInv(aged) /\ id \in DOMAIN aged.comps
  BY <1>5, <1>6 DEF Settled
<1>8. Settled(aged, r)
  BY <1>7, SettingGroup, SettledItself
<1> HIDE DEF r
<1>9. Settled(m, aged)
  BY <1>2, <1>4, <1>6, SettledAgain
<1>10. Settled(m, r)
  BY <1>8, <1>9, SettledAgain
<1> QED
  BY <1>1, <1>10 DEF limited

-----------------------------------------------------------------------------
(* What is true of a Simulation that is being read.                        *)
SimShape(q) ==
  /\ q = [info |-> q.info, flows |-> q.flows, loads |-> q.loads, model |-> q.model,
          dists |-> q.dists, failureModes |-> q.failureModes, links |-> q.links,
          fragilityModes |-> q.fragilityModes, fragilities |-> q.fragilities,
          scenarios |-> q.scenarios, offsets |-> q.offsets, intensities |-> q.intensities,
          levels |-> q.levels, curves |-> q.curves, linear |-> q.linear, tabular |-> q.tabular]
  /\ q.levels = [p \in DOMAIN q.levels |-> q.levels[p]]

SimLists(q) ==
  /\ IsSeq(q.flows) /\ IsSeq(q.loads) /\ IsSeq(q.dists) /\ IsSeq(q.failureModes)
  /\ IsSeq(q.links) /\ IsSeq(q.fragilityModes) /\ IsSeq(q.fragilities) /\ IsSeq(q.scenarios)
  /\ IsSeq(q.offsets) /\ IsSeq(q.intensities) /\ IsSeq(q.curves) /\ IsSeq(q.linear)
  /\ IsSeq(q.tabular)

SimUnique(q) ==
  /\ UniqueTags(q.loads) /\ UniqueTags(q.dists) /\ UniqueTags(q.failureModes)
  /\ UniqueTags(q.fragilityModes) /\ UniqueTags(q.scenarios) /\ UniqueTags(q.curves)

FlowsHold(m, flows) ==
  /\ NoFlow \in DOMAIN flows
  /\ \A id \in DOMAIN m.comps :
       Range(m.comps[id].inflows) \cup Range(m.comps[id].outflows) \subseteq DOMAIN flows

LinksHold(links, comps, modes) ==
  \A i \in DOMAIN links : links[i][1] \in DOMAIN comps /\ links[i][2] \in DOMAIN modes

LevelsHold(q) == DOMAIN q.levels \subseteq (DOMAIN q.scenarios) \X (DOMAIN q.intensities)

SimInv(q) ==
  /\ SimShape(q) /\ SimLists(q) /\ SimUnique(q)
  /\ ModelInv(q.model) /\ FlowsHold(q.model, q.flows)
  /\ LinksHold(q.links, q.model.comps, q.failureModes)
  /\ LinksHold(q.fragilities, q.model.comps, q.fragilityModes)
  /\ LevelsHold(q)

Joined(a, b, r) ==
  /\ Grown(a, r)
  /\ \A i \in DOMAIN r \ DOMAIN a : \E j \in DOMAIN b : r[i] = b[j]

LEMMA Joining ==
  ASSUME NEW a, IsSeq(a), NEW b, IsSeq(b), NEW r, r = a \o b
  PROVE  IsSeq(r) /\ Len(r) = Len(a) + Len(b) /\ Joined(a, b, r)
<1> DEFINE S == Range(a) \cup Range(b)
<1>1. /\ Len(a) \in Nat /\ DOMAIN a = 1 .. Len(a) /\ a \in Seq(Range(a))
      /\ Len(b) \in Nat /\ DOMAIN b = 1 .. Len(b) /\ b \in Seq(Range(b))
  BY SeqLength
<1>2. a \in Seq(S) /\ b \in Seq(S)
  <2>1. Range(a) \subseteq S /\ Range(b) \subseteq S
    OBVIOUS
  <2> HIDE DEF S
  <2> QED
    BY <1>1, <2>1
<1> HIDE DEF S
<1>3. /\ r \in Seq(S) /\ Len(r) = Len(a) + Len(b)
      /\ \A i \in 1 .. Len(a) + Len(b) : r[i] = IF i <= Len(a) THEN a[i] ELSE b[i - Len(a)]
  BY <1>2
<1>4. DOMAIN r = 1 .. Len(a) + Len(b) /\ IsSeq(r)
  <2>1. IsSeq(r)
    BY <1>3, SeqIs
  <2> QED
    BY <1>3, <2>1, SeqLength
<1>5. \A i \in DOMAIN a : r[i] = a[i]
  BY <1>1, <1>3
<1>6. Grown(a, r)
  BY <1>1, <1>3, <1>4, <1>5 DEF Grown
<1>7. ASSUME NEW i \in DOMAIN r \ DOMAIN a
      PROVE  \E j \in DOMAIN b : r[i] = b[j]
  <2>1. i \in 1 .. Len(a) + Len(b) /\ i \notin 1 .. Len(a)
    BY <1>1, <1>4
  <2>2. i - Len(a) \in 1 .. Len(b) /\ ~ (i <= Len(a))
    BY <1>1, <2>1
  <2>3. r[i] = b[i - Len(a)]
    BY <1>3, <2>1, <2>2
  <2> QED
    BY <1>1, <2>2, <2>3
<1> QED
  BY <1>3, <1>4, <1>6, <1>7 DEF Joined

LEMMA MappedIs ==
  ASSUME NEW x, IsSeq(x), NEW y, y = [i \in DOMAIN x |-> y[i]]
  PROVE  IsSeq(y) /\ DOMAIN y = DOMAIN x /\ Len(y) = Len(x)
<1>1. Len(x) \in Nat /\ DOMAIN x = 1 .. Len(x)
  BY SeqLength
<1>2. DOMAIN y = DOMAIN x
  OBVIOUS
<1>3. IsSeq(y)
  BY <1>1, <1>2 DEF IsSeq
<1>4. Len(y) \in Nat /\ DOMAIN y = 1 .. Len(y)
  BY <1>3, SeqLength
<1> QED
  BY <1>1, <1>2, <1>3, <1>4

GrownDomain(a, b) == Grown(a, b) /\ DOMAIN a \subseteq DOMAIN b

LEMMA GrownHas ==
  ASSUME NEW a, NEW b, Grown(a, b)
  PROVE  GrownDomain(a, b)
BY SeqLength DEF Grown, GrownDomain

(* A component's scenarios are registered, without an offset.              *)
LEMMA RegisteringScenarioTags ==
  ASSUME NEW q, SimInv(q), NEW tags, IsSeq(tags), NEW r, r = RegisterScenarioTags(q, tags)
  PROVE  /\ SimInv(r)
         /\ r = [q EXCEPT !.scenarios = r.scenarios, !.offsets = r.offsets]
         /\ GrownDomain(q.scenarios, r.scenarios)
         /\ TagsOf(r.scenarios) = TagsOf(q.scenarios) \cup Range(tags)
<1> DEFINE unknown == [i \in DOMAIN tags |-> UnknownScenario(tags[i])]
           scenarios == RegisterTags(q.scenarios, unknown)
           more == [i \in 1 .. Len(scenarios) - Len(q.scenarios) |-> 0]
           offsets == q.offsets \o more
<1>1. r = [q EXCEPT !.scenarios = scenarios, !.offsets = offsets]
  BY DEF RegisterScenarioTags, RegisterAll
<1>2. IsSeq(unknown) /\ DOMAIN unknown = DOMAIN tags /\ Len(unknown) = Len(tags)
  BY MappedIs
<1>3. IsSeq(q.scenarios) /\ IsSeq(q.offsets) /\ UniqueTags(q.scenarios)
  BY DEF SimInv, SimLists, SimUnique
<1>4. TagsAdded(q.scenarios, unknown, Len(unknown), scenarios)
  <2> HIDE DEF unknown
  <2> QED
    BY <1>2, <1>3, RegisteringTags
<1>5. {unknown[i].tag : i \in 1 .. Len(unknown)} = Range(tags)
  <2>1. 1 .. Len(unknown) = DOMAIN tags
    BY <1>2, SeqLength
  <2>2. \A i \in DOMAIN tags : unknown[i].tag = tags[i]
    BY DEF UnknownScenario
  <2> HIDE DEF unknown
  <2> QED
    BY <2>1, <2>2 DEF Range
<1> HIDE DEF unknown, scenarios
<1>6. /\ Grown(q.scenarios, scenarios) /\ UniqueTags(scenarios)
      /\ TagsOf(scenarios) = TagsOf(q.scenarios) \cup Range(tags)
  BY <1>3, <1>4, <1>5 DEF TagsAdded
<1>7. GrownDomain(q.scenarios, scenarios) /\ IsSeq(scenarios)
  BY <1>6, GrownHas DEF Grown
<1>8. IsSeq(more)
  <2>1. Len(scenarios) - Len(q.scenarios) \in Nat
    BY <1>3, <1>6, <1>7, SeqLength DEF Grown
  <2> QED
    BY <2>1 DEF IsSeq
<1> HIDE DEF more
<1>9. IsSeq(offsets)
  BY <1>3, <1>8, Joining
<1> HIDE DEF offsets
<1>10. /\ SimShape(r)
       /\ r.scenarios = scenarios /\ r.offsets = offsets
       /\ r.info = q.info /\ r.flows = q.flows /\ r.loads = q.loads /\ r.model = q.model
       /\ r.dists = q.dists /\ r.failureModes = q.failureModes /\ r.links = q.links
       /\ r.fragilityModes = q.fragilityModes /\ r.fragilities = q.fragilities
       /\ r.intensities = q.intensities /\ r.levels = q.levels /\ r.curves = q.curves
       /\ r.linear = q.linear /\ r.tabular = q.tabular
  BY <1>1 DEF SimInv, SimShape
<1>11. SimLists(r)
  BY <1>7, <1>9, <1>10 DEF SimInv, SimLists
<1>12. SimUnique(r)
  BY <1>6, <1>10 DEF SimInv, SimUnique
<1>13. LevelsHold(r)
  BY <1>7, <1>10 DEF SimInv, LevelsHold, GrownDomain
<1>14. SimInv(r)
  BY <1>10, <1>11, <1>12, <1>13 DEF SimInv
<1> QED
  BY <1>1, <1>6, <1>7, <1>10, <1>14

(* What a component does to the Simulation.                                *)
OthersStay(q, r) ==
  /\ r.info = q.info /\ r.loads = q.loads /\ r.dists = q.dists /\ r.intensities = q.intensities
  /\ r.levels = q.levels /\ r.curves = q.curves /\ r.linear = q.linear /\ r.tabular = q.tabular

(* Modes a component names are registered, and linked to the component.    *)
LEMMA LinkingFailureModes ==
  ASSUME NEW q, SimInv(q), NEW id \in DOMAIN q.model.comps, NEW tags, IsSeq(tags),
         NEW r, r = LinkFailureModes(q, id, tags)
  PROVE  /\ SimInv(r)
         /\ OthersStay(q, r) /\ r.scenarios = q.scenarios /\ r.model = q.model
         /\ GrownDomain(q.failureModes, r.failureModes)
         /\ TagsOf(r.failureModes) = TagsOf(q.failureModes) \cup Range(tags)
<1> DEFINE unknown == [i \in DOMAIN tags |-> UnknownFailure(tags[i])]
           modes == RegisterTags(q.failureModes, unknown)
           more == [i \in DOMAIN tags |-> <<id, IdOf(modes, tags[i])>>]
           links == q.links \o more
<1>1. r = [q EXCEPT !.failureModes = modes, !.links = links]
  BY DEF LinkFailureModes, RegisterAll
<1>2. IsSeq(unknown) /\ DOMAIN unknown = DOMAIN tags /\ Len(unknown) = Len(tags)
  BY MappedIs
<1>3. IsSeq(q.failureModes) /\ IsSeq(q.links) /\ UniqueTags(q.failureModes)
  BY DEF SimInv, SimLists, SimUnique
<1>4. TagsAdded(q.failureModes, unknown, Len(unknown), modes)
  <2> HIDE DEF unknown
  <2> QED
    BY <1>2, <1>3, RegisteringTags
<1>5. {unknown[i].tag : i \in 1 .. Len(unknown)} = Range(tags)
  <2>1. 1 .. Len(unknown) = DOMAIN tags
    BY <1>2, SeqLength
  <2>2. \A i \in DOMAIN tags : unknown[i].tag = tags[i]
    BY DEF UnknownFailure
  <2> HIDE DEF unknown
  <2> QED
    BY <2>1, <2>2 DEF Range
<1> HIDE DEF unknown, modes
<1>6. /\ Grown(q.failureModes, modes) /\ UniqueTags(modes)
      /\ TagsOf(modes) = TagsOf(q.failureModes) \cup Range(tags)
  BY <1>3, <1>4, <1>5 DEF TagsAdded
<1>7. GrownDomain(q.failureModes, modes) /\ IsSeq(modes)
  BY <1>6, GrownHas DEF Grown
<1>8. IsSeq(more) /\ DOMAIN more = DOMAIN tags
  BY MappedIs
<1>9. \A j \in DOMAIN more : more[j][1] = id /\ more[j][2] \in DOMAIN modes
  <2> TAKE j \in DOMAIN more
  <2>1. tags[j] \in TagsOf(modes)
    BY <1>6 DEF Range
  <2>2. IdOf(modes, tags[j]) \in DOMAIN modes
    BY <1>7, <2>1, IdIs
  <2> QED
    BY <2>2
<1> HIDE DEF more
<1> HIDE DEF links
<1>10. IsSeq(links) /\ Joined(q.links, more, links)
  BY <1>3, <1>8, Joining DEF links
<1>11. LinksHold(links, q.model.comps, modes)
  <2> SUFFICES ASSUME NEW i \in DOMAIN links
               PROVE  links[i][1] \in DOMAIN q.model.comps /\ links[i][2] \in DOMAIN modes
    BY DEF LinksHold
  <2>1. CASE i \in DOMAIN q.links
    <3>1. links[i] = q.links[i]
      BY <1>10, <2>1 DEF Grown, Joined
    <3> QED
      BY <1>7, <2>1, <3>1 DEF SimInv, LinksHold, GrownDomain
  <2>2. CASE i \notin DOMAIN q.links
    BY <1>9, <1>10, <2>2 DEF Joined
  <2> QED
    BY <2>1, <2>2
<1>12. /\ SimShape(r)
       /\ r.failureModes = modes /\ r.links = links
       /\ r.info = q.info /\ r.flows = q.flows /\ r.loads = q.loads
       /\ r.model = q.model /\ r.dists = q.dists
       /\ r.fragilityModes = q.fragilityModes /\ r.fragilities = q.fragilities
       /\ r.scenarios = q.scenarios /\ r.offsets = q.offsets
       /\ r.intensities = q.intensities /\ r.levels = q.levels
       /\ r.curves = q.curves /\ r.linear = q.linear /\ r.tabular = q.tabular
  BY <1>1 DEF SimInv, SimShape
<1>13. SimLists(r)
  BY <1>7, <1>10, <1>12 DEF SimInv, SimLists
<1>14. SimUnique(r)
  BY <1>6, <1>12 DEF SimInv, SimUnique
<1>15. LevelsHold(r)
  BY <1>12 DEF SimInv, LevelsHold
<1>16. LinksHold(r.fragilities, r.model.comps, r.fragilityModes)
  BY <1>12 DEF SimInv
<1>17. SimInv(r)
  BY <1>11, <1>12, <1>13, <1>14, <1>15, <1>16 DEF SimInv
<1>18. OthersStay(q, r)
  BY <1>12 DEF OthersStay
<1> QED
  BY <1>6, <1>7, <1>12, <1>17, <1>18

LEMMA LinkingFragilities ==
  ASSUME NEW q, SimInv(q), NEW id \in DOMAIN q.model.comps, NEW tags, IsSeq(tags),
         NEW r, r = LinkFragilities(q, id, tags)
  PROVE  /\ SimInv(r)
         /\ OthersStay(q, r) /\ r.scenarios = q.scenarios /\ r.model = q.model
         /\ GrownDomain(q.fragilityModes, r.fragilityModes)
         /\ TagsOf(r.fragilityModes) = TagsOf(q.fragilityModes) \cup Range(tags)
<1> DEFINE unknown == [i \in DOMAIN tags |-> UnknownFragility(tags[i])]
           modes == RegisterTags(q.fragilityModes, unknown)
           more == [i \in DOMAIN tags |-> <<id, IdOf(modes, tags[i])>>]
           links == q.fragilities \o more
<1>1. r = [q EXCEPT !.fragilityModes = modes, !.fragilities = links]
  BY DEF LinkFragilities, RegisterAll
<1>2. IsSeq(unknown) /\ DOMAIN unknown = DOMAIN tags /\ Len(unknown) = Len(tags)
  BY MappedIs
<1>3. IsSeq(q.fragilityModes) /\ IsSeq(q.fragilities) /\ UniqueTags(q.fragilityModes)
  BY DEF SimInv, SimLists, SimUnique
<1>4. TagsAdded(q.fragilityModes, unknown, Len(unknown), modes)
  <2> HIDE DEF unknown
  <2> QED
    BY <1>2, <1>3, RegisteringTags
<1>5. {unknown[i].tag : i \in 1 .. Len(unknown)} = Range(tags)
  <2>1. 1 .. Len(unknown) = DOMAIN tags
    BY <1>2, SeqLength
  <2>2. \A i \in DOMAIN tags : unknown[i].tag = tags[i]
    BY DEF UnknownFragility
  <2> HIDE DEF unknown
  <2> QED
    BY <2>1, <2>2 DEF Range
<1> HIDE DEF unknown, modes
<1>6. /\ Grown(q.fragilityModes, modes) /\ UniqueTags(modes)
      /\ TagsOf(modes) = TagsOf(q.fragilityModes) \cup Range(tags)
  BY <1>3, <1>4, <1>5 DEF TagsAdded
<1>7. GrownDomain(q.fragilityModes, modes) /\ IsSeq(modes)
  BY <1>6, GrownHas DEF Grown
<1>8. IsSeq(more) /\ DOMAIN more = DOMAIN tags
  BY MappedIs
<1>9. \A j \in DOMAIN more : more[j][1] = id /\ more[j][2] \in DOMAIN modes
  <2> TAKE j \in DOMAIN more
  <2>1. tags[j] \in TagsOf(modes)
    BY <1>6 DEF Range
  <2>2. IdOf(modes, tags[j]) \in DOMAIN modes
    BY <1>7, <2>1, IdIs
  <2> QED
    BY <2>2
<1> HIDE DEF more
<1> HIDE DEF links
<1>10. IsSeq(links) /\ Joined(q.fragilities, more, links)
  BY <1>3, <1>8, Joining DEF links
<1>11. LinksHold(links, q.model.comps, modes)
  <2> SUFFICES ASSUME NEW i \in DOMAIN links
               PROVE  links[i][1] \in DOMAIN q.model.comps /\ links[i][2] \in DOMAIN modes
    BY DEF LinksHold
  <2>1. CASE i \in DOMAIN q.fragilities
    <3>1. links[i] = q.fragilities[i]
      BY <1>10, <2>1 DEF Grown, Joined
    <3> QED
      BY <1>7, <2>1, <3>1 DEF SimInv, LinksHold, GrownDomain
  <2>2. CASE i \notin DOMAIN q.fragilities
    BY <1>9, <1>10, <2>2 DEF Joined
  <2> QED
    BY <2>1, <2>2
<1>12. /\ SimShape(r)
       /\ r.fragilityModes = modes /\ r.fragilities = links
       /\ r.info = q.info /\ r.flows = q.flows /\ r.loads = q.loads
       /\ r.model = q.model /\ r.dists = q.dists /\ r.failureModes = q.failureModes
       /\ r.links = q.links /\ r.scenarios = q.scenarios /\ r.offsets = q.offsets
       /\ r.intensities = q.intensities /\ r.levels = q.levels
       /\ r.curves = q.curves /\ r.linear = q.linear /\ r.tabular = q.tabular
  BY <1>1 DEF SimInv, SimShape
<1>13. SimLists(r)
  BY <1>7, <1>10, <1>12 DEF SimInv, SimLists
<1>14. SimUnique(r)
  BY <1>6, <1>12 DEF SimInv, SimUnique
<1>15. LevelsHold(r)
  BY <1>12 DEF SimInv, LevelsHold
<1>16. LinksHold(r.links, r.model.comps, r.failureModes)
  BY <1>12 DEF SimInv
<1>17. SimInv(r)
  BY <1>11, <1>12, <1>13, <1>14, <1>15, <1>16 DEF SimInv
<1>18. OthersStay(q, r)
  BY <1>12 DEF OthersStay
<1> QED
  BY <1>6, <1>7, <1>12, <1>17, <1>18

LEMMA ChangingModel ==
  ASSUME NEW q, SimInv(q), NEW m, ModelInv(m), NEW flows, IsSeq(flows), FlowsHold(m, flows),
         DOMAIN q.model.comps \subseteq DOMAIN m.comps,
         NEW r, r = [q EXCEPT !.flows = flows, !.model = m]
  PROVE  SimInv(r)
<1>1. /\ SimShape(r)
      /\ r.flows = flows /\ r.model = m
      /\ r.info = q.info /\ r.loads = q.loads /\ r.dists = q.dists
      /\ r.failureModes = q.failureModes /\ r.links = q.links
      /\ r.fragilityModes = q.fragilityModes /\ r.fragilities = q.fragilities
      /\ r.scenarios = q.scenarios /\ r.offsets = q.offsets
      /\ r.intensities = q.intensities /\ r.levels = q.levels
      /\ r.curves = q.curves /\ r.linear = q.linear /\ r.tabular = q.tabular
  BY DEF SimInv, SimShape
<1>2. SimLists(r)
  BY <1>1 DEF SimInv, SimLists
<1>3. SimUnique(r)
  BY <1>1 DEF SimInv, SimUnique
<1>4. LevelsHold(r)
  BY <1>1 DEF SimInv, LevelsHold
<1>5. LinksHold(r.links, r.model.comps, r.failureModes)
  BY <1>1 DEF SimInv, LinksHold
<1>6. LinksHold(r.fragilities, r.model.comps, r.fragilityModes)
  BY <1>1 DEF SimInv, LinksHold
<1> QED
  BY <1>1, <1>2, <1>3, <1>4, <1>5, <1>6 DEF SimInv

LEMMA FlowsOfAdded ==
  ASSUME NEW m, ModelInv(m), NEW flows, NEW more, Grown(flows, more), FlowsHold(m, flows),
         NEW kind, NEW ids, ids \subseteq DOMAIN more, NEW tag, NEW param,
         NEW r, AddedWith(m, r, kind, ids, tag, param)
  PROVE  FlowsHold(r, more)
<1>1. GrownDomain(flows, more)
  BY GrownHas
<1>2. NoFlow \in DOMAIN more
  BY <1>1 DEF FlowsHold, GrownDomain
<1>3. PICK inflows, outflows :
        /\ AddedOne(m, r, kind, inflows, outflows, tag, param)
        /\ Range(inflows) \cup Range(outflows) \subseteq ids
  BY DEF AddedWith
<1>4. Grown(m.comps, r.comps)
  BY <1>3 DEF AddedOne, MadeOf
<1>5. PICK id \in DOMAIN r.comps \ DOMAIN m.comps :
       /\ r.comps[id] = [kind |-> kind, idx |-> IndexIn(m, kind), inflows |-> inflows,
                         outflows |-> outflows, tag |-> tag, age |-> 0, report |-> TRUE]
       /\ \A j \in DOMAIN r.comps \ DOMAIN m.comps : j # id =>
            /\ r.comps[j].kind \in Boundary /\ r.comps[j].tag = ""
            /\ Range(r.comps[j].inflows) \cup Range(r.comps[j].outflows) \subseteq {NoFlow}
  BY <1>3 DEF AddedOne
<1>6. r.comps[id].inflows = inflows /\ r.comps[id].outflows = outflows
  <2>1. r.comps[id] = [kind |-> kind, idx |-> IndexIn(m, kind), inflows |-> inflows,
                       outflows |-> outflows, tag |-> tag, age |-> 0, report |-> TRUE]
    BY <1>5
  <2> QED
    BY ONLY <2>1
<1>7. ASSUME NEW j \in DOMAIN r.comps
      PROVE  Range(r.comps[j].inflows) \cup Range(r.comps[j].outflows) \subseteq DOMAIN more
  <2>1. CASE j \in DOMAIN m.comps
    <3>1. r.comps[j] = m.comps[j]
      BY <1>4, <2>1 DEF Grown
    <3>2. Range(m.comps[j].inflows) \cup Range(m.comps[j].outflows) \subseteq DOMAIN flows
      BY <2>1 DEF FlowsHold
    <3> QED
      BY <1>1, <3>1, <3>2 DEF GrownDomain
  <2>2. CASE j = id
    BY <1>3, <1>6, <2>2
  <2>3. CASE j \notin DOMAIN m.comps /\ j # id
    BY <1>2, <1>5, <2>3
  <2> QED
    BY <2>1, <2>2, <2>3
<1> QED
  BY <1>2, <1>7 DEF FlowsHold

LEMMA AddedHasTag ==
  ASSUME NEW m, ModelInv(m), NEW r, NEW kind, NEW ids, NEW tag, NEW param,
         AddedWith(m, r, kind, ids, tag, param)
  PROVE  /\ ModelInv(r) /\ MadeOf(m, r)
         /\ DOMAIN m.comps \subseteq DOMAIN r.comps
         /\ IdOf(r.comps, tag) \in DOMAIN r.comps /\ r.comps[IdOf(r.comps, tag)].tag = tag
<1>3. PICK inflows, outflows : AddedOne(m, r, kind, inflows, outflows, tag, param)
  BY DEF AddedWith
<1>4. Grown(m.comps, r.comps) /\ ModelInv(r) /\ MadeOf(m, r)
  BY <1>3 DEF AddedOne, MadeOf
<1>5. PICK id \in DOMAIN r.comps \ DOMAIN m.comps :
       r.comps[id] = [kind |-> kind, idx |-> IndexIn(m, kind), inflows |-> inflows,
                      outflows |-> outflows, tag |-> tag, age |-> 0, report |-> TRUE]
  BY <1>3 DEF AddedOne
<1>6. r.comps[id].tag = tag
  BY <1>5
<1>7. tag \in TagsOf(r.comps)
  BY <1>6 DEF TagsOf
<1>8. GrownDomain(m.comps, r.comps) /\ IsSeq(r.comps)
  BY <1>4, GrownHas DEF Grown
<1> QED
  BY <1>4, <1>7, <1>8, IdIs DEF GrownDomain

NameChosen(table, key) == CHOOSE tags \in Names(table, key) : TRUE

MadeWith(made, kind, f, param, tag) ==
  \E flows : made = AddToModel(s.model, kind, f, param, flows, tag)

LEMMA ComponentRead ==
  ASSUME SimInv(s), NEW tag, NEW kind \in WithPart, NEW f, NEW table, NEW tags, IsSeq(tags),
         kind = "Mux" => f.num_inflows \in Nat /\ f.num_outflows \in Nat,
         IsSeq(NameChosen(table, "failure_modes")), IsSeq(NameChosen(table, "fragility_modes")),
         NEW r, r = WithComponent(tag, kind, f, table, tags)
  PROVE  /\ SimInv(r) /\ OthersStay(s, r)
         /\ GrownDomain(s.scenarios, r.scenarios)
         /\ \E made, ids, byScenario :
              /\ AddedWith(s.model, made, kind, ids, tag, Param(kind, f, byScenario))
              /\ MadeWith(made, kind, f, Param(kind, f, byScenario), tag)
              /\ Settled(made, r.model)
<1> DEFINE flows == RegisterFlows(s.flows, f)
           known == RegisterScenarioTags(s, tags)
           byScenario == [id \in {IdOf(known.scenarios, x) : x \in DOMAIN Scheduled(f)} |->
                            IdOf(s.loads, Scheduled(f)[known.scenarios[id].tag])]
           param == Param(kind, f, byScenario)
           made == AddToModel(s.model, kind, f, param, flows, tag)
           id == IdOf(made.comps, tag)
           model == Settle(SetLimit(made, id, f), id, f, table)
           settled == [known EXCEPT !.flows = flows, !.model = model]
           failing == NameChosen(table, "failure_modes")
           fragile == NameChosen(table, "fragility_modes")
           linked == LinkFailureModes(settled, id, failing)
           ids == {FlowId(flows, f, field) : field \in {"inflow", "outflow", "lossflow"}} \cup {NoFlow}
<1>1. r = LinkFragilities(linked, id, fragile)
  BY DEF WithComponent, NameChosen
<1> HIDE DEF byScenario
<1>2. /\ SimInv(known)
      /\ known = [s EXCEPT !.scenarios = known.scenarios, !.offsets = known.offsets]
      /\ GrownDomain(s.scenarios, known.scenarios)
  BY RegisteringScenarioTags
<1> HIDE DEF known, param
<1>3. ModelInv(s.model) /\ IsSeq(s.flows) /\ FlowsHold(s.model, s.flows)
  BY DEF SimInv, SimLists
<1>4. AddedWith(s.model, made, kind, ids, tag, param)
  <2> HIDE DEF made, flows
  <2>1. made = AddToModel(s.model, kind, f, param, flows, tag)
    BY DEF made
  <2> QED
    BY <1>3, <2>1, AddingToModel
<1>22. MadeWith(made, kind, f, param, tag)
  BY DEF MadeWith, made
<1>5. Grown(s.flows, flows) /\ ids \subseteq DOMAIN flows
  <2>1. NoFlow \in DOMAIN s.flows
    BY <1>3 DEF FlowsHold
  <2>2. Grown(s.flows, flows)
    BY <1>3, RegisteringFlows
  <2>3. \A field \in {"inflow", "outflow", "lossflow"} : FlowId(flows, f, field) \in DOMAIN flows
    BY <1>3, <2>1, FlowIdIs
  <2>4. NoFlow \in DOMAIN flows
    <3> HIDE DEF flows
    <3> QED
      BY <2>1, <2>2, GrownHas DEF GrownDomain
  <2> HIDE DEF flows
  <2> QED
    BY <2>2, <2>3, <2>4
<1> HIDE DEF made, ids, flows
<1>6. /\ ModelInv(made) /\ MadeOf(s.model, made)
      /\ DOMAIN s.model.comps \subseteq DOMAIN made.comps
      /\ id \in DOMAIN made.comps
  BY <1>3, <1>4, AddedHasTag
<1>7. FlowsHold(made, flows)
  BY <1>3, <1>4, <1>5, FlowsOfAdded
<1> HIDE DEF id
<1>8. Settled(made, model)
  BY <1>6, Settling
<1> HIDE DEF model
<1>9. ModelInv(model) /\ DOMAIN model.comps = DOMAIN made.comps /\ FlowsHold(model, flows)
  BY <1>7, <1>8 DEF Settled, FlowsHold
<1>10. /\ SimShape(s) /\ known.info = s.info /\ known.loads = s.loads /\ known.dists = s.dists
       /\ known.intensities = s.intensities /\ known.levels = s.levels
       /\ known.curves = s.curves /\ known.linear = s.linear /\ known.tabular = s.tabular
       /\ known.model = s.model
  BY <1>2 DEF SimInv, SimShape
<1>11. SimInv(settled)
  <2>1. IsSeq(flows) /\ DOMAIN known.model.comps \subseteq DOMAIN model.comps
    BY <1>5, <1>6, <1>9, <1>10 DEF Grown
  <2> QED
    BY <1>2, <1>9, <2>1, ChangingModel
<1>12. /\ OthersStay(known, settled) /\ settled.scenarios = known.scenarios
       /\ settled.model = model
  BY <1>2 DEF OthersStay, SimInv, SimShape
<1> HIDE DEF settled, failing, fragile
<1>13. id \in DOMAIN settled.model.comps
  BY <1>6, <1>9, <1>12
<1>14. IsSeq(failing) /\ IsSeq(fragile)
  BY DEF failing, fragile
<1>15. /\ SimInv(linked) /\ OthersStay(settled, linked)
       /\ linked.scenarios = settled.scenarios /\ linked.model = settled.model
  <2>1. linked = LinkFailureModes(settled, id, failing)
    BY DEF linked
  <2> HIDE DEF linked
  <2> QED
    BY <1>11, <1>13, <1>14, <2>1, LinkingFailureModes
<1> HIDE DEF linked
<1>17. id \in DOMAIN linked.model.comps
  BY <1>13, <1>15
<1>18. SimInv(r) /\ OthersStay(linked, r) /\ r.scenarios = linked.scenarios /\ r.model = linked.model
  <2>1. SimInv(linked)
    BY <1>15
  <2> QED
    BY <1>1, <1>14, <1>17, <2>1, LinkingFragilities
<1>20. OthersStay(s, r) /\ r.scenarios = known.scenarios /\ r.model = model
  BY <1>10, <1>12, <1>15, <1>18 DEF OthersStay
<1>21. /\ AddedWith(s.model, made, kind, ids, tag, Param(kind, f, byScenario))
       /\ MadeWith(made, kind, f, Param(kind, f, byScenario), tag)
       /\ Settled(made, r.model)
  BY <1>4, <1>8, <1>20, <1>22 DEF param
<1> QED
  BY <1>2, <1>18, <1>20, <1>21

(* What the sections that follow do to it.                                 *)
LEMMA ChangingInfo ==
  ASSUME NEW q, SimInv(q), NEW info,
         NEW r, r = [q EXCEPT !.info = info]
  PROVE  SimInv(r)
<1>1. /\ SimShape(r)
      /\ r.info = info
      /\ r.flows = q.flows /\ r.loads = q.loads /\ r.model = q.model
      /\ r.dists = q.dists /\ r.failureModes = q.failureModes /\ r.links = q.links
      /\ r.fragilityModes = q.fragilityModes /\ r.fragilities = q.fragilities
      /\ r.scenarios = q.scenarios /\ r.offsets = q.offsets
      /\ r.intensities = q.intensities /\ r.levels = q.levels
      /\ r.curves = q.curves /\ r.linear = q.linear /\ r.tabular = q.tabular
  BY DEF SimInv, SimShape
<1>2. SimLists(r)
  BY <1>1 DEF SimInv, SimLists
<1>3. SimUnique(r)
  BY <1>1 DEF SimInv, SimUnique
<1>4. LevelsHold(r)
  BY <1>1 DEF SimInv, LevelsHold, GrownDomain
<1>5. LinksHold(r.links, r.model.comps, r.failureModes)
  BY <1>1 DEF SimInv, LinksHold
<1>6. LinksHold(r.fragilities, r.model.comps, r.fragilityModes)
  BY <1>1 DEF SimInv, LinksHold
<1> QED
  BY <1>1, <1>2, <1>3, <1>4, <1>5, <1>6 DEF SimInv

LEMMA ChangingLoads ==
  ASSUME NEW q, SimInv(q), NEW loads, IsSeq(loads), UniqueTags(loads),
         NEW r, r = [q EXCEPT !.loads = loads]
  PROVE  SimInv(r)
<1>1. /\ SimShape(r)
      /\ r.loads = loads
      /\ r.info = q.info /\ r.flows = q.flows /\ r.model = q.model
      /\ r.dists = q.dists /\ r.failureModes = q.failureModes /\ r.links = q.links
      /\ r.fragilityModes = q.fragilityModes /\ r.fragilities = q.fragilities
      /\ r.scenarios = q.scenarios /\ r.offsets = q.offsets
      /\ r.intensities = q.intensities /\ r.levels = q.levels
      /\ r.curves = q.curves /\ r.linear = q.linear /\ r.tabular = q.tabular
  BY DEF SimInv, SimShape
<1>2. SimLists(r)
  BY <1>1 DEF SimInv, SimLists
<1>3. SimUnique(r)
  BY <1>1 DEF SimInv, SimUnique
<1>4. LevelsHold(r)
  BY <1>1 DEF SimInv, LevelsHold, GrownDomain
<1>5. LinksHold(r.links, r.model.comps, r.failureModes)
  BY <1>1 DEF SimInv, LinksHold
<1>6. LinksHold(r.fragilities, r.model.comps, r.fragilityModes)
  BY <1>1 DEF SimInv, LinksHold
<1> QED
  BY <1>1, <1>2, <1>3, <1>4, <1>5, <1>6 DEF SimInv

LEMMA ChangingDists ==
  ASSUME NEW q, SimInv(q), NEW dists, IsSeq(dists), UniqueTags(dists),
         NEW r, r = [q EXCEPT !.dists = dists]
  PROVE  SimInv(r)
<1>1. /\ SimShape(r)
      /\ r.dists = dists
      /\ r.info = q.info /\ r.flows = q.flows /\ r.loads = q.loads
      /\ r.model = q.model /\ r.failureModes = q.failureModes /\ r.links = q.links
      /\ r.fragilityModes = q.fragilityModes /\ r.fragilities = q.fragilities
      /\ r.scenarios = q.scenarios /\ r.offsets = q.offsets
      /\ r.intensities = q.intensities /\ r.levels = q.levels
      /\ r.curves = q.curves /\ r.linear = q.linear /\ r.tabular = q.tabular
  BY DEF SimInv, SimShape
<1>2. SimLists(r)
  BY <1>1 DEF SimInv, SimLists
<1>3. SimUnique(r)
  BY <1>1 DEF SimInv, SimUnique
<1>4. LevelsHold(r)
  BY <1>1 DEF SimInv, LevelsHold, GrownDomain
<1>5. LinksHold(r.links, r.model.comps, r.failureModes)
  BY <1>1 DEF SimInv, LinksHold
<1>6. LinksHold(r.fragilities, r.model.comps, r.fragilityModes)
  BY <1>1 DEF SimInv, LinksHold
<1> QED
  BY <1>1, <1>2, <1>3, <1>4, <1>5, <1>6 DEF SimInv

LEMMA ChangingFailureModes ==
  ASSUME NEW q, SimInv(q), NEW modes, IsSeq(modes), UniqueTags(modes),
         DOMAIN q.failureModes \subseteq DOMAIN modes,
         NEW r, r = [q EXCEPT !.failureModes = modes]
  PROVE  SimInv(r)
<1>1. /\ SimShape(r)
      /\ r.failureModes = modes
      /\ r.info = q.info /\ r.flows = q.flows /\ r.loads = q.loads
      /\ r.model = q.model /\ r.dists = q.dists /\ r.links = q.links
      /\ r.fragilityModes = q.fragilityModes /\ r.fragilities = q.fragilities
      /\ r.scenarios = q.scenarios /\ r.offsets = q.offsets
      /\ r.intensities = q.intensities /\ r.levels = q.levels
      /\ r.curves = q.curves /\ r.linear = q.linear /\ r.tabular = q.tabular
  BY DEF SimInv, SimShape
<1>2. SimLists(r)
  BY <1>1 DEF SimInv, SimLists
<1>3. SimUnique(r)
  BY <1>1 DEF SimInv, SimUnique
<1>4. LevelsHold(r)
  BY <1>1 DEF SimInv, LevelsHold, GrownDomain
<1>5. LinksHold(r.links, r.model.comps, r.failureModes)
  BY <1>1 DEF SimInv, LinksHold
<1>6. LinksHold(r.fragilities, r.model.comps, r.fragilityModes)
  BY <1>1 DEF SimInv, LinksHold
<1> QED
  BY <1>1, <1>2, <1>3, <1>4, <1>5, <1>6 DEF SimInv

LEMMA ChangingFragilityModes ==
  ASSUME NEW q, SimInv(q), NEW modes, IsSeq(modes), UniqueTags(modes),
         DOMAIN q.fragilityModes \subseteq DOMAIN modes,
         NEW curves, IsSeq(curves), UniqueTags(curves),
         NEW r, r = [q EXCEPT !.curves = curves, !.fragilityModes = modes]
  PROVE  SimInv(r)
<1>1. /\ SimShape(r)
      /\ r.curves = curves /\ r.fragilityModes = modes
      /\ r.info = q.info /\ r.flows = q.flows /\ r.loads = q.loads
      /\ r.model = q.model /\ r.dists = q.dists /\ r.failureModes = q.failureModes
      /\ r.links = q.links /\ r.fragilities = q.fragilities
      /\ r.scenarios = q.scenarios /\ r.offsets = q.offsets
      /\ r.intensities = q.intensities /\ r.levels = q.levels
      /\ r.linear = q.linear /\ r.tabular = q.tabular
  BY DEF SimInv, SimShape
<1>2. SimLists(r)
  BY <1>1 DEF SimInv, SimLists
<1>3. SimUnique(r)
  BY <1>1 DEF SimInv, SimUnique
<1>4. LevelsHold(r)
  BY <1>1 DEF SimInv, LevelsHold, GrownDomain
<1>5. LinksHold(r.links, r.model.comps, r.failureModes)
  BY <1>1 DEF SimInv, LinksHold
<1>6. LinksHold(r.fragilities, r.model.comps, r.fragilityModes)
  BY <1>1 DEF SimInv, LinksHold
<1> QED
  BY <1>1, <1>2, <1>3, <1>4, <1>5, <1>6 DEF SimInv

LEMMA ChangingScenarios ==
  ASSUME NEW q, SimInv(q), NEW scenarios, IsSeq(scenarios), UniqueTags(scenarios),
         DOMAIN q.scenarios \subseteq DOMAIN scenarios, NEW offsets, IsSeq(offsets),
         NEW r, r = [q EXCEPT !.scenarios = scenarios, !.offsets = offsets]
  PROVE  SimInv(r)
<1>1. /\ SimShape(r)
      /\ r.scenarios = scenarios /\ r.offsets = offsets
      /\ r.info = q.info /\ r.flows = q.flows /\ r.loads = q.loads
      /\ r.model = q.model /\ r.dists = q.dists /\ r.failureModes = q.failureModes
      /\ r.links = q.links /\ r.fragilityModes = q.fragilityModes
      /\ r.fragilities = q.fragilities /\ r.intensities = q.intensities
      /\ r.levels = q.levels /\ r.curves = q.curves /\ r.linear = q.linear
      /\ r.tabular = q.tabular
  BY DEF SimInv, SimShape
<1>2. SimLists(r)
  BY <1>1 DEF SimInv, SimLists
<1>3. SimUnique(r)
  BY <1>1 DEF SimInv, SimUnique
<1>4. LevelsHold(r)
  BY <1>1 DEF SimInv, LevelsHold, GrownDomain
<1>5. LinksHold(r.links, r.model.comps, r.failureModes)
  BY <1>1 DEF SimInv, LinksHold
<1>6. LinksHold(r.fragilities, r.model.comps, r.fragilityModes)
  BY <1>1 DEF SimInv, LinksHold
<1> QED
  BY <1>1, <1>2, <1>3, <1>4, <1>5, <1>6 DEF SimInv

LEMMA ChangingIntensities ==
  ASSUME NEW q, SimInv(q), NEW intensities, IsSeq(intensities),
         NEW levels, levels = [p \in DOMAIN levels |-> levels[p]],
         DOMAIN levels \subseteq (DOMAIN q.scenarios) \X (DOMAIN intensities),
         NEW r, r = [q EXCEPT !.intensities = intensities, !.levels = levels]
  PROVE  SimInv(r)
<1>1. /\ SimShape(r)
      /\ r.intensities = intensities /\ r.levels = levels
      /\ r.info = q.info /\ r.flows = q.flows /\ r.loads = q.loads
      /\ r.model = q.model /\ r.dists = q.dists /\ r.failureModes = q.failureModes
      /\ r.links = q.links /\ r.fragilityModes = q.fragilityModes
      /\ r.fragilities = q.fragilities /\ r.scenarios = q.scenarios
      /\ r.offsets = q.offsets /\ r.curves = q.curves /\ r.linear = q.linear
      /\ r.tabular = q.tabular
  BY DEF SimInv, SimShape
<1>2. SimLists(r)
  BY <1>1 DEF SimInv, SimLists
<1>3. SimUnique(r)
  BY <1>1 DEF SimInv, SimUnique
<1>4. LevelsHold(r)
  BY <1>1 DEF SimInv, LevelsHold, GrownDomain
<1>5. LinksHold(r.links, r.model.comps, r.failureModes)
  BY <1>1 DEF SimInv, LinksHold
<1>6. LinksHold(r.fragilities, r.model.comps, r.fragilityModes)
  BY <1>1 DEF SimInv, LinksHold
<1> QED
  BY <1>1, <1>2, <1>3, <1>4, <1>5, <1>6 DEF SimInv

LEMMA ChangingLinear ==
  ASSUME NEW q, SimInv(q), NEW curves, IsSeq(curves), UniqueTags(curves),
         NEW list, IsSeq(list),
         NEW r, r = [q EXCEPT !.linear = list, !.curves = curves]
  PROVE  SimInv(r)
<1>1. /\ SimShape(r)
      /\ r.linear = list /\ r.curves = curves
      /\ r.info = q.info /\ r.flows = q.flows /\ r.loads = q.loads
      /\ r.model = q.model /\ r.dists = q.dists /\ r.failureModes = q.failureModes
      /\ r.links = q.links /\ r.fragilityModes = q.fragilityModes
      /\ r.fragilities = q.fragilities /\ r.scenarios = q.scenarios
      /\ r.offsets = q.offsets /\ r.intensities = q.intensities
      /\ r.levels = q.levels /\ r.tabular = q.tabular
  BY DEF SimInv, SimShape
<1>2. SimLists(r)
  BY <1>1 DEF SimInv, SimLists
<1>3. SimUnique(r)
  BY <1>1 DEF SimInv, SimUnique
<1>4. LevelsHold(r)
  BY <1>1 DEF SimInv, LevelsHold, GrownDomain
<1>5. LinksHold(r.links, r.model.comps, r.failureModes)
  BY <1>1 DEF SimInv, LinksHold
<1>6. LinksHold(r.fragilities, r.model.comps, r.fragilityModes)
  BY <1>1 DEF SimInv, LinksHold
<1> QED
  BY <1>1, <1>2, <1>3, <1>4, <1>5, <1>6 DEF SimInv

LEMMA ChangingTabular ==
  ASSUME NEW q, SimInv(q), NEW curves, IsSeq(curves), UniqueTags(curves),
         NEW list, IsSeq(list),
         NEW r, r = [q EXCEPT !.tabular = list, !.curves = curves]
  PROVE  SimInv(r)
<1>1. /\ SimShape(r)
      /\ r.tabular = list /\ r.curves = curves
      /\ r.info = q.info /\ r.flows = q.flows /\ r.loads = q.loads
      /\ r.model = q.model /\ r.dists = q.dists /\ r.failureModes = q.failureModes
      /\ r.links = q.links /\ r.fragilityModes = q.fragilityModes
      /\ r.fragilities = q.fragilities /\ r.scenarios = q.scenarios
      /\ r.offsets = q.offsets /\ r.intensities = q.intensities
      /\ r.levels = q.levels /\ r.linear = q.linear
  BY DEF SimInv, SimShape
<1>2. SimLists(r)
  BY <1>1 DEF SimInv, SimLists
<1>3. SimUnique(r)
  BY <1>1 DEF SimInv, SimUnique
<1>4. LevelsHold(r)
  BY <1>1 DEF SimInv, LevelsHold, GrownDomain
<1>5. LinksHold(r.links, r.model.comps, r.failureModes)
  BY <1>1 DEF SimInv, LinksHold
<1>6. LinksHold(r.fragilities, r.model.comps, r.fragilityModes)
  BY <1>1 DEF SimInv, LinksHold
<1> QED
  BY <1>1, <1>2, <1>3, <1>4, <1>5, <1>6 DEF SimInv

-----------------------------------------------------------------------------
(* The inductive invariant of reading an input: a distribution that is     *)
(* there has been read, and a scenario that has been read is there.        *)
BeforeDists == {"simulation_info", "loads", "components"}
AfterScenarios == {"intensity", "fragility_curve", "ready", "checked"}

LoadInv ==
  /\ input \in Inputs
  /\ phase \in Range(Sections) \cup {"checked", "rejected", "crashed"}
  /\ phase \in Range(Sections) => left \subseteq NamesIn(phase)
  /\ SimInv(s)
  /\ phase \in BeforeDists => TagsOf(s.dists) = {}
  /\ phase = "dist" => TagsOf(s.dists) \cap left = {}
  /\ phase = "scenarios" => DOMAIN input.scenarios \ left \subseteq TagsOf(s.scenarios)
  /\ phase \in AfterScenarios => DOMAIN input.scenarios \subseteq TagsOf(s.scenarios)

LEMMA SectionsAre ==
  /\ DOMAIN Sections = 1 .. 11
  /\ Range(Sections) = {"simulation_info", "loads", "components", "dist", "failure_mode",
       "fragility_mode", "network", "scenarios", "intensity", "fragility_curve", "ready"}
<1>1. DOMAIN Sections = 1 .. 11
  BY DEF Sections
<1>2. 1 .. 11 = {1, 2, 3, 4, 5, 6, 7, 8, 9, 10, 11}
  OBVIOUS
<1>3. Range(Sections) = {Sections[i] : i \in {1, 2, 3, 4, 5, 6, 7, 8, 9, 10, 11}}
  BY <1>1, <1>2 DEF Range
<1>4. {Sections[i] : i \in {1, 2, 3, 4, 5, 6, 7, 8, 9, 10, 11}} =
        {Sections[1], Sections[2], Sections[3], Sections[4], Sections[5], Sections[6], Sections[7],
         Sections[8], Sections[9], Sections[10], Sections[11]}
  OBVIOUS
<1> QED
  BY <1>1, <1>3, <1>4 DEF Sections

(* The section that follows each section.                                  *)
Follows(section) == Sections[(CHOOSE j \in DOMAIN Sections : Sections[j] = section) + 1]

LEMMA FollowsAre ==
  /\ Follows("simulation_info") = "loads" /\ Follows("loads") = "components"
  /\ Follows("components") = "dist" /\ Follows("dist") = "failure_mode"
  /\ Follows("failure_mode") = "fragility_mode" /\ Follows("fragility_mode") = "network"
  /\ Follows("network") = "scenarios" /\ Follows("scenarios") = "intensity"
  /\ Follows("intensity") = "fragility_curve" /\ Follows("fragility_curve") = "ready"
<1>1. /\ Sections[1] = "simulation_info" /\ Sections[2] = "loads" /\ Sections[3] = "components"
      /\ Sections[4] = "dist" /\ Sections[5] = "failure_mode" /\ Sections[6] = "fragility_mode"
      /\ Sections[7] = "network" /\ Sections[8] = "scenarios" /\ Sections[9] = "intensity"
      /\ Sections[10] = "fragility_curve" /\ Sections[11] = "ready"
  BY DEF Sections
<1>2. DOMAIN Sections = {1, 2, 3, 4, 5, 6, 7, 8, 9, 10, 11}
  <2>1. 1 .. 11 = {1, 2, 3, 4, 5, 6, 7, 8, 9, 10, 11}
    OBVIOUS
  <2> QED
    BY <2>1, SectionsAre
<1>3. ASSUME NEW i \in 1 .. 10
      PROVE  Follows(Sections[i]) = Sections[i + 1]
  <2>1. \A j \in DOMAIN Sections : Sections[j] = Sections[i] => j = i
    BY <1>1, <1>2
  <2>2. i \in DOMAIN Sections
    BY SectionsAre
  <2>3. (CHOOSE j \in DOMAIN Sections : Sections[j] = Sections[i]) = i
    BY <2>1, <2>2
  <2> QED
    BY <2>3 DEF Follows
<1>4. /\ Follows(Sections[1]) = Sections[2] /\ Follows(Sections[2]) = Sections[3]
      /\ Follows(Sections[3]) = Sections[4] /\ Follows(Sections[4]) = Sections[5]
      /\ Follows(Sections[5]) = Sections[6] /\ Follows(Sections[6]) = Sections[7]
      /\ Follows(Sections[7]) = Sections[8] /\ Follows(Sections[8]) = Sections[9]
      /\ Follows(Sections[9]) = Sections[10] /\ Follows(Sections[10]) = Sections[11]
  BY <1>3
<1> QED
  BY <1>1, <1>4

LEMMA NextSectionIs ==
  ASSUME NextSection
  PROVE  \/ Fail("rejected")
         \/ /\ phase \in Range(Sections) \ {"ready"} /\ left = {}
            /\ phase' = Follows(phase) /\ left' = NamesIn(Follows(phase))
            /\ UNCHANGED <<input, s, issues>>
BY DEF NextSection, Follows

LEMMA Failing ==
  ASSUME LoadInv, NEW ending \in {"rejected", "crashed"}, Fail(ending)
  PROVE  LoadInv'
<1>1. phase' = ending /\ input' = input /\ left' = left /\ s' = s
  BY DEF Fail
<1>2. ending \notin Range(Sections) /\ ending \notin BeforeDists /\ ending \notin AfterScenarios
      /\ ending \notin {"dist", "scenarios"}
  BY SectionsAre DEF BeforeDists, AfterScenarios
<1> QED
  BY <1>1, <1>2 DEF LoadInv

LEMMA ReadingOn ==
  ASSUME LoadInv, phase \in Range(Sections), NEW name, NEW q, Read(name, q), SimInv(q),
         phase # "dist" => q.dists = s.dists,
         phase = "dist" => TagsOf(q.dists) \subseteq TagsOf(s.dists) \cup {name},
         TagsOf(s.scenarios) \subseteq TagsOf(q.scenarios),
         phase = "scenarios" => name \in TagsOf(q.scenarios)
  PROVE  LoadInv'
<1>1. phase' = phase /\ input' = input /\ left' = left \ {name} /\ s' = q
  BY DEF Read
<1>2. phase \notin {"dist"} \cap BeforeDists /\ (phase \in BeforeDists => phase # "dist")
  BY DEF BeforeDists
<1>3. NamesIn(phase)' = NamesIn(phase)
  BY <1>1 DEF NamesIn
<1> QED
  BY <1>1, <1>2, <1>3 DEF LoadInv

LEMMA SectionReads ==
  ASSUME LoadInv, NextSection
  PROVE  LoadInv'
<1>1. CASE Fail("rejected")
  BY <1>1, Failing
<1>2. ASSUME phase \in Range(Sections) \ {"ready"}, left = {},
             phase' = Follows(phase), left' = NamesIn(Follows(phase)),
             UNCHANGED <<input, s, issues>>
      PROVE  LoadInv'
  <2>1. input' = input /\ s' = s
    BY <1>2
  <2>2. NamesIn(phase)' = NamesIn(Follows(phase))
    BY <1>2, <2>1 DEF NamesIn
  <2>3. phase \in {"simulation_info", "loads", "components", "dist", "failure_mode",
                   "fragility_mode", "network", "scenarios", "intensity", "fragility_curve"}
    BY <1>2, SectionsAre
  <2>4. /\ phase' \in Range(Sections)
        /\ phase' \in BeforeDists => phase \in BeforeDists
        /\ phase' = "dist" => phase = "components"
        /\ phase' # "scenarios" \/ phase = "network"
        /\ phase' \in AfterScenarios => phase = "scenarios" \/ phase \in AfterScenarios
    BY <1>2, <2>3, FollowsAre, SectionsAre DEF BeforeDists, AfterScenarios
  <2>5. phase' = "scenarios" => left' = DOMAIN input.scenarios
    BY <1>2 DEF NamesIn
  <2> QED
    BY <1>2, <2>1, <2>2, <2>4, <2>5 DEF LoadInv, BeforeDists
<1> QED
  BY <1>1, <1>2, NextSectionIs

LEMMA Checking ==
  ASSUME LoadInv, Check
  PROVE  LoadInv'
<1>1. phase = "ready" /\ phase' = "checked" /\ input' = input /\ left' = left /\ s' = s
  BY DEF Check
<1>2. "checked" \notin Range(Sections) /\ "checked" \notin BeforeDists /\ "ready" \in AfterScenarios
  BY SectionsAre DEF BeforeDists, AfterScenarios
<1> QED
  BY <1>1, <1>2 DEF LoadInv

LEMMA EndingsAre ==
  ASSUME NEW fields, NEW table, FailToRead(fields, table)
  PROVE  Fail("rejected") \/ Fail("crashed")
BY DEF FailToRead

LEMMA InfoReads ==
  ASSUME LoadInv, ReadInfo
  PROVE  LoadInv'
<1>1. CASE FailToRead(SimulationInfoFields, input.info)
  BY <1>1, EndingsAre, Failing
<1>2. ASSUME NEW info, phase = "simulation_info",
             Read("simulation_info", [s EXCEPT !.info = info])
      PROVE  LoadInv'
  <2> DEFINE q == [s EXCEPT !.info = info]
  <2>0. SimInv(s)
    BY DEF LoadInv
  <2>1. SimInv(q) /\ q.dists = s.dists /\ q.scenarios = s.scenarios
    <3>1. q.dists = s.dists /\ q.scenarios = s.scenarios
      BY <2>0 DEF SimInv, SimShape
    <3> QED
      BY <2>0, <3>1, ChangingInfo
  <2>2. Read("simulation_info", q)
    BY <1>2
  <2> HIDE DEF q
  <2>3. phase \in Range(Sections)
    BY <1>2, SectionsAre
  <2> QED
    BY <1>2, <2>1, <2>2, <2>3, ReadingOn
<1> QED
  BY <1>1, <1>2 DEF ReadInfo

LEMMA InputIs ==
  ASSUME input \in Inputs
  PROVE  /\ input.conns \in Seq(Range(input.conns)) /\ IsSeq(input.conns)
         /\ \A name \in DOMAIN input.files : IsSeq(input.files[name])
         /\ \A tag \in DOMAIN input.scenarios : IsFiniteSet(DOMAIN input.scenarios[tag].intensity)
         /\ \A tag \in DOMAIN input.comps : \A key \in DOMAIN input.comps[tag] :
              input.comps[tag][key].type = "array" => IsSeq(input.comps[tag][key].value)
         /\ \A tag \in DOMAIN input.comps : \A kind \in Range(KindOf) :
              LET fields == ComponentFields(kind)
              IN  Readable(fields, input.comps[tag])
                    => FieldsHaveTheirTypes(kind, Parsed(fields, input.comps[tag]))
<1>1. input.conns \in Seq(Range(input.conns))
  BY InputsAssumption
<1>2. \A name \in DOMAIN input.files : IsSeq(input.files[name])
  BY InputsAssumption, SeqIs DEF Range
<1>3. \A tag \in DOMAIN input.scenarios : IsFiniteSet(DOMAIN input.scenarios[tag].intensity)
  BY InputsAssumption DEF Range
<1>4. ASSUME NEW tag \in DOMAIN input.comps
      PROVE  /\ \A key \in DOMAIN input.comps[tag] :
                  input.comps[tag][key].type = "array" => IsSeq(input.comps[tag][key].value)
             /\ \A kind \in Range(KindOf) :
                  Readable(ComponentFields(kind), input.comps[tag])
                    => FieldsHaveTheirTypes(kind, Parsed(ComponentFields(kind), input.comps[tag]))
  <2>1. input.comps[tag] \in Range(input.comps)
    BY DEF Range
  <2> QED
    BY <2>1, InputsAssumption, SeqIs
<1> QED
  BY <1>1, <1>2, <1>3, <1>4, SeqIs

LEMMA LoadsInIs ==
  ASSUME input \in Inputs, NEW tag, NEW table, NEW loads \in LoadsIn(tag, table)
  PROVE  IsSeq(loads)
<1>1. \A name \in DOMAIN input.files : IsSeq(input.files[name])
  BY InputIs
<1> DEFINE parts == PartsIn(table)
<1>2. IsSeq(parts)
  BY <1>1, Tuples DEF PartsIn
<1> HIDE DEF parts
<1>3. CASE Readable(ExplicitLoadFields, table)
  BY <1>3, Tuples DEF LoadsIn
<1>4. CASE ~ Readable(ExplicitLoadFields, table) /\ "csv_file" \in DOMAIN table
  <2> DEFINE whole == <<[tag |-> tag, schedule |-> input.files[table.csv_file.value]]>>
  <2>1. loads = whole \o parts \/ loads = parts \o whole
    BY <1>4 DEF LoadsIn, parts
  <2>2. IsSeq(whole)
    BY Tuples
  <2> HIDE DEF whole
  <2> QED
    BY <1>2, <2>1, <2>2, Joining DEF Joined, Grown
<1>5. CASE ~ Readable(ExplicitLoadFields, table) /\ "csv_file" \notin DOMAIN table
  BY <1>2, <1>5 DEF LoadsIn, parts
<1> QED
  BY <1>3, <1>4, <1>5

LEMMA LoadCases ==
  ASSUME NEW tag, ReadLoad(tag)
  PROVE  /\ phase = "loads"
         /\ \/ Fail("rejected")
            \/ \E loads \in LoadsIn(tag, input.loads[tag]) :
                 Read(tag, [s EXCEPT !.loads = RegisterTags(s.loads, loads)])
BY DEF ReadLoad

LEMMA LoadReads ==
  ASSUME LoadInv, NEW tag \in left, ReadLoad(tag)
  PROVE  LoadInv'
<1>1. CASE Fail("rejected")
  BY <1>1, Failing
<1>2. ASSUME NEW list \in LoadsIn(tag, input.loads[tag]),
             Read(tag, [s EXCEPT !.loads = RegisterTags(s.loads, list)])
      PROVE  LoadInv'
  <2> DEFINE loads == RegisterTags(s.loads, list)
             q == [s EXCEPT !.loads = loads]
  <2>1. phase = "loads" /\ Read(tag, q)
    BY <1>2, LoadCases
  <2>2. IsSeq(list)
    BY LoadsInIs DEF LoadInv
  <2>3. SimInv(s) /\ IsSeq(s.loads) /\ UniqueTags(s.loads)
    BY DEF LoadInv, SimInv, SimLists, SimUnique
  <2>4. TagsAdded(s.loads, list, Len(list), loads)
    BY <2>2, <2>3, RegisteringTags
  <2>5. IsSeq(loads) /\ UniqueTags(loads)
    BY <2>3, <2>4 DEF TagsAdded, Grown
  <2> HIDE DEF loads
  <2>6. SimInv(q) /\ q.dists = s.dists /\ q.scenarios = s.scenarios
    <3>1. q.dists = s.dists /\ q.scenarios = s.scenarios
      BY <2>3 DEF SimInv, SimShape
    <3> QED
      BY <2>3, <2>5, <3>1, ChangingLoads
  <2> HIDE DEF q
  <2>7. phase \in Range(Sections)
    BY <2>1, SectionsAre
  <2> QED
    BY <2>1, <2>6, <2>7, ReadingOn
<1> QED
  BY <1>1, <1>2, LoadCases

LEMMA NamesAre ==
  ASSUME input \in Inputs, NEW tag \in DOMAIN input.comps, NEW key, Names(input.comps[tag], key) # {}
  PROVE  IsSeq(NameChosen(input.comps[tag], key))
<1> DEFINE table == input.comps[tag]
           field == Required("ArrayOfString")
           v == table[key]
<1>1. CASE key \notin DOMAIN table
  <2>1. Names(table, key) = {<<>>}
    BY <1>1 DEF Names
  <2>2. NameChosen(table, key) = <<>>
    BY <2>1 DEF NameChosen
  <2> QED
    BY <2>2, Tuples
<1>2. CASE key \in DOMAIN table
  <2>1. Names(table, key) = AsArray(field, v)
    BY <1>2 DEF Names
  <2>2. field.type = "ArrayOfString"
    BY DEF Required, Optional
  <2> HIDE DEF field
  <2>3. v.type = "array" /\ AsArray(field, v) = {[i \in DOMAIN v.value |-> v.value[i].value]}
    BY <2>1, <2>2 DEF AsArray, AllOf
  <2>4. IsSeq(v.value)
    BY <1>2, <2>3, InputIs
  <2>5. NameChosen(table, key) = [i \in DOMAIN v.value |-> v.value[i].value]
    BY <2>1, <2>3 DEF NameChosen
  <2> HIDE DEF v
  <2> QED
    BY <2>4, <2>5, MappedIs
<1> QED
  BY <1>1, <1>2

LEMMA KindsAre ==
  ASSUME NEW type \in DOMAIN KindOf
  PROVE  KindOf[type] \in WithPart /\ KindOf[type] \in Range(KindOf)
BY DEF KindOf, WithPart, Converters, Movers, Range

(* Reading a component fails, or leaves it out, or adds it with fields that*)
(* suit its kind.                                                          *)
ComponentAdded(tag, r) ==
  /\ SimInv(r) /\ OthersStay(s, r) /\ GrownDomain(s.scenarios, r.scenarios)
  /\ \E kind \in WithPart : \E f, made, ids, byScenario :
       /\ Suitable(kind, f) /\ FieldsHaveTheirTypes(kind, f)
       /\ AddedWith(s.model, made, kind, ids, tag, Param(kind, f, byScenario))
       /\ MadeWith(made, kind, f, Param(kind, f, byScenario), tag)
       /\ Settled(made, r.model)

LEMMA DeclaredReads ==
  ASSUME LoadInv, NEW tag \in DOMAIN input.comps, NEW kind \in WithPart, NEW f,
         FieldsHaveTheirTypes(kind, f), ReadDeclared(tag, kind, f, input.comps[tag])
  PROVE  Fail("rejected") \/ \E r : Read(tag, r) /\ ComponentAdded(tag, r)
<1> DEFINE table == input.comps[tag]
           S == DOMAIN Scheduled(f)
<1>1. CASE ~ Suitable(kind, f) \/ Names(table, "failure_modes") = {}
           \/ Names(table, "fragility_modes") = {}
  BY <1>1 DEF ReadDeclared
<1>2. ASSUME Suitable(kind, f), Names(table, "failure_modes") # {},
             Names(table, "fragility_modes") # {}
      PROVE  \E r : Read(tag, r) /\ ComponentAdded(tag, r)
  <2>1. PICK order \in Bijection(1 .. Cardinality(S), S) :
          Read(tag, WithComponent(tag, kind, f, table, order))
    BY <1>2 DEF ReadDeclared
  <2>2. IsSeq(order)
    <3>1. IsFiniteSet(S)
      BY DEF FieldsHaveTheirTypes
    <3> HIDE DEF S
    <3> QED
      BY <2>1, <3>1, OrderIs
  <2>3. kind = "Mux" => f.num_inflows \in Nat /\ f.num_outflows \in Nat
    <3>1. SUFFICES ASSUME kind = "Mux"
                   PROVE  f.num_inflows \in Nat /\ f.num_outflows \in Nat
      OBVIOUS
    <3>2. f.num_inflows \in Int /\ f.num_outflows \in Int
      BY <3>1 DEF FieldsHaveTheirTypes
    <3>3. f.num_inflows > 0 /\ f.num_outflows > 0
      BY <1>2, <3>1 DEF Suitable
    <3> QED
      BY <3>2, <3>3
  <2>4. input \in Inputs /\ SimInv(s)
    BY DEF LoadInv
  <2>5. IsSeq(NameChosen(table, "failure_modes")) /\ IsSeq(NameChosen(table, "fragility_modes"))
    BY <1>2, <2>4, NamesAre
  <2> DEFINE r == WithComponent(tag, kind, f, table, order)
  <2> HIDE DEF r, table
  <2>6. r = WithComponent(tag, kind, f, table, order)
    BY DEF r
  <2>7. /\ SimInv(r) /\ OthersStay(s, r) /\ GrownDomain(s.scenarios, r.scenarios)
        /\ \E made, ids, byScenario :
             /\ AddedWith(s.model, made, kind, ids, tag, Param(kind, f, byScenario))
             /\ MadeWith(made, kind, f, Param(kind, f, byScenario), tag)
             /\ Settled(made, r.model)
    BY <2>2, <2>3, <2>4, <2>5, <2>6, ComponentRead
  <2>8. ComponentAdded(tag, r)
    BY <1>2, <2>7 DEF ComponentAdded
  <2>9. Read(tag, r)
    BY <2>1, <2>6
  <2> QED
    BY <2>8, <2>9
<1> QED
  BY <1>1, <1>2

LEMMA ComponentCases ==
  ASSUME LoadInv, NEW tag \in left, ReadComponent(tag)
  PROVE  /\ phase = "components" /\ tag \in DOMAIN input.comps
         /\ \/ Fail("rejected") \/ Fail("crashed")
            \/ tag \notin TagsInUse /\ Read(tag, s)
            \/ tag \in TagsInUse /\ \E r : Read(tag, r) /\ ComponentAdded(tag, r)
<1> DEFINE table == input.comps[tag]
           kind == KindOf[table["type"].value]
           fields == ComponentFields(kind)
<1>1. phase = "components" /\ tag \in DOMAIN input.comps
  <2>1. phase = "components"
    BY DEF ReadComponent
  <2>2. left \subseteq NamesIn(phase)
    BY <2>1, SectionsAre DEF LoadInv
  <2> QED
    BY <2>1, <2>2 DEF NamesIn
<1>2. CASE tag \notin TagsInUse
  BY <1>1, <1>2 DEF ReadComponent
<1>3. CASE tag \in TagsInUse /\ ~ TypeIsOneOf(table, DOMAIN KindOf)
  BY <1>1, <1>3 DEF ReadComponent
<1>4. ASSUME tag \in TagsInUse, TypeIsOneOf(table, DOMAIN KindOf)
      PROVE  \/ Fail("rejected") \/ Fail("crashed")
             \/ \E r : Read(tag, r) /\ ComponentAdded(tag, r)
  <2>1. \/ FailToRead(fields, table)
        \/ Readable(fields, table) /\ ReadDeclared(tag, kind, Parsed(fields, table), table)
    BY <1>4 DEF ReadComponent
  <2>2. kind \in WithPart /\ kind \in Range(KindOf)
    BY <1>4, KindsAre DEF TypeIsOneOf
  <2> HIDE DEF kind
  <2>3. ASSUME Readable(fields, table), ReadDeclared(tag, kind, Parsed(fields, table), table)
        PROVE  Fail("rejected") \/ \E r : Read(tag, r) /\ ComponentAdded(tag, r)
    <3>1. FieldsHaveTheirTypes(kind, Parsed(fields, table))
      BY <1>1, <2>2, <2>3, InputIs DEF LoadInv
    <3> DEFINE f == Parsed(fields, table)
    <3>2. ReadDeclared(tag, kind, f, input.comps[tag])
      BY <2>3
    <3> HIDE DEF f
    <3>3. FieldsHaveTheirTypes(kind, f)
      BY <3>1 DEF f
    <3> QED
      BY <1>1, <2>2, <3>2, <3>3, DeclaredReads
  <2> QED
    BY <2>1, <2>3, EndingsAre
<1> QED
  BY <1>1, <1>2, <1>3, <1>4

LEMMA TagsGrow ==
  ASSUME NEW a, NEW b, GrownDomain(a, b)
  PROVE  TagsOf(a) \subseteq TagsOf(b)
<1>1. \A i \in DOMAIN a : i \in DOMAIN b /\ b[i] = a[i]
  BY DEF GrownDomain, Grown
<1> QED
  BY <1>1 DEF TagsOf

LEMMA ComponentReads ==
  ASSUME LoadInv, NEW tag \in left, ReadComponent(tag)
  PROVE  LoadInv'
<1>1. phase = "components" /\ phase \in Range(Sections) /\ SimInv(s)
  BY ComponentCases, SectionsAre DEF LoadInv
<1>2. CASE Fail("rejected") \/ Fail("crashed")
  BY <1>2, Failing
<1>3. CASE Read(tag, s)
  BY <1>1, <1>3, ReadingOn
<1>4. ASSUME NEW r, Read(tag, r), ComponentAdded(tag, r)
      PROVE  LoadInv'
  <2>1. SimInv(r) /\ r.dists = s.dists /\ TagsOf(s.scenarios) \subseteq TagsOf(r.scenarios)
    BY <1>4, TagsGrow DEF ComponentAdded, OthersStay
  <2> QED
    BY <1>1, <1>4, <2>1, ReadingOn
<1> QED
  BY <1>2, <1>3, <1>4, ComponentCases

(* A distribution that is read comes last.                                 *)
DistAdded(name, q) ==
  \E f : /\ q = [s EXCEPT !.dists = Append(@, [tag |-> name, dist |-> Distribution(f)])]
         /\ ValidDistribution(Distribution(f))

LEMMA DistributionCases ==
  ASSUME NEW name, ReadDistribution(name)
  PROVE  /\ phase = "dist"
         /\ \/ Fail("rejected") \/ Fail("crashed") \/ GiveUpSection
            \/ \E q : Read(name, q) /\ DistAdded(name, q)
<1> DEFINE table == input.dists[name]
           fields == DistFields(table["type"].value, table)
           f == Parsed(fields, table)
           q == [s EXCEPT !.dists = Append(@, [tag |-> name, dist |-> Distribution(f)])]
<1>1. /\ phase = "dist"
      /\ \/ Fail("rejected") \/ Fail("crashed")
         \/ FailToRead(fields, table) \/ AddDistribution(name, f)
  BY DEF ReadDistribution
<1> HIDE DEF f
<1>2. ASSUME AddDistribution(name, f)
      PROVE  \/ GiveUpSection \/ Fail("crashed")
             \/ Read(name, q) /\ ValidDistribution(Distribution(f))
  <2>1. IF "csv_file" \in DOMAIN f /\ f.csv_file \notin DOMAIN input.files THEN GiveUpSection
        ELSE IF ~ ValidDistribution(Distribution(f)) THEN Fail("crashed") ELSE Read(name, q)
    BY <1>2 DEF AddDistribution
  <2> HIDE DEF q
  <2> QED
    BY <2>1
<1>3. ValidDistribution(Distribution(f)) => DistAdded(name, q)
  BY DEF DistAdded
<1> HIDE DEF q
<1> QED
  BY <1>1, <1>2, <1>3, EndingsAre

LEMMA DistributionReads ==
  ASSUME LoadInv, NEW name \in left, ReadDistribution(name)
  PROVE  LoadInv'
<1>1. phase = "dist" /\ phase \in Range(Sections) /\ SimInv(s)
  BY DistributionCases, SectionsAre DEF LoadInv
<1>2. CASE Fail("rejected") \/ Fail("crashed")
  BY <1>2, Failing
<1>3. CASE GiveUpSection
  <2>1. left' = {} /\ phase' = phase /\ input' = input /\ s' = s
    BY <1>3 DEF GiveUpSection
  <2> QED
    BY <1>1, <2>1, SectionsAre DEF LoadInv, BeforeDists, AfterScenarios
<1>4. ASSUME NEW q, Read(name, q), DistAdded(name, q)
      PROVE  LoadInv'
  <2>1. PICK f : q = [s EXCEPT !.dists = Append(@, [tag |-> name, dist |-> Distribution(f)])]
    BY <1>4 DEF DistAdded
  <2> DEFINE record == [tag |-> name, dist |-> Distribution(f)]
             dists == Append(s.dists, record)
  <2>2. q = [s EXCEPT !.dists = dists]
    BY <2>1
  <2>3. record.tag = name
    OBVIOUS
  <2> HIDE DEF record
  <2>4. IsSeq(s.dists) /\ UniqueTags(s.dists) /\ name \notin TagsOf(s.dists)
    BY <1>1 DEF LoadInv, SimInv, SimLists, SimUnique
  <2>5. IsSeq(dists) /\ UniqueTags(dists) /\ TagsOf(dists) = TagsOf(s.dists) \cup {name}
    BY <2>3, <2>4, AppendsNew, Appending
  <2> HIDE DEF dists
  <2>6. SimInv(q)
    BY <1>1, <2>2, <2>5, ChangingDists
  <2>7. q.dists = dists /\ q.scenarios = s.scenarios
    BY <1>1, <2>2 DEF SimInv, SimShape
  <2>8. phase # "scenarios"
    BY <1>1
  <2> QED
    BY <1>1, <1>4, <2>5, <2>6, <2>7, <2>8, ReadingOn
<1> QED
  BY <1>2, <1>3, <1>4, DistributionCases

(* Modes, by the ids of what they name.                                    *)
FailureModeAdded(name, q) ==
  LET mode == input.failureModes[name]
  IN  /\ HasDist(mode.failure) /\ HasDist(mode.repair)
      /\ q = [s EXCEPT !.failureModes = Register(@,
                [tag |-> name, failure |-> IdOf(s.dists, mode.failure),
                 repair |-> IdOf(s.dists, mode.repair)])]

LEMMA FailureModeCases ==
  ASSUME NEW name, ReadFailureMode(name)
  PROVE  /\ phase = "failure_mode"
         /\ \/ Fail("rejected") \/ Fail("crashed")
            \/ \E q : Read(name, q) /\ FailureModeAdded(name, q)
BY DEF ReadFailureMode, FailureModeAdded

LEMMA RegisteredIs ==
  ASSUME NEW seq, IsSeq(seq), UniqueTags(seq), NEW record, NEW r, r = Register(seq, record)
  PROVE  IsSeq(r) /\ UniqueTags(r) /\ DOMAIN seq \subseteq DOMAIN r
         /\ TagsOf(seq) \subseteq TagsOf(r) /\ record.tag \in TagsOf(r)
<1>1. Registered(seq, record, r)
  BY Registering
<1>2. IsSeq(r) /\ DOMAIN seq \subseteq DOMAIN r /\ UniqueTags(r)
  BY <1>1 DEF Registered
<1>3. TagsOf(r) = TagsOf(seq) \cup {record.tag}
  BY <1>1 DEF Registered
<1> QED
  BY <1>2, <1>3

LEMMA FailureModeReads ==
  ASSUME LoadInv, NEW name \in left, ReadFailureMode(name)
  PROVE  LoadInv'
<1>1. phase = "failure_mode" /\ phase \in Range(Sections) /\ SimInv(s)
  BY FailureModeCases, SectionsAre DEF LoadInv
<1>2. CASE Fail("rejected") \/ Fail("crashed")
  BY <1>2, Failing
<1>4. ASSUME NEW q, Read(name, q), FailureModeAdded(name, q)
      PROVE  LoadInv'
  <2> DEFINE record == [tag |-> name, failure |-> IdOf(s.dists, input.failureModes[name].failure),
                        repair |-> IdOf(s.dists, input.failureModes[name].repair)]
             modes == Register(s.failureModes, record)
  <2>1. q = [s EXCEPT !.failureModes = modes]
    BY <1>4 DEF FailureModeAdded
  <2> HIDE DEF record
  <2>2. IsSeq(s.failureModes) /\ UniqueTags(s.failureModes)
    BY <1>1 DEF SimInv, SimLists, SimUnique
  <2>3. IsSeq(modes) /\ UniqueTags(modes) /\ DOMAIN s.failureModes \subseteq DOMAIN modes
    BY <2>2, RegisteredIs
  <2> HIDE DEF modes
  <2>4. SimInv(q)
    BY <1>1, <2>1, <2>3, ChangingFailureModes
  <2>5. q.dists = s.dists /\ q.scenarios = s.scenarios
    BY <1>1, <2>1 DEF SimInv, SimShape
  <2>6. phase # "scenarios" /\ phase # "dist"
    BY <1>1
  <2> QED
    BY <1>1, <1>4, <2>4, <2>5, <2>6, ReadingOn
<1> QED
  BY <1>2, <1>4, FailureModeCases

FragilityModeAdded(name, q) ==
  LET mode == input.fragilityModes[name]
      curves == Register(s.curves, UnknownCurve(mode.curve))
  IN  /\ \A d \in mode.repair : HasDist(d)
      /\ q = [s EXCEPT !.curves = curves, !.fragilityModes = Register(@,
                [tag |-> name, curve |-> IdOf(curves, mode.curve),
                 repair |-> {IdOf(s.dists, d) : d \in mode.repair}])]

LEMMA FragilityModeCases ==
  ASSUME NEW name, ReadFragilityMode(name)
  PROVE  /\ phase = "fragility_mode"
         /\ \/ Fail("rejected") \/ Fail("crashed")
            \/ \E q : Read(name, q) /\ FragilityModeAdded(name, q)
BY DEF ReadFragilityMode, FragilityModeAdded

LEMMA FragilityModeReads ==
  ASSUME LoadInv, NEW name \in left, ReadFragilityMode(name)
  PROVE  LoadInv'
<1>1. phase = "fragility_mode" /\ phase \in Range(Sections) /\ SimInv(s)
  BY FragilityModeCases, SectionsAre DEF LoadInv
<1>2. CASE Fail("rejected") \/ Fail("crashed")
  BY <1>2, Failing
<1>4. ASSUME NEW q, Read(name, q), FragilityModeAdded(name, q)
      PROVE  LoadInv'
  <2> DEFINE mode == input.fragilityModes[name]
             unknown == UnknownCurve(mode.curve)
             curves == Register(s.curves, unknown)
             record == [tag |-> name, curve |-> IdOf(curves, mode.curve),
                        repair |-> {IdOf(s.dists, d) : d \in mode.repair}]
             modes == Register(s.fragilityModes, record)
  <2>1. q = [s EXCEPT !.curves = curves, !.fragilityModes = modes]
    BY <1>4 DEF FragilityModeAdded
  <2> HIDE DEF record, unknown
  <2>2. /\ IsSeq(s.fragilityModes) /\ UniqueTags(s.fragilityModes)
        /\ IsSeq(s.curves) /\ UniqueTags(s.curves)
    BY <1>1 DEF SimInv, SimLists, SimUnique
  <2>3. IsSeq(modes) /\ UniqueTags(modes) /\ DOMAIN s.fragilityModes \subseteq DOMAIN modes
    BY <2>2, RegisteredIs
  <2>4. IsSeq(curves) /\ UniqueTags(curves)
    BY <2>2, RegisteredIs
  <2> HIDE DEF modes, curves
  <2>5. SimInv(q)
    BY <1>1, <2>1, <2>3, <2>4, ChangingFragilityModes
  <2>6. q.dists = s.dists /\ q.scenarios = s.scenarios
    BY <1>1, <2>1 DEF SimInv, SimShape
  <2>7. phase # "scenarios" /\ phase # "dist"
    BY <1>1
  <2> QED
    BY <1>1, <1>4, <2>5, <2>6, <2>7, ReadingOn
<1> QED
  BY <1>2, <1>4, FragilityModeCases

(* A connection is added between two components that are there.            *)
ConnectionAdded(i, q) ==
  \E from, to \in DOMAIN s.model.comps : \E m :
    LET c == input.conns[i]
    IN  /\ m = AddConnection(s.model, from, c.fromPort, to, c.toPort, IdOfName(s.flows, c.flow))
        /\ q = [s EXCEPT !.model = m]
        /\ ConnectionSuits(c)
        /\ from = IdOf(s.model.comps, c.from) /\ to = IdOf(s.model.comps, c.to)

LEMMA ConnectionCases ==
  ASSUME SimInv(s), NEW i, ReadConnection(i)
  PROVE  /\ phase = "network"
         /\ \/ Fail("rejected")
            \/ \E q : Read(i, q) /\ ConnectionAdded(i, q)
<1> DEFINE c == input.conns[i]
           comps == s.model.comps
           from == IdOf(comps, c.from)
           to == IdOf(comps, c.to)
           m == AddConnection(s.model, from, c.fromPort, to, c.toPort, IdOfName(s.flows, c.flow))
           q == [s EXCEPT !.model = m]
<1>1. phase = "network"
  BY DEF ReadConnection
<1>2. CASE ~ ConnectionSuits(c)
  BY <1>1, <1>2 DEF ReadConnection
<1>3. CASE ConnectionSuits(c)
  <2>1. Read(i, q)
    BY <1>3 DEF ReadConnection
  <2>2. c.from \in TagsOf(comps) /\ c.to \in TagsOf(comps)
    BY <1>3, TaggedIs DEF ConnectionSuits
  <2>3. IsSeq(comps)
    BY DEF SimInv, ModelInv, ModelShape
  <2>4. from \in DOMAIN comps /\ to \in DOMAIN comps
    BY <2>2, <2>3, IdIs
  <2>5. ConnectionAdded(i, q)
    <3> DEFINE S == DOMAIN s.model.comps
    <3>1. from \in S /\ to \in S
      BY <2>4
    <3> HIDE DEF S, from, to
    <3>2. \E a, b \in S : \E x : /\ x = AddConnection(s.model, a, c.fromPort, b, c.toPort,
                                                      IdOfName(s.flows, c.flow))
                                 /\ q = [s EXCEPT !.model = x]
                                 /\ a = from /\ b = to
      BY <3>1
    <3> QED
      BY <1>3, <3>2 DEF ConnectionAdded, S, from, to
  <2> QED
    BY <1>1, <2>1, <2>5
<1> QED
  BY <1>2, <1>3

LEMMA ConnectionReads ==
  ASSUME LoadInv, NEW i \in left, ReadConnection(i)
  PROVE  LoadInv'
<1>1. phase = "network" /\ phase \in Range(Sections) /\ SimInv(s)
  BY ConnectionCases, SectionsAre DEF LoadInv
<1>2. CASE Fail("rejected")
  BY <1>2, Failing
<1>4. ASSUME NEW q, Read(i, q), ConnectionAdded(i, q)
      PROVE  LoadInv'
  <2> DEFINE c == input.conns[i]
             flow == IdOfName(s.flows, c.flow)
  <2>0. PICK from \in DOMAIN s.model.comps, to \in DOMAIN s.model.comps :
          \E m : /\ m = AddConnection(s.model, from, c.fromPort, to, c.toPort, flow)
                 /\ q = [s EXCEPT !.model = m]
    BY <1>4 DEF ConnectionAdded
  <2>1. PICK m : /\ m = AddConnection(s.model, from, c.fromPort, to, c.toPort, flow)
                 /\ q = [s EXCEPT !.model = m]
    BY <2>0
  <2> HIDE DEF flow
  <2>2. ModelInv(s.model) /\ FlowsHold(s.model, s.flows) /\ IsSeq(s.flows)
    BY <1>1 DEF SimInv, SimLists
  <2>3. ModelInv(m) /\ Connected(s.model, m, from, c.fromPort, to, c.toPort, flow)
    BY <2>1, <2>2, Connecting
  <2>4. m.comps = s.model.comps
    BY <2>3 DEF Connected
  <2>5. FlowsHold(m, s.flows)
    BY <2>2, <2>4 DEF FlowsHold
  <2> DEFINE flows == s.flows
  <2>6. q = [s EXCEPT !.flows = flows, !.model = m]
    <3>1. s = [s EXCEPT !.flows = flows]
      BY <1>1 DEF SimInv, SimShape
    <3> QED
      BY <2>1, <3>1
  <2>7. IsSeq(flows) /\ FlowsHold(m, flows)
    BY <2>2, <2>5
  <2> HIDE DEF flows
  <2>8. SimInv(q)
    BY <1>1, <2>3, <2>4, <2>6, <2>7, ChangingModel
  <2>9. q.dists = s.dists /\ q.scenarios = s.scenarios
    BY <1>1, <2>1 DEF SimInv, SimShape
  <2>10. phase # "scenarios" /\ phase # "dist"
    BY <1>1
  <2> QED
    BY <1>1, <1>4, <2>8, <2>9, <2>10, ReadingOn
<1> QED
  BY <1>1, <1>2, <1>4, ConnectionCases

(* A scenario is registered with everything.                               *)
ScenarioRecord(tag) ==
  LET scenario == input.scenarios[tag]
  IN  [tag |-> tag, dist |-> IdOf(s.dists, scenario.dist),
       duration |-> scenario.duration, max |-> MaxOccurrences(scenario.max)]

ScenarioAdded(tag, q) ==
  /\ HasDist(input.scenarios[tag].dist)
  /\ q = RegisterScenario(s, ScenarioRecord(tag), input.scenarios[tag].offset)

LEMMA ScenarioCases ==
  ASSUME NEW tag, ReadScenario(tag)
  PROVE  /\ phase = "scenarios"
         /\ \/ Fail("rejected") \/ Fail("crashed")
            \/ \E q : Read(tag, q) /\ ScenarioAdded(tag, q)
BY DEF ReadScenario, ScenarioAdded, ScenarioRecord

WithScenario(q, record, r) ==
  /\ SimInv(r)
  /\ r = [q EXCEPT !.scenarios = r.scenarios, !.offsets = r.offsets]
  /\ Registered(q.scenarios, record, r.scenarios)

LEMMA RegisteringScenario ==
  ASSUME NEW q, SimInv(q), NEW record, NEW offset, NEW r, r = RegisterScenario(q, record, offset)
  PROVE  WithScenario(q, record, r)
<1> DEFINE known == Tagged(q.scenarios, record.tag)
           scenarios == Register(q.scenarios, record)
           offsets == [i \in DOMAIN q.offsets |-> IF i \in known THEN offset ELSE q.offsets[i]]
<1>1. IsSeq(q.scenarios) /\ UniqueTags(q.scenarios) /\ IsSeq(q.offsets)
  BY DEF SimInv, SimLists, SimUnique
<1>2. Registered(q.scenarios, record, scenarios)
  BY <1>1, Registering
<1>3. offsets = [i \in DOMAIN q.offsets |-> offsets[i]]
  OBVIOUS
<1>4. r = [q EXCEPT !.scenarios = scenarios, !.offsets = offsets]
  BY DEF RegisterScenario
<1> HIDE DEF scenarios, offsets, known
<1>5. IsSeq(offsets)
  BY <1>1, <1>3, MappedIs
<1>6. IsSeq(scenarios) /\ UniqueTags(scenarios) /\ DOMAIN q.scenarios \subseteq DOMAIN scenarios
  BY <1>1, <1>2 DEF Registered
<1>7. SimInv(r)
  BY <1>4, <1>5, <1>6, ChangingScenarios
<1>8. r.scenarios = scenarios /\ r.offsets = offsets
  BY <1>4 DEF SimInv, SimShape
<1> QED
  BY <1>2, <1>4, <1>7, <1>8 DEF WithScenario

LEMMA ScenarioReads ==
  ASSUME LoadInv, NEW tag \in left, ReadScenario(tag)
  PROVE  LoadInv'
<1>1. phase = "scenarios" /\ phase \in Range(Sections) /\ SimInv(s)
  BY ScenarioCases, SectionsAre DEF LoadInv
<1>2. CASE Fail("rejected") \/ Fail("crashed")
  BY <1>2, Failing
<1>4. ASSUME NEW q, Read(tag, q), ScenarioAdded(tag, q)
      PROVE  LoadInv'
  <2> DEFINE record == ScenarioRecord(tag)
             offset == input.scenarios[tag].offset
  <2>1. q = RegisterScenario(s, record, offset)
    BY <1>4 DEF ScenarioAdded
  <2>2. record.tag = tag
    BY DEF ScenarioRecord
  <2> HIDE DEF record, offset
  <2>3. /\ SimInv(q) /\ q = [s EXCEPT !.scenarios = q.scenarios, !.offsets = q.offsets]
        /\ Registered(s.scenarios, record, q.scenarios)
    <3>1. WithScenario(s, record, q)
      BY <1>1, <2>1, RegisteringScenario
    <3> QED
      BY <3>1 DEF WithScenario
  <2>4. TagsOf(q.scenarios) = TagsOf(s.scenarios) \cup {tag}
    BY <2>2, <2>3 DEF Registered
  <2>5. q.dists = s.dists
    BY <1>1, <2>3 DEF SimInv, SimShape
  <2>6. phase # "dist"
    BY <1>1
  <2> QED
    BY <1>1, <1>4, <2>3, <2>4, <2>5, <2>6, ReadingOn
<1> QED
  BY <1>2, <1>4, ScenarioCases

(* The intensities of a scenario, all of them in some order.               *)
IntensitiesAdded(tag, q) ==
  \E names \in Bijection(1 .. Cardinality(DOMAIN input.scenarios[tag].intensity),
                         DOMAIN input.scenarios[tag].intensity) :
    q = WithIntensities(tag, names)

LEMMA IntensityCases ==
  ASSUME NEW tag, ReadIntensities(tag)
  PROVE  phase = "intensity" /\ \E q : Read(tag, q) /\ IntensitiesAdded(tag, q)
BY DEF ReadIntensities, IntensitiesAdded

IntensitiesKnown(tag, q) ==
  \E known, levels :
    LET id == IdOf(s.scenarios, tag)
        named == DOMAIN input.scenarios[tag].intensity
        given == {<<id, IdOfName(known, x)>> : x \in named}
    IN  /\ Grown(s.intensities, known) /\ Range(known) = Range(s.intensities) \cup named
        /\ levels = [p \in DOMAIN s.levels \cup given |->
                      IF p \in given THEN input.scenarios[tag].intensity[known[p[2]]]
                      ELSE s.levels[p]]
        /\ q = [s EXCEPT !.intensities = known, !.levels = levels]

LEMMA AddingIntensities ==
  ASSUME LoadInv, NEW tag \in DOMAIN input.scenarios, NEW q, IntensitiesAdded(tag, q)
  PROVE  IntensitiesKnown(tag, q)
<1> DEFINE named == DOMAIN input.scenarios[tag].intensity
           id == IdOf(s.scenarios, tag)
<1>1. PICK names \in Bijection(1 .. Cardinality(named), named) : q = WithIntensities(tag, names)
  BY DEF IntensitiesAdded
<1> DEFINE known == RegisterNames(s.intensities, names)
           given == {<<id, IdOfName(known, names[i])>> : i \in DOMAIN names}
           here == {<<id, IdOfName(known, x)>> : x \in named}
           levels == [p \in DOMAIN s.levels \cup given |->
                        IF p \in given THEN input.scenarios[tag].intensity[known[p[2]]]
                        ELSE s.levels[p]]
<1>2. IsFiniteSet(named)
  BY InputIs DEF LoadInv
<1>3. IsSeq(names) /\ Range(names) = named
  <2> HIDE DEF named
  <2> QED
    BY <1>2, OrderIs
<1>4. IsSeq(s.intensities)
  BY DEF LoadInv, SimInv, SimLists
<1>5. Grown(s.intensities, known) /\ Range(known) = Range(s.intensities) \cup named
  BY <1>3, <1>4, RegisteringNames
<1>6. q = [s EXCEPT !.intensities = known, !.levels = levels]
  BY <1>1 DEF WithIntensities
<1>7. given = here
  <2> HIDE DEF known, id, named
  <2> QED
    BY <1>3 DEF Range
<1> HIDE DEF known
<1>8. levels = [p \in DOMAIN s.levels \cup here |->
                        IF p \in here THEN input.scenarios[tag].intensity[known[p[2]]]
                        ELSE s.levels[p]]
  <2> HIDE DEF given, here
  <2> QED
    BY <1>7
<1> HIDE DEF levels
<1> QED
  BY <1>5, <1>6, <1>8 DEF IntensitiesKnown

LEMMA IntensityReads ==
  ASSUME LoadInv, NEW tag \in left, ReadIntensities(tag)
  PROVE  LoadInv'
<1>1. phase = "intensity" /\ phase \in Range(Sections) /\ SimInv(s)
  BY IntensityCases, SectionsAre DEF LoadInv
<1>2. tag \in DOMAIN input.scenarios /\ tag \in TagsOf(s.scenarios)
  BY <1>1 DEF LoadInv, NamesIn, AfterScenarios
<1>3. ASSUME NEW q, Read(tag, q), IntensitiesAdded(tag, q)
      PROVE  LoadInv'
  <2> DEFINE named == DOMAIN input.scenarios[tag].intensity
             id == IdOf(s.scenarios, tag)
  <2>1. IntensitiesKnown(tag, q)
    BY <1>2, <1>3, AddingIntensities
  <2>2. PICK known, levels :
          /\ Grown(s.intensities, known) /\ Range(known) = Range(s.intensities) \cup named
          /\ levels = [p \in DOMAIN s.levels \cup {<<id, IdOfName(known, x)>> : x \in named} |->
                        IF p \in {<<id, IdOfName(known, x)>> : x \in named}
                          THEN input.scenarios[tag].intensity[known[p[2]]] ELSE s.levels[p]]
          /\ q = [s EXCEPT !.intensities = known, !.levels = levels]
    BY <2>1 DEF IntensitiesKnown
  <2>3. IsSeq(s.scenarios) /\ IsSeq(known)
    BY <1>1, <2>2 DEF SimInv, SimLists, Grown
  <2>4. id \in DOMAIN s.scenarios
    BY <1>2, <2>3, IdIs
  <2>5. \A x \in named : IdOfName(known, x) \in DOMAIN known
    BY <2>2, <2>3, NameIs
  <2>6. DOMAIN s.levels \subseteq (DOMAIN s.scenarios) \X (DOMAIN s.intensities)
    BY <1>1 DEF SimInv, LevelsHold
  <2>7. DOMAIN s.intensities \subseteq DOMAIN known
    BY <2>2, GrownHas DEF GrownDomain
  <2> HIDE DEF named, id
  <2>8. DOMAIN levels = DOMAIN s.levels \cup {<<id, IdOfName(known, x)>> : x \in named}
    BY <2>2
  <2>9. DOMAIN levels \subseteq (DOMAIN s.scenarios) \X (DOMAIN known)
    BY <2>4, <2>5, <2>6, <2>7, <2>8
  <2>10. levels = [p \in DOMAIN levels |-> levels[p]]
    BY <2>2
  <2>11. SimInv(q)
    BY <1>1, <2>2, <2>3, <2>9, <2>10, ChangingIntensities
  <2>12. q.dists = s.dists /\ q.scenarios = s.scenarios
    BY <1>1, <2>2 DEF SimInv, SimShape
  <2>13. phase # "scenarios" /\ phase # "dist"
    BY <1>1
  <2> QED
    BY <1>1, <1>3, <2>11, <2>12, <2>13, ReadingOn
<1> QED
  BY <1>3, IntensityCases

(* A curve comes last in the list of its type.                             *)
CurveAdded(name, q) ==
  LET curve == input.curves[name]
      list  == s[curve.type]
      new   == [intensity |-> IdOfName(s.intensities, curve.vulnerableTo), data |-> curve.data]
      known == [tag |-> name, type |-> curve.type, idx |-> Len(list) + 1]
  IN  /\ curve.type \in {"linear", "tabular"} /\ Contains(s.intensities, curve.vulnerableTo)
      /\ q = [s EXCEPT ![curve.type] = Append(list, new), !.curves = Register(@, known)]

LEMMA CurveCases ==
  ASSUME NEW name, ReadCurve(name)
  PROVE  /\ phase = "fragility_curve"
         /\ Fail("rejected") \/ \E q : Read(name, q) /\ CurveAdded(name, q)
BY DEF ReadCurve, CurveAdded

LEMMA CurveReads ==
  ASSUME LoadInv, NEW name \in left, ReadCurve(name)
  PROVE  LoadInv'
<1>1. phase = "fragility_curve" /\ phase \in Range(Sections) /\ SimInv(s)
  BY CurveCases, SectionsAre DEF LoadInv
<1>2. CASE Fail("rejected")
  BY <1>2, Failing
<1>4. ASSUME NEW q, Read(name, q), CurveAdded(name, q)
      PROVE  LoadInv'
  <2> DEFINE curve == input.curves[name]
             type == curve.type
             list == Append(s[type],
                       [intensity |-> IdOfName(s.intensities, curve.vulnerableTo), data |-> curve.data])
             record == [tag |-> name, type |-> type, idx |-> Len(s[type]) + 1]
             curves == Register(s.curves, record)
  <2>1. type \in {"linear", "tabular"} /\ q = [s EXCEPT ![type] = list, !.curves = Register(@, record)]
    BY <1>4 DEF CurveAdded
  <2>2. IsSeq(s.curves) /\ UniqueTags(s.curves) /\ IsSeq(s.linear) /\ IsSeq(s.tabular)
    BY <1>1 DEF SimInv, SimLists, SimUnique
  <2> HIDE DEF record
  <2>3. IsSeq(curves) /\ UniqueTags(curves)
    BY <2>2, RegisteredIs
  <2>4. q.dists = s.dists /\ q.scenarios = s.scenarios /\ SimInv(q)
    <3>1. CASE type = "linear"
      <4>1. IsSeq(list)
        BY <2>2, <3>1, Appending
      <4> HIDE DEF list
      <4>2. q = [s EXCEPT !.linear = list, !.curves = curves]
        BY <1>1, <2>1, <3>1 DEF SimInv, SimShape
      <4> HIDE DEF curves
      <4>3. SimInv(q)
        BY <1>1, <2>3, <4>1, <4>2, ChangingLinear
      <4> QED
        BY <1>1, <4>2, <4>3 DEF SimInv, SimShape
    <3>2. CASE type = "tabular"
      <4>1. IsSeq(list)
        BY <2>2, <3>2, Appending
      <4> HIDE DEF list
      <4>2. q = [s EXCEPT !.tabular = list, !.curves = curves]
        BY <1>1, <2>1, <3>2 DEF SimInv, SimShape
      <4> HIDE DEF curves
      <4>3. SimInv(q)
        BY <1>1, <2>3, <4>1, <4>2, ChangingTabular
      <4> QED
        BY <1>1, <4>2, <4>3 DEF SimInv, SimShape
    <3> QED
      BY <2>1, <3>1, <3>2
  <2>5. phase # "scenarios" /\ phase # "dist"
    BY <1>1
  <2> QED
    BY <1>1, <1>4, <2>4, <2>5, ReadingOn
<1> QED
  BY <1>2, <1>4, CurveCases

(* Reading begins with nothing but the flow without a name.                *)
LEMMA EmptyModelIs ==
  ModelInv(EmptyModel)
<1>1. /\ EmptyModel.comps = <<>> /\ EmptyModel.parts = [kind \in WithPart |-> <<>>]
      /\ EmptyModel.conns = <<>> /\ EmptyModel.group = <<>>
      /\ EmptyModel = [comps |-> EmptyModel.comps, parts |-> EmptyModel.parts,
                       conns |-> EmptyModel.conns, group |-> EmptyModel.group]
  BY DEF EmptyModel
<1>2. IsSeq(<<>>) /\ DOMAIN <<>> = {} /\ <<>> = [id \in DOMAIN <<>> |-> <<>>[id]]
  BY Tuples DEF IsSeq
<1>3. ModelShape(EmptyModel)
  BY <1>1, <1>2 DEF ModelShape
<1>4. Placed(EmptyModel)
  BY <1>1, <1>2 DEF Placed
<1>5. MoversAlike(EmptyModel)
  BY <1>1, <1>2 DEF MoversAlike, WithPart
<1>6. SlotsHold(EmptyModel)
  BY <1>1, <1>2 DEF SlotsHold
<1> QED
  BY <1>3, <1>4, <1>5, <1>6 DEF ModelInv

LEMMA Beginning ==
  ASSUME Init
  PROVE  LoadInv
<1>1. /\ input \in Inputs /\ phase = "simulation_info" /\ left = {"simulation_info"}
      /\ s.flows = <<"">> /\ s.model = EmptyModel
      /\ s.info = <<>> /\ s.loads = <<>> /\ s.dists = <<>> /\ s.failureModes = <<>>
      /\ s.links = <<>> /\ s.fragilityModes = <<>> /\ s.fragilities = <<>>
      /\ s.scenarios = <<>> /\ s.offsets = <<>> /\ s.intensities = <<>> /\ s.levels = <<>>
      /\ s.curves = <<>> /\ s.linear = <<>> /\ s.tabular = <<>>
      /\ s = [info |-> s.info, flows |-> s.flows, loads |-> s.loads, model |-> s.model,
          dists |-> s.dists, failureModes |-> s.failureModes, links |-> s.links,
          fragilityModes |-> s.fragilityModes, fragilities |-> s.fragilities,
          scenarios |-> s.scenarios, offsets |-> s.offsets, intensities |-> s.intensities,
          levels |-> s.levels, curves |-> s.curves, linear |-> s.linear, tabular |-> s.tabular]
  BY DEF Init
<1>2. IsSeq(<<>>) /\ DOMAIN <<>> = {} /\ <<>> = [p \in DOMAIN <<>> |-> <<>>[p]]
  BY Tuples DEF IsSeq
<1>3. SimShape(s)
  BY <1>1, <1>2 DEF SimShape
<1>4. IsSeq(s.flows) /\ DOMAIN s.flows = 1 .. 1
  BY <1>1, Tuples
<1>5. SimLists(s)
  BY <1>1, <1>2, <1>4 DEF SimLists
<1>6. SimUnique(s)
  <2>1. /\ DOMAIN s.loads = {} /\ DOMAIN s.dists = {} /\ DOMAIN s.failureModes = {}
        /\ DOMAIN s.fragilityModes = {} /\ DOMAIN s.scenarios = {} /\ DOMAIN s.curves = {}
    BY <1>1, <1>2
  <2> QED
    BY <2>1 DEF SimUnique, UniqueTags
<1>7. s.model.comps = <<>>
  <2>1. EmptyModel.comps = <<>>
    BY DEF EmptyModel
  <2> QED
    BY <1>1, <2>1
<1>8. FlowsHold(s.model, s.flows)
  BY <1>2, <1>4, <1>7 DEF FlowsHold, NoFlow
<1>9. LinksHold(s.links, s.model.comps, s.failureModes)
  BY <1>1, <1>2 DEF LinksHold
<1>10. LinksHold(s.fragilities, s.model.comps, s.fragilityModes)
  BY <1>1, <1>2 DEF LinksHold
<1>11. LevelsHold(s)
  BY <1>1, <1>2 DEF LevelsHold
<1>12. SimInv(s)
  BY <1>1, <1>3, <1>5, <1>6, <1>8, <1>9, <1>10, <1>11, EmptyModelIs DEF SimInv
<1>13. TagsOf(s.dists) = {}
  BY <1>1, <1>2 DEF TagsOf
<1> QED
  BY <1>1, <1>12, <1>13, SectionsAre DEF LoadInv, NamesIn, AfterScenarios, BeforeDists

LEMMA LoadingStep ==
  ASSUME LoadInv, [Next]_vars
  PROVE  LoadInv'
<1>1. CASE UNCHANGED vars
  <2>1. input' = input /\ phase' = phase /\ left' = left /\ s' = s
    BY <1>1 DEF vars
  <2> QED
    BY <2>1 DEF LoadInv, NamesIn
<1>2. CASE ReadInfo
  BY <1>2, InfoReads
<1>3. CASE NextSection
  BY <1>3, SectionReads
<1>4. CASE Check
  BY <1>4, Checking
<1>5. ASSUME NEW name \in left,
             \/ ReadLoad(name)        \/ ReadComponent(name)   \/ ReadDistribution(name)
             \/ ReadFailureMode(name) \/ ReadFragilityMode(name)
             \/ ReadConnection(name)  \/ ReadScenario(name)    \/ ReadIntensities(name)
             \/ ReadCurve(name)
      PROVE  LoadInv'
  BY <1>5, LoadReads, ComponentReads, DistributionReads, FailureModeReads, FragilityModeReads,
     ConnectionReads, ScenarioReads, IntensityReads, CurveReads
<1> QED
  BY <1>1, <1>2, <1>3, <1>4, <1>5 DEF Next

(* The types of everything Simulation_ReadFromToml keeps, with the lengths *)
(* of the lists that go together: what the other invariants rest on.       *)
THEOREM LoadInvHolds == Spec => []LoadInv
<1>1. Init => LoadInv
  BY Beginning
<1>2. LoadInv /\ [Next]_vars => LoadInv'
  BY LoadingStep
<1> QED
  BY <1>1, <1>2, PTL DEF Spec

(* The registries of a Simulation have one entry for a name and refer to   *)
(* each other by ids that exist, at every step of the reading of every     *)
(* input; every component with parameters has some at its index.           *)
THEOREM LoadingTypes == Spec => []TypeOK
<1>1. LoadInv => TypeOK
  <2> SUFFICES ASSUME LoadInv
               PROVE  TypeOK
    OBVIOUS
  <2>1. SimInv(s)
    BY DEF LoadInv
  <2>2. \A comp \in Range(s.model.comps) :
          /\ comp.kind \in WithPart => comp.idx \in DOMAIN s.model.parts[comp.kind]
          /\ Range(comp.inflows) \cup Range(comp.outflows) \subseteq DOMAIN s.flows
    <3>1. Placed(s.model) /\ FlowsHold(s.model, s.flows)
      BY <2>1 DEF SimInv, ModelInv
    <3>2. ASSUME NEW id \in DOMAIN s.model.comps
          PROVE  LET comp == s.model.comps[id]
                 IN  /\ comp.kind \in WithPart => comp.idx \in DOMAIN s.model.parts[comp.kind]
                     /\ Range(comp.inflows) \cup Range(comp.outflows) \subseteq DOMAIN s.flows
      BY <3>1 DEF Placed, FlowsHold
    <3> QED
      BY <3>2 DEF Range
  <2>3. \A link \in Range(s.links) :
          link[1] \in DOMAIN s.model.comps /\ link[2] \in DOMAIN s.failureModes
    BY <2>1 DEF SimInv, LinksHold, Range
  <2>4. \A link \in Range(s.fragilities) :
          link[1] \in DOMAIN s.model.comps /\ link[2] \in DOMAIN s.fragilityModes
    BY <2>1 DEF SimInv, LinksHold, Range
  <2> QED
    BY <2>1, <2>2, <2>3, <2>4 DEF TypeOK, LoadInv, SimInv, SimUnique, LevelsHold
<1> QED
  BY <1>1, LoadInvHolds, PTL

-----------------------------------------------------------------------------
(* What reading one name of a section does.                                *)
NameRead(name, q) ==
  \/ phase = "simulation_info" /\ \E info : q = [s EXCEPT !.info = info]
  \/ phase = "loads" /\ \E loads : q = [s EXCEPT !.loads = loads]
  \/ phase = "components" /\ name \notin TagsInUse /\ q = s
  \/ phase = "components" /\ name \in TagsInUse /\ ComponentAdded(name, q)
  \/ phase = "dist" /\ DistAdded(name, q)
  \/ phase = "failure_mode" /\ FailureModeAdded(name, q)
  \/ phase = "fragility_mode" /\ FragilityModeAdded(name, q)
  \/ phase = "network" /\ ConnectionAdded(name, q)
  \/ phase = "scenarios" /\ ScenarioAdded(name, q)
  \/ phase = "intensity" /\ IntensitiesAdded(name, q)
  \/ phase = "fragility_curve" /\ CurveAdded(name, q)

LoadStep ==
  \/ UNCHANGED vars
  \/ Fail("rejected") \/ Fail("crashed")
  \/ phase = "dist" /\ GiveUpSection
  \/ NextSection
  \/ Check
  \/ \E name \in left : \E q : Read(name, q) /\ NameRead(name, q)

LEMMA LoadStepIs ==
  ASSUME LoadInv, [Next]_vars
  PROVE  LoadStep
<1>0. SimInv(s)
  BY DEF LoadInv
<1>1. CASE ReadInfo
  <2>1. CASE FailToRead(SimulationInfoFields, input.info)
    BY <2>1, EndingsAre DEF LoadStep
  <2>2. ASSUME NEW info, phase = "simulation_info", left # {},
               Read("simulation_info", [s EXCEPT !.info = info])
        PROVE  LoadStep
    <3>1. "simulation_info" \in left
      BY <2>2, SectionsAre DEF LoadInv, NamesIn
    <3> DEFINE q == [s EXCEPT !.info = info]
    <3>2. NameRead("simulation_info", q)
      BY <2>2 DEF NameRead
    <3>3. Read("simulation_info", q)
      BY <2>2
    <3> HIDE DEF q
    <3> QED
      BY <3>1, <3>2, <3>3 DEF LoadStep
  <2> QED
    BY <1>1, <2>1, <2>2 DEF ReadInfo
<1>2. ASSUME NEW tag \in left, ReadLoad(tag)
      PROVE  LoadStep
  <2>1. CASE Fail("rejected")
    BY <2>1 DEF LoadStep
  <2>2. ASSUME NEW list \in LoadsIn(tag, input.loads[tag]),
               Read(tag, [s EXCEPT !.loads = RegisterTags(s.loads, list)])
        PROVE  LoadStep
    <3> DEFINE loads == RegisterTags(s.loads, list)
               q == [s EXCEPT !.loads = loads]
    <3>1. phase = "loads" /\ Read(tag, q)
      BY <1>2, <2>2, LoadCases
    <3> HIDE DEF loads
    <3>2. NameRead(tag, q)
      BY <3>1 DEF NameRead
    <3> HIDE DEF q
    <3> QED
      BY <3>1, <3>2 DEF LoadStep
  <2> QED
    BY <1>2, <2>1, <2>2, LoadCases
<1>3. ASSUME NEW tag \in left, ReadComponent(tag)
      PROVE  LoadStep
  BY <1>3, ComponentCases DEF LoadStep, NameRead
<1>4. ASSUME NEW name \in left, ReadDistribution(name)
      PROVE  LoadStep
  BY <1>4, DistributionCases DEF LoadStep, NameRead
<1>5. ASSUME NEW name \in left, ReadFailureMode(name)
      PROVE  LoadStep
  BY <1>5, FailureModeCases DEF LoadStep, NameRead
<1>6. ASSUME NEW name \in left, ReadFragilityMode(name)
      PROVE  LoadStep
  BY <1>6, FragilityModeCases DEF LoadStep, NameRead
<1>7. ASSUME NEW name \in left, ReadConnection(name)
      PROVE  LoadStep
  BY <1>0, <1>7, ConnectionCases DEF LoadStep, NameRead
<1>8. ASSUME NEW name \in left, ReadScenario(name)
      PROVE  LoadStep
  BY <1>8, ScenarioCases DEF LoadStep, NameRead
<1>9. ASSUME NEW name \in left, ReadIntensities(name)
      PROVE  LoadStep
  BY <1>9, IntensityCases DEF LoadStep, NameRead
<1>10. ASSUME NEW name \in left, ReadCurve(name)
      PROVE  LoadStep
  BY <1>10, CurveCases DEF LoadStep, NameRead
<1>11. CASE UNCHANGED vars
  BY <1>11 DEF LoadStep
<1>12. CASE NextSection \/ Check
  BY <1>12 DEF LoadStep
<1> QED
  BY <1>1, <1>2, <1>3, <1>4, <1>5, <1>6, <1>7, <1>8, <1>9, <1>10, <1>11, <1>12 DEF Next

(* The model grows by components and connections.                          *)
LEMMA ModelSteps ==
  ASSUME LoadInv, [Next]_vars
  PROVE  \/ s'.model = s.model
         \/ \E tag \in left : /\ phase = "components" /\ tag \in TagsInUse
                               /\ Read(tag, s') /\ ComponentAdded(tag, s')
         \/ \E i \in left : phase = "network" /\ Read(i, s') /\ ConnectionAdded(i, s')
<1>1. LoadStep
  BY LoadStepIs
<1>2. CASE s' = s
  BY <1>2
<1>3. ASSUME NEW name \in left, NEW q, Read(name, q), NameRead(name, q)
      PROVE  \/ s'.model = s.model
             \/ /\ phase = "components" /\ name \in TagsInUse
                /\ Read(name, s') /\ ComponentAdded(name, s')
             \/ phase = "network" /\ Read(name, s') /\ ConnectionAdded(name, s')
  <2>1. s' = q
    BY <1>3 DEF Read
  <2>2. SimShape(s)
    BY DEF LoadInv, SimInv
  <2>3. ASSUME NEW info, q = [s EXCEPT !.info = info]
        PROVE  q.model = s.model
    BY <2>2, <2>3 DEF SimShape
  <2>4. ASSUME NEW loads, q = [s EXCEPT !.loads = loads]
        PROVE  q.model = s.model
    BY <2>2, <2>4 DEF SimShape
  <2>5. ASSUME DistAdded(name, q)
        PROVE  q.model = s.model
    <3>1. \E e : q = [s EXCEPT !.dists = Append(@, e)]
      BY <2>5 DEF DistAdded
    <3>2. \E dists : q = [s EXCEPT !.dists = dists]
      BY <3>1
    <3> QED
      BY <2>2, <3>2 DEF SimShape
  <2>6. ASSUME FailureModeAdded(name, q)
        PROVE  q.model = s.model
    <3>1. \E e : q = [s EXCEPT !.failureModes = Register(@, e)]
      BY <2>6 DEF FailureModeAdded
    <3>2. \E modes : q = [s EXCEPT !.failureModes = modes]
      BY <3>1
    <3> QED
      BY <2>2, <3>2 DEF SimShape
  <2>7. ASSUME FragilityModeAdded(name, q)
        PROVE  q.model = s.model
    <3>1. \E curves, e : q = [s EXCEPT !.curves = curves, !.fragilityModes = Register(@, e)]
      BY <2>7 DEF FragilityModeAdded
    <3>2. \E curves, modes : q = [s EXCEPT !.curves = curves, !.fragilityModes = modes]
      BY <3>1
    <3> QED
      BY <2>2, <3>2 DEF SimShape
  <2>8. ASSUME ScenarioAdded(name, q)
        PROVE  q.model = s.model
    <3>1. \E scenarios, offsets : q = [s EXCEPT !.scenarios = scenarios, !.offsets = offsets]
      BY <2>8 DEF ScenarioAdded, RegisterScenario
    <3> QED
      BY <2>2, <3>1 DEF SimShape
  <2>9. ASSUME IntensitiesAdded(name, q)
        PROVE  q.model = s.model
    <3>1. \E known, levels : q = [s EXCEPT !.intensities = known, !.levels = levels]
      BY <2>9 DEF IntensitiesAdded, WithIntensities
    <3> QED
      BY <2>2, <3>1 DEF SimShape
  <2>10. ASSUME CurveAdded(name, q)
        PROVE  q.model = s.model
    <3>1. \E type \in {"linear", "tabular"} : \E list, e :
             q = [s EXCEPT ![type] = list, !.curves = Register(@, e)]
      BY <2>10 DEF CurveAdded
    <3>2. \E list, curves : \/ q = [s EXCEPT !.linear = list, !.curves = curves]
                            \/ q = [s EXCEPT !.tabular = list, !.curves = curves]
      BY <3>1
    <3> QED
      BY <2>2, <3>2 DEF SimShape
  <2> QED
    BY <1>3, <2>1, <2>3, <2>4, <2>5, <2>6, <2>7, <2>8, <2>9, <2>10 DEF NameRead
<1> QED
  BY <1>1, <1>2, <1>3 DEF LoadStep, vars, Fail, GiveUpSection, NextSection, Check

-----------------------------------------------------------------------------
(* A share of an amount is not more than the amount.                       *)
LEMMA ShareWithin ==
  ASSUME NEW capacity \in Nat, NEW share \in Int \X (Nat \ {0}), UnitRange(share)
  PROVE  Amount(<<share[1] * capacity, share[2]>>) \in 0 .. capacity
<1> DEFINE p == share[1]
           d == share[2]
           n == p * capacity
<1>1. p \in Nat /\ d \in Nat \ {0} /\ p <= d
  BY DEF UnitRange, AtMostOne
<1> HIDE DEF p, d
<1>2. n \in Nat /\ n <= d * capacity
  BY <1>1
<1> HIDE DEF n
<1>3. n \div d \in Nat /\ d * (n \div d) <= n
  BY <1>1, <1>2
<1> DEFINE a == n \div d
<1>4. a \in Nat /\ d * a <= d * capacity
  BY <1>1, <1>2, <1>3
<1> HIDE DEF a
<1>5. a <= capacity
  <2> SUFFICES ASSUME capacity + 1 <= a
               PROVE  FALSE
    BY <1>4
  <2>1. d * (capacity + 1) <= d * a
    BY <1>1, <1>4
  <2>2. d * (capacity + 1) = d * capacity + d
    BY <1>1
  <2> QED
    BY <1>1, <1>4, <2>1, <2>2
<1>6. Amount(<<n, d>>) = a
  BY DEF Amount, a
<1> QED
  BY <1>4, <1>5, <1>6 DEF n, p, d

StoreHolds(param) ==
  /\ {"capacity", "chargeAmount", "initial"} \subseteq DOMAIN param
  /\ param.chargeAmount < param.capacity /\ param.initial <= param.capacity

LEMMA StoreParamHolds ==
  ASSUME NEW f, NEW byScenario, Suitable("Store", f), FieldsHaveTheirTypes("Store", f)
  PROVE  StoreHolds(Param("Store", f, byScenario))
<1> DEFINE capacity == Amount(f.capacity)
           param == Param("Store", f, byScenario)
<1>1. /\ f.capacity \in Nat \X (Nat \ {0})
      /\ f.charge_at_soc \in Int \X (Nat \ {0}) /\ f.init_soc \in Int \X (Nat \ {0})
  BY DEF FieldsHaveTheirTypes
<1>2. capacity # 0 /\ UnitRange(f.charge_at_soc) /\ UnitRange(f.init_soc)
  BY DEF Suitable
<1>3. capacity \in Nat
  BY <1>1 DEF Amount
<1>4. /\ param.capacity = capacity /\ param.chargeAmount = ChargeAmount(capacity, f.charge_at_soc)
      /\ param.initial = Amount(<<f.init_soc[1] * capacity, f.init_soc[2]>>)
      /\ {"capacity", "chargeAmount", "initial"} \subseteq DOMAIN param
  BY DEF Param
<1> HIDE DEF param, capacity
<1>5. param.initial <= capacity
  BY <1>1, <1>2, <1>3, <1>4, ShareWithin
<1>6. ChargeAmount(capacity, f.charge_at_soc) < capacity
  <2>1. Amount(<<f.charge_at_soc[1] * capacity, f.charge_at_soc[2]>>) \in 0 .. capacity
    BY <1>1, <1>2, <1>3, ShareWithin
  <2> DEFINE amount == Amount(<<f.charge_at_soc[1] * capacity, f.charge_at_soc[2]>>)
  <2>2. ChargeAmount(capacity, f.charge_at_soc) = IF amount = capacity THEN capacity - 1 ELSE amount
    BY DEF ChargeAmount
  <2>3. amount \in 0 .. capacity
    BY <2>1
  <2> HIDE DEF amount
  <2> QED
    BY <1>2, <1>3, <2>2, <2>3
<1> QED
  BY <1>4, <1>5, <1>6 DEF StoreHolds, param

StoresHold(m) ==
  \A i \in DOMAIN m.parts["Store"] : StoreHolds(m.parts["Store"][i].param)

LEMMA StoresStay ==
  ASSUME NEW m, ModelInv(m), NEW r, ModelInv(r), StoresHold(m), MadeOf(m, r),
         Len(r.parts["Store"]) = Len(m.parts["Store"])
  PROVE  StoresHold(r)
<1>1. "Store" \in WithPart
  BY DEF WithPart
<1>2. IsSeq(m.parts["Store"]) /\ IsSeq(r.parts["Store"])
  BY <1>1 DEF ModelInv, ModelShape
<1>3. DOMAIN r.parts["Store"] = DOMAIN m.parts["Store"]
  BY <1>2, SeqLength
<1>4. \A i \in DOMAIN m.parts["Store"] : r.parts["Store"][i].param = m.parts["Store"][i].param
  BY <1>1 DEF MadeOf, PartsStay
<1> QED
  BY <1>3, <1>4 DEF StoresHold

LEMMA StoresAdded ==
  ASSUME NEW m, ModelInv(m), StoresHold(m), NEW r, NEW kind \in WithPart, NEW ids, NEW tag,
         NEW param, AddedWith(m, r, kind, ids, tag, param), kind = "Store" => StoreHolds(param)
  PROVE  StoresHold(r) /\ ModelInv(r)
<1>1. PICK inflows, outflows : AddedOne(m, r, kind, inflows, outflows, tag, param)
  BY DEF AddedWith
<1>2. ModelInv(r) /\ MadeOf(m, r)
  BY <1>1 DEF AddedOne
<1>3. "Store" \in WithPart
  BY DEF WithPart
<1>4. CASE kind # "Store"
  <2>1. Len(r.parts["Store"]) = Len(m.parts["Store"])
    BY <1>1, <1>3, <1>4 DEF AddedOne
  <2> QED
    BY <1>2, <2>1, StoresStay
<1>5. CASE kind = "Store"
  <2> DEFINE a == m.parts["Store"]
             b == r.parts["Store"]
  <2>1. Len(b) = Len(a) + 1 /\ b[Len(a) + 1].param = param
    BY <1>1, <1>3, <1>5 DEF AddedOne
  <2>2. \A i \in DOMAIN a : b[i].param = a[i].param
    BY <1>2, <1>3 DEF MadeOf, PartsStay
  <2>3. IsSeq(a) /\ IsSeq(b)
    BY <1>2, <1>3 DEF ModelInv, ModelShape
  <2>4. \A i \in DOMAIN a : StoreHolds(a[i].param)
    BY DEF StoresHold
  <2> HIDE DEF a, b
  <2>5. \A i \in DOMAIN b : i \in DOMAIN a \/ i = Len(a) + 1
    BY <2>1, <2>3, SeqLength
  <2>6. \A i \in DOMAIN b : StoreHolds(b[i].param)
    BY <1>5, <2>1, <2>2, <2>4, <2>5
  <2> QED
    BY <1>2, <2>6 DEF StoresHold, b
<1> QED
  BY <1>4, <1>5, <1>2

LEMMA StoresSettled ==
  ASSUME NEW m, ModelInv(m), StoresHold(m), NEW r, Settled(m, r)
  PROVE  StoresHold(r)
<1>1. "Store" \in WithPart
  BY DEF WithPart
<1> DEFINE a == m.parts["Store"]
           b == r.parts["Store"]
<1>2. /\ DOMAIN b = DOMAIN a
      /\ \A i \in DOMAIN a : /\ DOMAIN b[i].param = DOMAIN a[i].param
                             /\ \A x \in DOMAIN a[i].param :
                                  x # "limit" => b[i].param[x] = a[i].param[x]
  BY <1>1 DEF Settled
<1>3. \A i \in DOMAIN a : StoreHolds(a[i].param)
  BY DEF StoresHold
<1> HIDE DEF a, b
<1>4. ASSUME NEW i \in DOMAIN b
      PROVE  StoreHolds(b[i].param)
  <2> DEFINE p == a[i].param
             q == b[i].param
  <2>1. StoreHolds(p) /\ DOMAIN q = DOMAIN p
        /\ \A x \in DOMAIN p : x # "limit" => q[x] = p[x]
    BY <1>2, <1>3
  <2> HIDE DEF p, q
  <2>2. /\ {"capacity", "chargeAmount", "initial"} \subseteq DOMAIN q
        /\ q["capacity"] = p["capacity"] /\ q["chargeAmount"] = p["chargeAmount"]
        /\ q["initial"] = p["initial"]
    BY <2>1 DEF StoreHolds
  <2>3. StoreHolds(q)
    BY <2>1, <2>2 DEF StoreHolds
  <2> QED
    BY <2>3 DEF q
<1> QED
  BY <1>4 DEF StoresHold, b

LEMMA StoresStep ==
  ASSUME LoadInv, StoresHold(s.model), [Next]_vars
  PROVE  StoresHold(s'.model)
<1>0. ModelInv(s.model)
  BY DEF LoadInv, SimInv
<1>1. ASSUME NEW tag \in left, NEW r, ComponentAdded(tag, r)
      PROVE  StoresHold(r.model)
  <2>1. PICK kind \in WithPart : \E f, made, ids, byScenario :
          /\ Suitable(kind, f) /\ FieldsHaveTheirTypes(kind, f)
          /\ AddedWith(s.model, made, kind, ids, tag, Param(kind, f, byScenario))
          /\ Settled(made, r.model)
    BY <1>1 DEF ComponentAdded
  <2>2. PICK f, made, ids, byScenario :
          /\ Suitable(kind, f) /\ FieldsHaveTheirTypes(kind, f)
          /\ AddedWith(s.model, made, kind, ids, tag, Param(kind, f, byScenario))
          /\ Settled(made, r.model)
    BY <2>1
  <2> DEFINE param == Param(kind, f, byScenario)
  <2>3. kind = "Store" => StoreHolds(param)
    BY <2>2, StoreParamHolds
  <2>4. AddedWith(s.model, made, kind, ids, tag, param)
    BY <2>2
  <2> HIDE DEF param
  <2>5. StoresHold(made) /\ ModelInv(made)
    BY <1>0, <2>3, <2>4, StoresAdded
  <2> QED
    BY <2>2, <2>5, StoresSettled
<1>2. ASSUME NEW i \in left, NEW q, ConnectionAdded(i, q)
      PROVE  StoresHold(q.model)
  <2> DEFINE c == input.conns[i]
             flow == IdOfName(s.flows, c.flow)
  <2>1. PICK from \in DOMAIN s.model.comps, to \in DOMAIN s.model.comps :
          \E m : /\ m = AddConnection(s.model, from, c.fromPort, to, c.toPort, flow)
                 /\ q = [s EXCEPT !.model = m]
    BY <1>2 DEF ConnectionAdded
  <2>2. PICK m : /\ m = AddConnection(s.model, from, c.fromPort, to, c.toPort, flow)
                 /\ q = [s EXCEPT !.model = m]
    BY <2>1
  <2> HIDE DEF flow
  <2>3. ModelInv(m) /\ MadeOf(s.model, m)
        /\ Connected(s.model, m, from, c.fromPort, to, c.toPort, flow)
    BY <1>0, <2>2, Connecting
  <2>4. "Store" \in WithPart
    BY DEF WithPart
  <2>5. DOMAIN m.parts["Store"] = DOMAIN s.model.parts["Store"]
    BY <2>3, <2>4 DEF Connected
  <2>6. IsSeq(m.parts["Store"]) /\ IsSeq(s.model.parts["Store"])
    BY <1>0, <2>3, <2>4 DEF ModelInv, ModelShape
  <2>7. Len(m.parts["Store"]) = Len(s.model.parts["Store"])
    BY <2>5, <2>6, SeqLength
  <2>8. StoresHold(m)
    BY <1>0, <2>3, <2>7, StoresStay
  <2>9. q.model = m
    BY <2>2 DEF LoadInv, SimInv, SimShape
  <2> QED
    BY <2>8, <2>9
<1> QED
  BY <1>1, <1>2, ModelSteps

(* Every store that any input comes to can charge and begins with no more  *)
(* than it holds, which is what Model_AddStore asserts: whatever fraction  *)
(* the input gives, cut off as the code cuts it off.                       *)
THEOREM StoresCanBeUsedAlways == Spec => []StoresCanBeUsed
<1> DEFINE J == LoadInv /\ StoresHold(s.model)
<1>1. Init => J
  <2> SUFFICES ASSUME Init PROVE StoresHold(s.model)
    BY Beginning
  <2>1. EmptyModel.parts["Store"] = <<>>
    BY DEF EmptyModel, WithPart
  <2>2. s.model = EmptyModel
    BY DEF Init
  <2> QED
    BY <2>1, <2>2, Tuples DEF StoresHold
<1>2. J /\ [Next]_vars => J'
  BY LoadingStep, StoresStep
<1>3. J => StoresCanBeUsed
  BY DEF StoresCanBeUsed, StoresHold, StoreHolds, Range
<1> QED
  BY <1>1, <1>2, <1>3, PTL DEF Spec

-----------------------------------------------------------------------------
(* Checking a network: a component is there only when a connection names   *)
(* it, so that the first connection, which a slot holds that is not        *)
(* connected, is there when the network is checked.                        *)
AfterNetwork == {"scenarios"} \cup AfterScenarios

ConnsInv ==
  /\ DOMAIN s.model.comps # {} => DOMAIN input.conns # {}
  /\ phase = "network" /\ left # DOMAIN input.conns => DOMAIN s.model.conns # {}
  /\ phase \in AfterNetwork /\ DOMAIN input.conns # {} => DOMAIN s.model.conns # {}
  /\ phase = "checked" => issues = CheckNetwork(s.model)

LEMMA ConnsStep ==
  ASSUME LoadInv, ConnsInv, [Next]_vars
  PROVE  ConnsInv'
<1>0. /\ IsSeq(s.model.comps) /\ IsSeq(s.model.conns) /\ ModelInv(s.model)
      /\ phase \in Range(Sections) => left \subseteq NamesIn(phase)
  BY DEF LoadInv, SimInv, ModelInv, ModelShape
<1>1. LoadStep
  BY LoadStepIs
<1>2. CASE UNCHANGED vars
  <2>1. input' = input /\ phase' = phase /\ left' = left /\ s' = s /\ issues' = issues
    BY <1>2 DEF vars
  <2> QED
    BY <2>1 DEF ConnsInv
<1>3. CASE Fail("rejected") \/ Fail("crashed")
  <2>1. input' = input /\ s' = s /\ phase' \in {"rejected", "crashed"}
    BY <1>3 DEF Fail
  <2> QED
    BY <2>1 DEF ConnsInv, AfterNetwork, AfterScenarios
<1>4. CASE phase = "dist" /\ GiveUpSection
  <2>1. input' = input /\ s' = s /\ phase' = "dist"
    BY <1>4 DEF GiveUpSection
  <2> QED
    BY <2>1 DEF ConnsInv, AfterNetwork, AfterScenarios
<1>5. CASE NextSection
  <2>1. CASE Fail("rejected")
    BY <1>3, <2>1
  <2>2. ASSUME phase \in Range(Sections) \ {"ready"}, left = {},
               phase' = Follows(phase), left' = NamesIn(Follows(phase)),
               UNCHANGED <<input, s, issues>>
        PROVE  ConnsInv'
    <3>1. input' = input /\ s' = s
      BY <2>2
    <3>2. phase \in {"simulation_info", "loads", "components", "dist", "failure_mode",
                     "fragility_mode", "network", "scenarios", "intensity", "fragility_curve"}
      BY <2>2, SectionsAre
    <3>3. /\ phase' # "checked"
          /\ phase' \in AfterNetwork => phase \in {"network"} \cup AfterNetwork
          /\ phase' = "network" => left' = DOMAIN input.conns
      BY <2>2, <3>2, FollowsAre DEF AfterNetwork, AfterScenarios, NamesIn
    <3> QED
      BY <2>2, <3>1, <3>3 DEF ConnsInv
  <2> QED
    BY <1>5, <2>1, <2>2, NextSectionIs
<1>6. CASE Check
  <2>1. /\ input' = input /\ s' = s /\ phase = "ready" /\ phase' = "checked"
        /\ issues' = CheckNetwork(s.model)
    BY <1>6 DEF Check
  <2> QED
    BY <2>1 DEF ConnsInv, AfterNetwork, AfterScenarios
<1>7. ASSUME NEW name \in left, NEW q, Read(name, q), NameRead(name, q)
      PROVE  ConnsInv'
  <2>1. input' = input /\ phase' = phase /\ issues' = issues /\ left' = left \ {name} /\ s' = q
    BY <1>7 DEF Read
  <2>2. phase # "checked"
    BY <1>7, SectionsAre DEF NameRead
  <2>3. CASE s'.model = s.model
    <3>1. phase = "network" => phase \in Range(Sections)
      BY SectionsAre
    <3>2. phase # "network"
      <4> SUFFICES ASSUME phase = "network"
                   PROVE  FALSE
        OBVIOUS
      <4>1. ConnectionAdded(name, q)
        BY <1>7 DEF NameRead
      <4> DEFINE c == input.conns[name]
                 flow == IdOfName(s.flows, c.flow)
      <4>2. PICK from \in DOMAIN s.model.comps, to \in DOMAIN s.model.comps :
              \E m : /\ m = AddConnection(s.model, from, c.fromPort, to, c.toPort, flow)
                     /\ q = [s EXCEPT !.model = m]
        BY <4>1 DEF ConnectionAdded
      <4>3. PICK m : /\ m = AddConnection(s.model, from, c.fromPort, to, c.toPort, flow)
                     /\ q = [s EXCEPT !.model = m]
        BY <4>2
      <4> HIDE DEF flow
      <4>4. Connected(s.model, m, from, c.fromPort, to, c.toPort, flow)
        BY <1>0, <4>3, Connecting
      <4>5. q.model = m
        BY <4>3 DEF LoadInv, SimInv, SimShape
      <4>6. Len(m.conns) = Len(s.model.conns) + 1 /\ Len(s.model.conns) \in Nat
        BY <1>0, <4>4, Appending, SeqLength DEF Connected
      <4> QED
        BY <2>1, <2>3, <4>5, <4>6
    <3> QED
      BY <2>1, <2>2, <2>3, <3>2 DEF ConnsInv
  <2>4. ASSUME phase = "components", name \in TagsInUse
        PROVE  ConnsInv'
    <3>1. DOMAIN input.conns # {}
      BY <2>4 DEF TagsInUse
    <3> QED
      BY <2>1, <2>4, <3>1 DEF ConnsInv, AfterNetwork, AfterScenarios
  <2>5. ASSUME phase = "network", ConnectionAdded(name, q)
        PROVE  ConnsInv'
    <3> DEFINE c == input.conns[name]
               flow == IdOfName(s.flows, c.flow)
    <3>2. PICK from \in DOMAIN s.model.comps, to \in DOMAIN s.model.comps :
            \E m : /\ m = AddConnection(s.model, from, c.fromPort, to, c.toPort, flow)
                   /\ q = [s EXCEPT !.model = m]
      BY <2>5 DEF ConnectionAdded
    <3>3. PICK m : /\ m = AddConnection(s.model, from, c.fromPort, to, c.toPort, flow)
                   /\ q = [s EXCEPT !.model = m]
      BY <3>2
    <3> HIDE DEF flow
    <3>4. Connected(s.model, m, from, c.fromPort, to, c.toPort, flow)
      BY <1>0, <3>3, Connecting
    <3>5. q.model = m
      BY <3>3 DEF LoadInv, SimInv, SimShape
    <3>6. /\ DOMAIN m.conns = 1 .. Len(s.model.conns) + 1 /\ Len(s.model.conns) \in Nat
          /\ m.comps = s.model.comps
      <4>1. \E e : m.conns = Append(s.model.conns, e)
        BY <3>4 DEF Connected
      <4> QED
        BY <1>0, <3>4, <4>1, Appending, SeqLength DEF Connected
    <3>7. DOMAIN m.conns # {}
      <4>1. 1 \in DOMAIN m.conns
        BY <3>6
      <4> QED
        BY <4>1
    <3> QED
      BY <2>1, <2>2, <3>5, <3>6, <3>7 DEF ConnsInv
  <2>6. \/ s'.model = s.model
        \/ phase = "components" /\ name \in TagsInUse
        \/ phase = "network" /\ ConnectionAdded(name, q)
    <3>1. CASE phase = "components"
      BY <1>7, <2>1, <3>1 DEF NameRead
    <3>2. CASE phase = "network"
      BY <1>7, <3>2 DEF NameRead
    <3>3. CASE phase \notin {"components", "network"}
      BY <3>3, ModelSteps
    <3> QED
      BY <3>1, <3>2, <3>3
  <2> QED
    BY <2>3, <2>4, <2>5, <2>6
<1> QED
  BY <1>1, <1>2, <1>3, <1>4, <1>5, <1>6, <1>7 DEF LoadStep

(* A check that finds nothing has found every slot to hold a connection    *)
(* that ends there, or to be an optional one that holds none.              *)
LEMMA NoIssues ==
  ASSUME NEW m, ModelInv(m), CheckNetwork(m) = {},
         NEW id \in DOMAIN m.comps, m.comps[id].kind \in WithPart,
         NEW slot \in SlotsOf(m, id)
  PROVE  LET k == PartOf(m, id).conn[slot]
         IN  /\ k \in {None, First} \cup DOMAIN m.conns
             /\ k = None => slot \in OptionalSlots(m.comps[id].kind)
             /\ k # None => Fits(m, id, slot, k)
<1> DEFINE comp == m.comps[id]
           kind == comp.kind
           conn == PartOf(m, id).conn
<1>1. /\ comp.idx \in DOMAIN m.parts[kind]
      /\ DOMAIN m.parts[kind][comp.idx].conn = Slots(kind, comp.inflows, comp.outflows)
  BY DEF ModelInv, Placed
<1>2. conn = m.parts[kind][comp.idx].conn
  BY DEF PartOf
<1>3. slot \in DOMAIN conn
  BY <1>1, <1>2 DEF SlotsOf, Slots
<1>4. /\ conn[slot] \in {None, First} \cup DOMAIN m.conns
      /\ conn[slot] = None => slot \in OptionalSlots(kind)
  BY <1>1, <1>2, <1>3 DEF ModelInv, SlotsHold
<1>5. \E kinds : kind \in kinds /\ IssuesOf(m, kinds) = {}
  <2>1. /\ IssuesOf(m, Converters) = {} /\ IssuesOf(m, {"ConstantLoad", "ConstantSource"}) = {}
        /\ IssuesOf(m, Movers) = {} /\ IssuesOf(m, {"Mux"}) = {}
        /\ IssuesOf(m, {"PassThrough", "Switch"}) = {}
        /\ IssuesOf(m, {"ScheduleBasedLoad", "ScheduleBasedSource"}) = {}
        /\ IssuesOf(m, {"Store"}) = {}
    BY DEF CheckNetwork, ConverterIssues, LoadAndSourceIssues, MoverIssues, MuxPortIssues,
           PassingIssues, ScheduleBasedIssues, StoreIssues
  <2>2. \/ kind \in Converters \/ kind \in {"ConstantLoad", "ConstantSource"} \/ kind \in Movers
        \/ kind \in {"Mux"} \/ kind \in {"PassThrough", "Switch"}
        \/ kind \in {"ScheduleBasedLoad", "ScheduleBasedSource"} \/ kind \in {"Store"}
    BY DEF WithPart
  <2> HIDE DEF kind
  <2> QED
    BY <2>1, <2>2
<1>6. conn[slot] # None => Fits(m, id, slot, conn[slot])
  <2>1. PICK kinds : kind \in kinds /\ IssuesOf(m, kinds) = {}
    BY <1>5
  <2>2. {<<id, slot2[1], slot2[2]>> : slot2 \in {x \in DOMAIN conn :
           conn[x] # None /\ ~ Fits(m, id, x, conn[x])}} \subseteq IssuesOf(m, kinds)
    BY <2>1 DEF IssuesOf
  <2> HIDE DEF conn, kind
  <2> QED
    BY <1>3, <2>1, <2>2
<1> QED
  BY <1>4, <1>6

(* Nor are two connections at one port.                                    *)
LEMMA AtMostOneConnection ==
  ASSUME NEW m, ModelInv(m), CheckNetwork(m) = {},
         NEW id, NEW slot, NEW i \in At(m, id, slot), NEW j \in At(m, id, slot)
  PROVE  i = j
<1>1. MultiplyConnected(m) = {}
  BY DEF CheckNetwork
<1>2. i \in DOMAIN m.conns /\ j \in DOMAIN m.conns /\ i \in Nat \ {0} /\ j \in Nat \ {0}
  BY SeqLength DEF At, ModelInv, ModelShape
<1>3. ASSUME NEW a \in At(m, id, slot), NEW b \in DOMAIN m.conns, b \in At(m, id, slot),
             a \in 1 .. b - 1
      PROVE  FALSE
  <2>1. \/ <<m.conns[a].from, m.conns[a].fromPort>> = <<m.conns[b].from, m.conns[b].fromPort>>
        \/ <<m.conns[a].to, m.conns[a].toPort>> = <<m.conns[b].to, m.conns[b].toPort>>
    BY <1>3 DEF At
  <2>2. <<b, "port", 0>> \in MultiplyConnected(m)
    BY <1>3, <2>1 DEF MultiplyConnected
  <2> QED
    BY <1>1, <2>2
<1>4. i < j \/ j < i \/ i = j
  BY <1>2
<1> QED
  BY <1>2, <1>3, <1>4

LEMMA ConnectedOnce ==
  ASSUME NEW m, ModelInv(m), CheckNetwork(m) = {}, DOMAIN m.comps # {} => DOMAIN m.conns # {}
  PROVE  WellConnected(m)
<1> SUFFICES ASSUME NEW id \in DOMAIN m.comps, m.comps[id].kind \in WithPart,
                    NEW slot \in SlotsOf(m, id)
             PROVE  \/ Cardinality(At(m, id, slot)) = 1
                    \/ /\ Cardinality(At(m, id, slot)) = 0
                       /\ slot \in OptionalSlots(m.comps[id].kind)
  BY DEF WellConnected
<1> DEFINE k == PartOf(m, id).conn[slot]
           S == At(m, id, slot)
<1>1. /\ k \in {None, First} \cup DOMAIN m.conns
      /\ k = None => slot \in OptionalSlots(m.comps[id].kind)
      /\ k # None => Fits(m, id, slot, k)
  BY NoIssues
<1>2. First \in DOMAIN m.conns
  <2>1. IsSeq(m.conns) /\ DOMAIN m.conns # {}
    BY DEF ModelInv, ModelShape
  <2> QED
    BY <2>1, SeqLength DEF First
<1>3. CASE S = {}
  <2>1. k = None
    <3> SUFFICES ASSUME k # None
                 PROVE  FALSE
      OBVIOUS
    <3>1. k \in DOMAIN m.conns /\ Fits(m, id, slot, k)
      BY <1>1, <1>2
    <3> HIDE DEF k
    <3>2. k \in At(m, id, slot)
      BY <3>1 DEF Fits, At
    <3> QED
      BY <1>3, <3>2
  <2>2. Cardinality(S) = 0
    BY <1>3, FS_EmptySet
  <2> QED
    BY <1>1, <2>1, <2>2
<1>4. CASE S # {}
  <2>1. PICK i : i \in S
    BY <1>4
  <2>2. \A j \in S : j = i
    BY <2>1, AtMostOneConnection
  <2> HIDE DEF S
  <2>3. S = {i}
    BY <2>1, <2>2
  <2>4. Cardinality(S) = 1
    BY <2>3, FS_Singleton
  <2> QED
    BY <2>4 DEF S
<1> QED
  BY <1>3, <1>4

LEMMA ConnsAlways == Spec => [](LoadInv /\ ConnsInv)
<1>1. Init => ConnsInv
  <2> SUFFICES ASSUME Init
               PROVE  ConnsInv
    OBVIOUS
  <2>1. phase = "simulation_info" /\ s.model = EmptyModel
    BY DEF Init
  <2>2. EmptyModel.comps = <<>>
    BY DEF EmptyModel
  <2>3. DOMAIN s.model.comps = {}
    BY <2>1, <2>2, Tuples
  <2> QED
    BY <2>1, <2>3 DEF ConnsInv, AfterNetwork, AfterScenarios
<1>2. LoadInv /\ ConnsInv /\ [Next]_vars => ConnsInv'
  BY ConnsStep
<1> QED
  BY <1>1, <1>2, LoadInvHolds, PTL DEF Spec

(* Of every input and every order of its tables: nothing that is wrong with*)
(* the connections of a network escapes the check, whatever was connected  *)
(* last to a port that is used twice.                                      *)
THEOREM CheckIsComplete == Spec => []CheckFindsEveryFault
<1>1. LoadInv /\ ConnsInv => CheckFindsEveryFault
  <2> SUFFICES ASSUME LoadInv, ConnsInv, phase = "checked", issues = {}
               PROVE  WellConnected(s.model)
    BY DEF CheckFindsEveryFault
  <2>1. ModelInv(s.model)
    BY DEF LoadInv, SimInv
  <2>2. CheckNetwork(s.model) = {}
    BY DEF ConnsInv
  <2>3. DOMAIN s.model.comps # {} => DOMAIN s.model.conns # {}
    BY DEF ConnsInv, AfterNetwork, AfterScenarios
  <2> QED
    BY <2>1, <2>2, <2>3, ConnectedOnce
<1> QED
  BY <1>1, ConnsAlways, PTL

-----------------------------------------------------------------------------
(* What of a Simulation the reading of a name leaves alone.                *)
Kept(q) ==
  /\ phase # "dist" => q.dists = s.dists
  /\ phase \notin {"components", "failure_mode"} => q.failureModes = s.failureModes
  /\ phase \notin {"components", "fragility_mode"} => q.fragilityModes = s.fragilityModes
  /\ phase \notin {"fragility_mode", "fragility_curve"} => q.curves = s.curves
  /\ phase \notin {"components", "scenarios"} => q.scenarios = s.scenarios
  /\ phase # "intensity" => q.intensities = s.intensities /\ q.levels = s.levels
  /\ phase # "fragility_curve" => q["linear"] = s["linear"] /\ q["tabular"] = s["tabular"]

LEMMA KeptByReading ==
  ASSUME LoadInv, NEW name, NEW q, NameRead(name, q)
  PROVE  Kept(q)
<1>0. SimShape(s)
  BY DEF LoadInv, SimInv
<1>1. ASSUME NEW info, q = [s EXCEPT !.info = info]
      PROVE  Kept(q)
  BY <1>0, <1>1 DEF SimShape, Kept
<1>2. ASSUME NEW loads, q = [s EXCEPT !.loads = loads]
      PROVE  Kept(q)
  BY <1>0, <1>2 DEF SimShape, Kept
<1>3. ASSUME phase = "components", ComponentAdded(name, q)
      PROVE  Kept(q)
  <2>1. OthersStay(s, q)
    BY <1>3 DEF ComponentAdded
  <2> QED
    BY <1>3, <2>1 DEF OthersStay, Kept
<1>4. ASSUME phase = "dist", DistAdded(name, q)
      PROVE  Kept(q)
  <2>1. \E e : q = [s EXCEPT !.dists = Append(@, e)]
    BY <1>4 DEF DistAdded
  <2>2. \E dists : q = [s EXCEPT !.dists = dists]
    BY <2>1
  <2> QED
    BY <1>0, <1>4, <2>2 DEF SimShape, Kept
<1>5. ASSUME phase = "failure_mode", FailureModeAdded(name, q)
      PROVE  Kept(q)
  <2>1. \E e : q = [s EXCEPT !.failureModes = Register(@, e)]
    BY <1>5 DEF FailureModeAdded
  <2>2. \E modes : q = [s EXCEPT !.failureModes = modes]
    BY <2>1
  <2> QED
    BY <1>0, <1>5, <2>2 DEF SimShape, Kept
<1>6. ASSUME phase = "fragility_mode", FragilityModeAdded(name, q)
      PROVE  Kept(q)
  <2>1. \E curves, e : q = [s EXCEPT !.curves = curves, !.fragilityModes = Register(@, e)]
    BY <1>6 DEF FragilityModeAdded
  <2>2. \E curves, modes : q = [s EXCEPT !.curves = curves, !.fragilityModes = modes]
    BY <2>1
  <2> QED
    BY <1>0, <1>6, <2>2 DEF SimShape, Kept
<1>7. ASSUME phase = "network", ConnectionAdded(name, q)
      PROVE  Kept(q)
  <2>1. \E m : q = [s EXCEPT !.model = m]
    BY <1>7 DEF ConnectionAdded
  <2> QED
    BY <1>0, <1>7, <2>1 DEF SimShape, Kept
<1>8. ASSUME phase = "scenarios", ScenarioAdded(name, q)
      PROVE  Kept(q)
  <2>1. \E scenarios, offsets : q = [s EXCEPT !.scenarios = scenarios, !.offsets = offsets]
    BY <1>8 DEF ScenarioAdded, RegisterScenario
  <2> QED
    BY <1>0, <1>8, <2>1 DEF SimShape, Kept
<1>9. ASSUME phase = "intensity", IntensitiesAdded(name, q)
      PROVE  Kept(q)
  <2>1. \E known, levels : q = [s EXCEPT !.intensities = known, !.levels = levels]
    BY <1>9 DEF IntensitiesAdded, WithIntensities
  <2> QED
    BY <1>0, <1>9, <2>1 DEF SimShape, Kept
<1>10. ASSUME phase = "fragility_curve", CurveAdded(name, q)
      PROVE  Kept(q)
  <2>1. \E type \in {"linear", "tabular"} : \E list, e :
           q = [s EXCEPT ![type] = list, !.curves = Register(@, e)]
    BY <1>10 DEF CurveAdded
  <2>2. \E list, curves : \/ q = [s EXCEPT !.linear = list, !.curves = curves]
                          \/ q = [s EXCEPT !.tabular = list, !.curves = curves]
    BY <2>1
  <2> QED
    BY <1>0, <1>10, <2>2 DEF SimShape, Kept
<1>11. ASSUME q = s
       PROVE  Kept(q)
  BY <1>11 DEF Kept
<1> QED
  BY <1>1, <1>2, <1>3, <1>4, <1>5, <1>6, <1>7, <1>8, <1>9, <1>10, <1>11 DEF NameRead

-----------------------------------------------------------------------------
(* The names that a section has been through with, and what holds of them. *)
Later(section) ==
  CASE section = "failure_mode"    -> {"fragility_mode", "network", "scenarios", "intensity",
                                       "fragility_curve", "ready", "checked"}
    [] section = "fragility_mode"  -> {"network", "scenarios", "intensity", "fragility_curve",
                                       "ready", "checked"}
    [] section = "scenarios"       -> {"intensity", "fragility_curve", "ready", "checked"}
    [] section = "intensity"       -> {"fragility_curve", "ready", "checked"}
    [] section = "fragility_curve" -> {"ready", "checked"}

Tracked == {"failure_mode", "fragility_mode", "scenarios", "intensity", "fragility_curve"}

Done(section) ==
  {name \in NamesIn(section) : phase \in Later(section) \/ (phase = section /\ name \notin left)}

DoneBy(section, name) == Done(section) \cup (IF phase = section THEN {name} ELSE {})

FailureModesHold(q, file, names) ==
  \A name \in names :
    /\ name \in TagsOf(q.failureModes)
    /\ LET mode == q.failureModes[IdOf(q.failureModes, name)]
       IN  /\ mode.failure \in DOMAIN q.dists /\ mode.repair \in DOMAIN q.dists
           /\ q.dists[mode.failure].tag = file.failureModes[name].failure
           /\ q.dists[mode.repair].tag = file.failureModes[name].repair

FragilityModesHold(q, file, names) ==
  \A name \in names :
    /\ name \in TagsOf(q.fragilityModes)
    /\ LET mode == q.fragilityModes[IdOf(q.fragilityModes, name)]
       IN  /\ mode.repair \subseteq DOMAIN q.dists
           /\ {q.dists[d].tag : d \in mode.repair} = file.fragilityModes[name].repair
           /\ mode.curve \in DOMAIN q.curves
           /\ q.curves[mode.curve].tag = file.fragilityModes[name].curve

CurveHolds(q, file, id) ==
  LET curve == q.curves[id]
      declared == file.curves[curve.tag]
      data == q[curve.type][curve.idx]
  IN  /\ curve.type = declared.type /\ curve.type \in {"linear", "tabular"}
      /\ curve.idx \in DOMAIN q[curve.type] /\ data.data = declared.data
      /\ data.intensity \in DOMAIN q.intensities
      /\ q.intensities[data.intensity] = declared.vulnerableTo

CurvesHold(q, file, names) ==
  \A id \in DOMAIN q.curves : q.curves[id].tag \in names => CurveHolds(q, file, id)

ScenariosHold(q, file, names) ==
  \A tag \in names :
    /\ tag \in TagsOf(q.scenarios)
    /\ LET scenario == q.scenarios[IdOf(q.scenarios, tag)]
           declared == file.scenarios[tag]
       IN  /\ scenario.dist \in DOMAIN q.dists /\ q.dists[scenario.dist].tag = declared.dist
           /\ scenario.duration = declared.duration /\ scenario.max = MaxOccurrences(declared.max)

LevelsOf(q, id) ==
  {<<q.intensities[p[2]], q.levels[p]>> : p \in {x \in DOMAIN q.levels : x[1] = id}}

LevelsAre(q, file, names) ==
  /\ \A p \in DOMAIN q.levels : q.scenarios[p[1]].tag \in names
  /\ \A tag \in names :
       LevelsOf(q, IdOf(q.scenarios, tag))
         = {<<x, file.scenarios[tag].intensity[x]>> : x \in DOMAIN file.scenarios[tag].intensity}

DeclaredInv ==
  phase \in Range(Sections) \cup {"checked"} =>
    /\ FailureModesHold(s, input, Done("failure_mode"))
    /\ FragilityModesHold(s, input, Done("fragility_mode"))
    /\ CurvesHold(s, input, Done("fragility_curve"))
    /\ ScenariosHold(s, input, Done("scenarios"))
    /\ LevelsAre(s, input, Done("intensity"))

LEMMA FailureModeHolds ==
  ASSUME LoadInv, NEW name \in left, NEW q, NameRead(name, q), Kept(q),
         FailureModesHold(s, input, Done("failure_mode"))
  PROVE  FailureModesHold(q, input, DoneBy("failure_mode", name))
<1> DEFINE D == Done("failure_mode")
<1>1. CASE phase = "failure_mode"
  <2>1. FailureModeAdded(name, q)
    BY <1>1 DEF NameRead
  <2> DEFINE declared == input.failureModes[name]
             record == [tag |-> name, failure |-> IdOf(s.dists, declared.failure),
                        repair |-> IdOf(s.dists, declared.repair)]
             modes == Register(s.failureModes, record)
  <2>2. q = [s EXCEPT !.failureModes = modes] /\ HasDist(declared.failure) /\ HasDist(declared.repair)
    BY <2>1 DEF FailureModeAdded
  <2>3. IsSeq(s.dists) /\ IsSeq(s.failureModes) /\ SimShape(s)
    BY DEF LoadInv, SimInv, SimLists
  <2>4. /\ record.tag = name /\ record.failure \in DOMAIN s.dists /\ record.repair \in DOMAIN s.dists
        /\ s.dists[record.failure].tag = declared.failure
        /\ s.dists[record.repair].tag = declared.repair
    BY <2>2, <2>3, TaggedIs, IdIs DEF HasDist
  <2> HIDE DEF record
  <2>5. Registered(s.failureModes, record, modes)
    BY <2>3, Registering
  <2> HIDE DEF modes
  <2>6. q.failureModes = modes /\ q.dists = s.dists
    BY <2>2, <2>3 DEF SimShape
  <2>7. /\ name \in TagsOf(modes) /\ modes[IdOf(modes, name)] = record
    BY <2>4, <2>5 DEF Registered
  <2>8. ASSUME NEW other \in D, other # name
        PROVE  /\ other \in TagsOf(modes)
               /\ modes[IdOf(modes, other)] = s.failureModes[IdOf(s.failureModes, other)]
    <3> DEFINE i == IdOf(s.failureModes, other)
    <3>1. other \in TagsOf(s.failureModes)
      BY <2>8 DEF FailureModesHold
    <3>2. i \in DOMAIN s.failureModes /\ s.failureModes[i].tag = other
      BY <2>3, <3>1, IdIs
    <3> HIDE DEF i
    <3>3. IdOf(modes, other) = IdOf(s.failureModes, other) /\ modes[i] = s.failureModes[i]
      BY <2>4, <2>5, <2>8, <3>2 DEF Registered
    <3>4. other \in TagsOf(modes)
      BY <2>5, <3>1 DEF Registered
    <3> QED
      BY <3>3, <3>4 DEF i
  <2> QED
    BY <1>1, <2>4, <2>6, <2>7, <2>8 DEF FailureModesHold, DoneBy
<1>2. CASE phase # "failure_mode"
  <2>1. DoneBy("failure_mode", name) = D
    BY <1>2 DEF DoneBy
  <2>2. CASE D = {}
    BY <2>1, <2>2 DEF FailureModesHold
  <2>3. CASE D # {}
    <3>1. phase \notin {"dist", "components"}
      BY <1>2, <2>3 DEF Done, Later
    <3>2. q.failureModes = s.failureModes /\ q.dists = s.dists
      BY <1>2, <3>1 DEF Kept
    <3> QED
      BY <2>1, <3>2 DEF FailureModesHold
  <2> QED
    BY <2>2, <2>3
<1> QED
  BY <1>1, <1>2

LEMMA KeptRecord ==
  ASSUME NEW seq, IsSeq(seq), NEW record, NEW r, Registered(seq, record, r),
         NEW tag \in TagsOf(seq), tag # record.tag
  PROVE  tag \in TagsOf(r) /\ r[IdOf(r, tag)] = seq[IdOf(seq, tag)]
<1> DEFINE i == IdOf(seq, tag)
<1>1. i \in DOMAIN seq /\ seq[i].tag = tag
  BY IdIs
<1> HIDE DEF i
<1>2. IdOf(r, tag) = IdOf(seq, tag) /\ r[i] = seq[i]
  BY <1>1 DEF Registered
<1>3. tag \in TagsOf(r)
  BY DEF Registered
<1> QED
  BY <1>2, <1>3 DEF i

LEMMA FragilityModeHolds ==
  ASSUME LoadInv, NEW name \in left, NEW q, NameRead(name, q), Kept(q),
         FragilityModesHold(s, input, Done("fragility_mode"))
  PROVE  FragilityModesHold(q, input, DoneBy("fragility_mode", name))
<1> DEFINE D == Done("fragility_mode")
<1>0. IsSeq(s.dists) /\ IsSeq(s.fragilityModes) /\ IsSeq(s.curves) /\ SimShape(s)
  BY DEF LoadInv, SimInv, SimLists
<1>1. CASE phase = "fragility_mode"
  <2>1. FragilityModeAdded(name, q)
    BY <1>1 DEF NameRead
  <2> DEFINE declared == input.fragilityModes[name]
             unknown == UnknownCurve(declared.curve)
             curves == Register(s.curves, unknown)
             repair == {IdOf(s.dists, d) : d \in declared.repair}
             record == [tag |-> name, curve |-> IdOf(curves, declared.curve), repair |-> repair]
             modes == Register(s.fragilityModes, record)
  <2>2. /\ q = [s EXCEPT !.curves = curves, !.fragilityModes = modes]
        /\ \A d \in declared.repair : HasDist(d)
    BY <2>1 DEF FragilityModeAdded
  <2>3. unknown.tag = declared.curve
    BY DEF UnknownCurve
  <2> HIDE DEF unknown
  <2>4. Registered(s.curves, unknown, curves)
    BY <1>0, Registering
  <2> HIDE DEF curves
  <2>5. \A d \in declared.repair : IdOf(s.dists, d) \in DOMAIN s.dists /\ s.dists[IdOf(s.dists, d)].tag = d
    BY <1>0, <2>2, TaggedIs, IdIs DEF HasDist
  <2>6. repair \subseteq DOMAIN s.dists /\ {s.dists[d].tag : d \in repair} = declared.repair
    BY <2>5
  <2>7. /\ record.tag = name /\ record.repair = repair /\ record.curve = IdOf(curves, declared.curve)
    OBVIOUS
  <2> HIDE DEF record, repair
  <2>8. Registered(s.fragilityModes, record, modes)
    BY <1>0, Registering
  <2> HIDE DEF modes
  <2>9. q.fragilityModes = modes /\ q.dists = s.dists /\ q.curves = curves
    BY <1>0, <2>2 DEF SimShape
  <2>10. record.curve \in DOMAIN curves /\ curves[record.curve].tag = declared.curve
    BY <2>3, <2>4, <2>7 DEF Registered
  <2>11. \A i \in DOMAIN s.curves : i \in DOMAIN curves /\ curves[i].tag = s.curves[i].tag
    BY <2>4 DEF Registered
  <2>12. name \in TagsOf(modes) /\ modes[IdOf(modes, name)] = record
    BY <2>7, <2>8 DEF Registered
  <2>13. ASSUME NEW other \in D, other # name
         PROVE  /\ other \in TagsOf(s.fragilityModes) /\ other \in TagsOf(modes)
                /\ modes[IdOf(modes, other)] = s.fragilityModes[IdOf(s.fragilityModes, other)]
    <3>1. other \in TagsOf(s.fragilityModes)
      BY <2>13 DEF FragilityModesHold
    <3> QED
      BY <1>0, <2>7, <2>8, <2>13, <3>1, KeptRecord
  <2>14. ASSUME NEW other \in D \cup {name}
         PROVE  LET mode == q.fragilityModes[IdOf(q.fragilityModes, other)]
                IN  /\ other \in TagsOf(q.fragilityModes)
                    /\ mode.repair \subseteq DOMAIN q.dists
                    /\ {q.dists[d].tag : d \in mode.repair} = input.fragilityModes[other].repair
                    /\ mode.curve \in DOMAIN q.curves
                    /\ q.curves[mode.curve].tag = input.fragilityModes[other].curve
    <3>1. CASE other = name
      BY <2>6, <2>7, <2>9, <2>10, <2>12, <3>1
    <3>2. CASE other # name
      <4> DEFINE mode == s.fragilityModes[IdOf(s.fragilityModes, other)]
      <4>1. /\ mode.repair \subseteq DOMAIN s.dists
            /\ {s.dists[d].tag : d \in mode.repair} = input.fragilityModes[other].repair
            /\ mode.curve \in DOMAIN s.curves
            /\ s.curves[mode.curve].tag = input.fragilityModes[other].curve
        BY <2>14, <3>2 DEF FragilityModesHold
      <4>2. q.fragilityModes[IdOf(q.fragilityModes, other)] = mode
        BY <2>9, <2>13, <2>14, <3>2
      <4> HIDE DEF mode
      <4>3. other \in TagsOf(q.fragilityModes)
        BY <2>9, <2>13, <2>14, <3>2
      <4> QED
        BY <2>9, <2>11, <4>1, <4>2, <4>3
    <3> QED
      BY <3>1, <3>2
  <2>15. DoneBy("fragility_mode", name) = D \cup {name}
    BY <1>1 DEF DoneBy
  <2> QED
    BY <2>14, <2>15 DEF FragilityModesHold
<1>2. CASE phase # "fragility_mode"
  <2>1. DoneBy("fragility_mode", name) = D
    BY <1>2 DEF DoneBy
  <2>2. CASE D = {}
    BY <2>1, <2>2 DEF FragilityModesHold
  <2>3. CASE D # {}
    <3>1. phase \notin {"dist", "components"}
      BY <1>2, <2>3 DEF Done, Later
    <3>2. q.fragilityModes = s.fragilityModes /\ q.dists = s.dists
      BY <1>2, <3>1 DEF Kept
    <3>3. \A i \in DOMAIN s.curves : i \in DOMAIN q.curves /\ q.curves[i].tag = s.curves[i].tag
      <4>1. CASE phase # "fragility_curve"
        BY <1>2, <4>1 DEF Kept
      <4>2. CASE phase = "fragility_curve"
        <5>1. CurveAdded(name, q)
          BY <4>2 DEF NameRead
        <5>2. \E type \in {"linear", "tabular"} : \E list, e :
                q = [s EXCEPT ![type] = list, !.curves = Register(@, e)]
          BY <5>1 DEF CurveAdded
        <5>3. PICK e : \E list : \/ q = [s EXCEPT !.linear = list, !.curves = Register(@, e)]
                                 \/ q = [s EXCEPT !.tabular = list, !.curves = Register(@, e)]
          BY <5>2
        <5> DEFINE curves == Register(s.curves, e)
        <5>4. \E list : \/ q = [s EXCEPT !.linear = list, !.curves = curves]
                        \/ q = [s EXCEPT !.tabular = list, !.curves = curves]
          BY <5>3
        <5>5. Registered(s.curves, e, curves)
          BY <1>0, Registering
        <5> HIDE DEF curves
        <5>6. q.curves = curves
          BY <1>0, <5>4 DEF SimShape
        <5> QED
          BY <5>5, <5>6 DEF Registered
      <4> QED
        BY <4>1, <4>2
    <3> QED
      BY <2>1, <3>2, <3>3 DEF FragilityModesHold
  <2> QED
    BY <2>2, <2>3
<1> QED
  BY <1>1, <1>2

LEMMA ScenarioHolds ==
  ASSUME LoadInv, NEW name \in left, NEW q, NameRead(name, q), Kept(q),
         ScenariosHold(s, input, Done("scenarios"))
  PROVE  ScenariosHold(q, input, DoneBy("scenarios", name))
<1> DEFINE D == Done("scenarios")
<1>0. IsSeq(s.dists) /\ IsSeq(s.scenarios) /\ SimInv(s)
  BY DEF LoadInv, SimInv, SimLists
<1>1. CASE phase = "scenarios"
  <2>1. ScenarioAdded(name, q)
    BY <1>1 DEF NameRead
  <2> DEFINE declared == input.scenarios[name]
             record == ScenarioRecord(name)
             offset == declared.offset
  <2>2. q = RegisterScenario(s, record, offset) /\ HasDist(declared.dist)
    BY <2>1 DEF ScenarioAdded
  <2>3. IdOf(s.dists, declared.dist) \in DOMAIN s.dists
        /\ s.dists[IdOf(s.dists, declared.dist)].tag = declared.dist
    BY <1>0, <2>2, TaggedIs, IdIs DEF HasDist
  <2>4. /\ record.tag = name /\ record.dist \in DOMAIN s.dists
        /\ s.dists[record.dist].tag = declared.dist
        /\ record.duration = declared.duration /\ record.max = MaxOccurrences(declared.max)
    BY <2>3 DEF ScenarioRecord
  <2> HIDE DEF record, offset
  <2>5. WithScenario(s, record, q)
    BY <1>0, <2>2, RegisteringScenario
  <2>6. Registered(s.scenarios, record, q.scenarios)
    BY <2>5 DEF WithScenario
  <2>7. q.dists = s.dists
    BY <1>1 DEF Kept
  <2>8. name \in TagsOf(q.scenarios) /\ q.scenarios[IdOf(q.scenarios, name)] = record
    BY <2>4, <2>6 DEF Registered
  <2>9. ASSUME NEW other \in D, other # name
        PROVE  /\ other \in TagsOf(q.scenarios)
               /\ q.scenarios[IdOf(q.scenarios, other)] = s.scenarios[IdOf(s.scenarios, other)]
    <3>1. other \in TagsOf(s.scenarios)
      BY <2>9 DEF ScenariosHold
    <3> DEFINE r == q.scenarios
    <3>2. Registered(s.scenarios, record, r)
      BY <2>6
    <3> HIDE DEF r
    <3>3. other \in TagsOf(r) /\ r[IdOf(r, other)] = s.scenarios[IdOf(s.scenarios, other)]
      BY <1>0, <2>4, <2>9, <3>1, <3>2, KeptRecord
    <3> QED
      BY <3>3 DEF r
  <2>10. DoneBy("scenarios", name) = D \cup {name}
    BY <1>1 DEF DoneBy
  <2> QED
    BY <2>4, <2>7, <2>8, <2>9, <2>10 DEF ScenariosHold
<1>2. CASE phase # "scenarios"
  <2>1. DoneBy("scenarios", name) = D
    BY <1>2 DEF DoneBy
  <2>2. CASE D = {}
    BY <2>1, <2>2 DEF ScenariosHold
  <2>3. CASE D # {}
    <3>1. phase \notin {"dist", "components"}
      BY <1>2, <2>3 DEF Done, Later
    <3>2. q.scenarios = s.scenarios /\ q.dists = s.dists
      BY <1>2, <3>1 DEF Kept
    <3> QED
      BY <2>1, <3>2 DEF ScenariosHold
  <2> QED
    BY <2>2, <2>3
<1> QED
  BY <1>1, <1>2

LEMMA CurvesAreHeld ==
  ASSUME LoadInv, NEW name \in left, NEW q, NameRead(name, q), Kept(q),
         CurvesHold(s, input, Done("fragility_curve"))
  PROVE  CurvesHold(q, input, DoneBy("fragility_curve", name))
<1> DEFINE D == Done("fragility_curve")
<1>0. /\ IsSeq(s.curves) /\ UniqueTags(s.curves) /\ IsSeq(s.linear) /\ IsSeq(s.tabular)
      /\ IsSeq(s.intensities) /\ SimShape(s)
  BY DEF LoadInv, SimInv, SimLists, SimUnique
<1>1. CASE phase = "fragility_curve"
  <2>1. CurveAdded(name, q)
    BY <1>1 DEF NameRead
  <2> DEFINE declared == input.curves[name]
             type == declared.type
             list == s[type]
             new == [intensity |-> IdOfName(s.intensities, declared.vulnerableTo),
                     data |-> declared.data]
             longer == Append(list, new)
             record == [tag |-> name, type |-> type, idx |-> Len(list) + 1]
             curves == Register(s.curves, record)
  <2>2. /\ q = [s EXCEPT ![type] = longer, !.curves = curves]
        /\ type \in {"linear", "tabular"} /\ Contains(s.intensities, declared.vulnerableTo)
    BY <2>1 DEF CurveAdded
  <2>3. new.intensity \in DOMAIN s.intensities
        /\ s.intensities[new.intensity] = declared.vulnerableTo /\ new.data = declared.data
    BY <1>0, <2>2, ContainsIs, NameIs
  <2>4. record.tag = name /\ record.type = type /\ record.idx = Len(list) + 1
    OBVIOUS
  <2>5. IsSeq(list)
    BY <1>0, <2>2
  <2> HIDE DEF record, new, list
  <2>6. Registered(s.curves, record, curves)
    BY <1>0, Registering
  <2>7. /\ Len(list) + 1 \in DOMAIN longer /\ longer[Len(list) + 1] = new
        /\ \A i \in DOMAIN list : i \in DOMAIN longer /\ longer[i] = list[i]
    BY <2>5, Appending, SeqLength
  <2> HIDE DEF curves, longer
  <2>8. /\ q.curves = curves /\ q.intensities = s.intensities /\ q[type] = longer
        /\ \A other \in {"linear", "tabular"} : other # type => q[other] = s[other]
    <3>1. CASE type = "linear"
      <4>1. q = [s EXCEPT !.linear = longer, !.curves = curves]
        BY <2>2, <3>1
      <4> HIDE DEF type
      <4> QED
        BY <1>0, <3>1, <4>1 DEF SimShape
    <3>2. CASE type = "tabular"
      <4>1. q = [s EXCEPT !.tabular = longer, !.curves = curves]
        BY <2>2, <3>2
      <4> HIDE DEF type
      <4> QED
        BY <1>0, <3>2, <4>1 DEF SimShape
    <3> QED
      BY <2>2, <3>1, <3>2
  <2>9. ASSUME NEW id \in DOMAIN curves, curves[id].tag = name
        PROVE  CurveHolds(q, input, id)
    <3>1. curves[id] = record
      <4>1. UniqueTags(curves)
        BY <1>0, <2>6 DEF Registered
      <4>2. IdOf(curves, name) \in DOMAIN curves /\ curves[IdOf(curves, name)] = record
        BY <2>4, <2>6 DEF Registered
      <4> QED
        BY <2>4, <2>9, <4>1, <4>2 DEF UniqueTags
    <3>2. q.curves[id] = record
      BY <2>8, <3>1
    <3> DEFINE n == Len(list) + 1
    <3>3. record.tag = name /\ record.type = type /\ record.idx = n
      BY <2>4
    <3>4. n \in DOMAIN longer /\ longer[n] = new
      BY <2>7
    <3>5. type = input.curves[name].type /\ type \in {"linear", "tabular"} /\ q[type] = longer
      BY <2>2, <2>8
    <3>6. /\ new.intensity \in DOMAIN q.intensities /\ new.data = input.curves[name].data
          /\ q.intensities[new.intensity] = input.curves[name].vulnerableTo
      BY <2>3, <2>8
    <3> HIDE DEF type, n, declared
    <3>7. /\ q[record.type] = longer /\ q[record.type][record.idx] = new
          /\ record.idx \in DOMAIN q[record.type]
      BY <3>3, <3>4, <3>5
    <3> QED
      BY <3>2, <3>3, <3>5, <3>6, <3>7 DEF CurveHolds
  <2>10. ASSUME NEW id \in DOMAIN curves, curves[id].tag \in D, curves[id].tag # name
         PROVE  CurveHolds(q, input, id)
    <3>1. id \in DOMAIN s.curves
      BY <2>4, <2>6, <2>10 DEF Registered
    <3>2. s.curves[id].tag = curves[id].tag
      BY <2>6, <3>1 DEF Registered
    <3>3. curves[id] = s.curves[id]
      BY <2>4, <2>6, <2>10, <3>1, <3>2 DEF Registered
    <3>4. CurveHolds(s, input, id)
      BY <2>10, <3>1, <3>2 DEF CurvesHold
    <3> DEFINE c == s.curves[id]
    <3>5. /\ c.type = input.curves[c.tag].type /\ c.type \in {"linear", "tabular"}
          /\ c.idx \in DOMAIN s[c.type] /\ s[c.type][c.idx].data = input.curves[c.tag].data
          /\ s[c.type][c.idx].intensity \in DOMAIN s.intensities
          /\ s.intensities[s[c.type][c.idx].intensity] = input.curves[c.tag].vulnerableTo
      BY <3>4 DEF CurveHolds
    <3>6. q.curves[id] = c
      BY <2>8, <3>3
    <3> HIDE DEF c
    <3>7. c.idx \in DOMAIN q[c.type] /\ q[c.type][c.idx] = s[c.type][c.idx]
      <4>1. CASE c.type = type
        BY <2>7, <2>8, <3>5, <4>1 DEF list
      <4>2. CASE c.type # type
        BY <2>8, <3>5, <4>2
      <4> QED
        BY <4>1, <4>2
    <3> QED
      BY <2>8, <3>5, <3>6, <3>7 DEF CurveHolds
  <2>11. DoneBy("fragility_curve", name) = D \cup {name}
    BY <1>1 DEF DoneBy
  <2> QED
    BY <2>8, <2>9, <2>10, <2>11 DEF CurvesHold
<1>2. CASE phase # "fragility_curve"
  <2>1. DoneBy("fragility_curve", name) = D
    BY <1>2 DEF DoneBy
  <2>2. D = {}
    <3>1. phase \notin {"ready", "checked"}
      BY DEF NameRead
    <3> QED
      BY <1>2, <3>1 DEF Done, Later
  <2> QED
    BY <2>1, <2>2 DEF CurvesHold
<1> QED
  BY <1>1, <1>2

LEMMA LevelsAreHeld ==
  ASSUME LoadInv, NEW name \in left, NEW q, NameRead(name, q), Kept(q), SimInv(q),
         LevelsAre(s, input, Done("intensity"))
  PROVE  LevelsAre(q, input, DoneBy("intensity", name))
<1> DEFINE D == Done("intensity")
<1>0. /\ IsSeq(s.scenarios) /\ UniqueTags(s.scenarios) /\ IsSeq(s.intensities) /\ SimShape(s)
      /\ DOMAIN s.levels \subseteq (DOMAIN s.scenarios) \X (DOMAIN s.intensities)
  BY DEF LoadInv, SimInv, SimLists, SimUnique, LevelsHold
<1>1. CASE phase = "intensity"
  <2>0. /\ name \in DOMAIN input.scenarios /\ DOMAIN input.scenarios \subseteq TagsOf(s.scenarios)
        /\ name \notin D /\ D \subseteq DOMAIN input.scenarios
    BY <1>1, SectionsAre DEF LoadInv, NamesIn, AfterScenarios, Done, Later
  <2>1. IntensitiesAdded(name, q)
    BY <1>1 DEF NameRead
  <2> DEFINE level == input.scenarios[name].intensity
             named == DOMAIN level
             id == IdOf(s.scenarios, name)
  <2>14. IntensitiesKnown(name, q)
    BY <2>0, <2>1, AddingIntensities
  <2>2. PICK known, levels :
          /\ Grown(s.intensities, known) /\ Range(known) = Range(s.intensities) \cup named
          /\ levels = [p \in DOMAIN s.levels \cup {<<id, IdOfName(known, x)>> : x \in named} |->
                        IF p \in {<<id, IdOfName(known, x)>> : x \in named}
                          THEN level[known[p[2]]] ELSE s.levels[p]]
          /\ q = [s EXCEPT !.intensities = known, !.levels = levels]
    BY <2>14 DEF IntensitiesKnown
  <2>3. q.intensities = known /\ q.levels = levels /\ q.scenarios = s.scenarios
    BY <1>0, <2>2 DEF SimShape
  <2> DEFINE given == {<<id, IdOfName(known, x)>> : x \in named}
  <2>4. /\ DOMAIN levels = DOMAIN s.levels \cup given
        /\ \A p \in given : levels[p] = level[known[p[2]]]
        /\ \A p \in DOMAIN s.levels : p \notin given => levels[p] = s.levels[p]
    BY <2>2
  <2>5. \A x \in named : IdOfName(known, x) \in DOMAIN known /\ known[IdOfName(known, x)] = x
    BY <2>2, NameIs DEF Grown
  <2>6. \A i \in DOMAIN s.intensities : known[i] = s.intensities[i]
    BY <2>2 DEF Grown
  <2>7. id \in DOMAIN s.scenarios /\ s.scenarios[id].tag = name
    BY <1>0, <2>0, IdIs
  <2> HIDE DEF id, level
  <2>8. \A p \in DOMAIN s.levels : p[1] # id /\ p[1] \in DOMAIN s.scenarios /\ p[2] \in DOMAIN s.intensities
    BY <1>0, <2>0, <2>7 DEF LevelsAre
  <2>9. \A p \in given : p[1] = id
    OBVIOUS
  <2>10. DoneBy("intensity", name) = D \cup {name}
    BY <1>1 DEF DoneBy
  <2>11. ASSUME NEW p \in DOMAIN q.levels
         PROVE  q.scenarios[p[1]].tag \in D \cup {name}
    BY <2>3, <2>4, <2>7, <2>9 DEF LevelsAre
  <2>12. LevelsOf(q, id) = {<<x, level[x]>> : x \in named}
    <3> HIDE DEF named
    <3>1. {p \in DOMAIN levels : p[1] = id} = given
      <4> HIDE DEF given
      <4> QED
        BY <2>4, <2>8, <2>9
    <3>2. LevelsOf(q, id) = {<<known[p[2]], levels[p]>> : p \in given}
      <4> HIDE DEF given
      <4> QED
        BY <2>3, <3>1 DEF LevelsOf
    <3>3. ASSUME NEW x \in named
          PROVE  /\ <<id, IdOfName(known, x)>> \in given
                 /\ known[<<id, IdOfName(known, x)>>[2]] = x
                 /\ levels[<<id, IdOfName(known, x)>>] = level[x]
      BY <2>4, <2>5
    <3>4. \A p \in given : \E x \in named : p = <<id, IdOfName(known, x)>>
      OBVIOUS
    <3> HIDE DEF given
    <3>5. ASSUME NEW e \in LevelsOf(q, id)
          PROVE  e \in {<<x, level[x]>> : x \in named}
      <4>1. PICK p \in given : e = <<known[p[2]], levels[p]>>
        BY <3>2
      <4>2. PICK x \in named : p = <<id, IdOfName(known, x)>>
        BY <3>4, <4>1
      <4>3. e = <<x, level[x]>>
        BY <3>3, <4>1, <4>2
      <4> QED
        BY <4>3
    <3>6. ASSUME NEW x \in named
          PROVE  <<x, level[x]>> \in LevelsOf(q, id)
      <4> DEFINE p == <<id, IdOfName(known, x)>>
      <4>1. p \in given /\ known[p[2]] = x /\ levels[p] = level[x]
        BY <3>3
      <4> HIDE DEF p
      <4> QED
        BY <3>2, <4>1
    <3> QED
      BY <3>5, <3>6
  <2>13. ASSUME NEW tag \in D
         PROVE  LevelsOf(q, IdOf(q.scenarios, tag)) = LevelsOf(s, IdOf(s.scenarios, tag))
    <3> DEFINE old == IdOf(s.scenarios, tag)
    <3>1. old \in DOMAIN s.scenarios /\ s.scenarios[old].tag = tag
      BY <1>0, <2>0, IdIs
    <3>2. old # id
      BY <2>0, <2>7, <3>1
    <3> HIDE DEF old
    <3> DEFINE mine == {p \in DOMAIN s.levels : p[1] = old}
    <3>3. {p \in DOMAIN levels : p[1] = old} = mine
      <4> HIDE DEF given
      <4> QED
        BY <2>4, <2>9, <3>2
    <3>4. \A p \in mine : known[p[2]] = s.intensities[p[2]] /\ levels[p] = s.levels[p]
      <4> HIDE DEF given
      <4> QED
        BY <2>4, <2>6, <2>8, <2>9
    <3>5. LevelsOf(q, old) = {<<known[p[2]], levels[p]>> : p \in mine}
      <4> HIDE DEF mine
      <4> QED
        BY <2>3, <3>3 DEF LevelsOf
    <3>6. LevelsOf(s, old) = {<<s.intensities[p[2]], s.levels[p]>> : p \in mine}
      BY DEF LevelsOf
    <3>7. LevelsOf(q, old) = LevelsOf(s, old)
      <4> HIDE DEF mine
      <4> QED
        BY <3>4, <3>5, <3>6
    <3> QED
      BY <2>3, <3>7 DEF old
  <2> QED
    BY <2>3, <2>10, <2>11, <2>12, <2>13 DEF LevelsAre, id, level
<1>2. CASE phase # "intensity"
  <2>1. DoneBy("intensity", name) = D
    BY <1>2 DEF DoneBy
  <2>2. q.intensities = s.intensities /\ q.levels = s.levels
    BY <1>2 DEF Kept
  <2>3. CASE D = {}
    <3>1. DOMAIN q.levels = {}
      BY <2>2, <2>3 DEF LevelsAre
    <3> QED
      BY <2>1, <2>3, <3>1 DEF LevelsAre
  <2>4. CASE D # {}
    <3>1. phase \notin {"components", "scenarios"}
      BY <1>2, <2>4 DEF Done, Later
    <3>2. q.scenarios = s.scenarios
      BY <1>2, <3>1 DEF Kept
    <3>3. \A i : LevelsOf(q, i) = LevelsOf(s, i)
      BY <2>2 DEF LevelsOf
    <3> QED
      BY <2>1, <2>2, <3>2, <3>3 DEF LevelsAre
  <2> QED
    BY <2>3, <2>4
<1> QED
  BY <1>1, <1>2

(* A name is done with when it has been read, and stays so.                *)
LEMMA DoneAgain ==
  ASSUME LoadInv, NEW section \in Tracked, input' = input,
         \/ phase' = phase /\ left' = left
         \/ /\ phase \in Range(Sections) \ {"ready"} /\ left = {}
            /\ phase' = Follows(phase) /\ left' = NamesIn(Follows(phase))
         \/ phase = "ready" /\ phase' = "checked"
  PROVE  Done(section)' = Done(section)
<1>1. NamesIn(section)' = NamesIn(section)
  BY DEF NamesIn
<1>2. CASE phase' = phase /\ left' = left
  BY <1>1, <1>2 DEF Done
<1>3. CASE /\ phase \in Range(Sections) \ {"ready"} /\ left = {}
           /\ phase' = Follows(phase) /\ left' = NamesIn(Follows(phase))
  <2>1. phase \in {"simulation_info", "loads", "components", "dist", "failure_mode",
                   "fragility_mode", "network", "scenarios", "intensity", "fragility_curve"}
    BY <1>3, SectionsAre
  <2>2. phase' \in Later(section) <=> phase \in Later(section) \cup {section}
    BY <1>3, <2>1, FollowsAre DEF Later, Tracked
  <2>3. phase' = section => left' = NamesIn(section) /\ phase # section
    BY <1>3, <2>1, FollowsAre DEF Tracked
  <2>4. section \notin Later(section)
    BY DEF Later, Tracked
  <2> QED
    BY <1>1, <1>3, <2>2, <2>3, <2>4 DEF Done
<1>4. CASE phase = "ready" /\ phase' = "checked"
  BY <1>1, <1>4 DEF Done, Later, Tracked
<1> QED
  BY <1>2, <1>3, <1>4

LEMMA DoneByReading ==
  ASSUME LoadInv, NEW section \in Tracked, NEW name \in left, NEW q, Read(name, q)
  PROVE  Done(section)' = DoneBy(section, name)
<1>1. input' = input /\ phase' = phase /\ left' = left \ {name}
  BY DEF Read
<1>2. NamesIn(section)' = NamesIn(section)
  BY <1>1 DEF NamesIn
<1>3. phase = section => name \in NamesIn(section)
  BY SectionsAre DEF LoadInv, Tracked
<1> QED
  BY <1>1, <1>2, <1>3 DEF Done, DoneBy

DeclaredHolds(q, file, F, G, C, S, I) ==
  /\ FailureModesHold(q, file, F) /\ FragilityModesHold(q, file, G) /\ CurvesHold(q, file, C)
  /\ ScenariosHold(q, file, S) /\ LevelsAre(q, file, I)

LEMMA DeclaredStep ==
  ASSUME LoadInv, DeclaredInv, [Next]_vars
  PROVE  DeclaredInv'
<1> DEFINE F == Done("failure_mode")
           G == Done("fragility_mode")
           C == Done("fragility_curve")
           S == Done("scenarios")
           I == Done("intensity")
<1>0. {"failure_mode", "fragility_mode", "scenarios", "intensity", "fragility_curve"} \subseteq Tracked
  BY DEF Tracked
<1>1. phase \in Range(Sections) \cup {"checked"} => DeclaredHolds(s, input, F, G, C, S, I)
  BY DEF DeclaredInv, DeclaredHolds
<1>2. phase' \in Range(Sections) \cup {"checked"} /\ DeclaredHolds(s', input', F', G', C', S', I')
        => DeclaredInv'
  BY DEF DeclaredInv, DeclaredHolds
<1> HIDE DEF F, G, C, S, I
<1>3. ASSUME input' = input, s' = s, phase \in Range(Sections) \cup {"checked"},
             \A section \in Tracked : Done(section)' = Done(section)
      PROVE  DeclaredInv'
  <2>1. F' = F /\ G' = G /\ C' = C /\ S' = S /\ I' = I
    BY <1>0, <1>3 DEF F, G, C, S, I
  <2>2. DeclaredHolds(s, input, F, G, C, S, I)
    BY <1>1, <1>3
  <2>3. DeclaredHolds(s', input', F', G', C', S', I')
    BY <1>3, <2>1, <2>2
  <2>4. CASE phase' \in Range(Sections) \cup {"checked"}
    BY <1>2, <2>3, <2>4
  <2>5. CASE phase' \notin Range(Sections) \cup {"checked"}
    BY <2>5 DEF DeclaredInv
  <2> QED
    BY <2>4, <2>5
<1>4. ASSUME phase' \in {"rejected", "crashed"}
      PROVE  DeclaredInv'
  BY <1>4, SectionsAre DEF DeclaredInv
<1>5. LoadStep
  BY LoadStepIs
<1>6. CASE UNCHANGED vars
  <2>1. input' = input /\ phase' = phase /\ left' = left /\ s' = s
    BY <1>6 DEF vars
  <2>2. \A section \in Tracked : Done(section)' = Done(section)
    BY <2>1, DoneAgain
  <2>3. CASE phase \in Range(Sections) \cup {"checked"}
    BY <1>3, <2>1, <2>2, <2>3
  <2>4. CASE phase \notin Range(Sections) \cup {"checked"}
    BY <2>1, <2>4 DEF DeclaredInv
  <2> QED
    BY <2>3, <2>4
<1>7. CASE Fail("rejected") \/ Fail("crashed")
  BY <1>4, <1>7 DEF Fail
<1>8. CASE phase = "dist" /\ GiveUpSection
  <2>1. input' = input /\ phase' = phase /\ s' = s /\ phase \in Range(Sections)
    BY <1>8, SectionsAre DEF GiveUpSection
  <2>2. \A section \in Tracked : Done(section)' = Done(section)
    <3> SUFFICES ASSUME NEW section \in Tracked
                 PROVE  Done(section)' = Done(section)
      OBVIOUS
    <3>1. phase \notin Later(section) /\ phase # section
      BY <1>8 DEF Later, Tracked
    <3>2. phase' \notin Later(section) /\ phase' # section
      BY <2>1, <3>1
    <3> QED
      BY <3>1, <3>2 DEF Done
  <2> QED
    BY <1>3, <2>1, <2>2
<1>9. CASE NextSection
  <2>1. CASE Fail("rejected")
    BY <1>7, <2>1
  <2>2. ASSUME phase \in Range(Sections) \ {"ready"}, left = {},
               phase' = Follows(phase), left' = NamesIn(Follows(phase)),
               UNCHANGED <<input, s, issues>>
        PROVE  DeclaredInv'
    <3>1. input' = input /\ s' = s
      BY <2>2
    <3>2. \A section \in Tracked : Done(section)' = Done(section)
      BY <2>2, <3>1, DoneAgain
    <3> QED
      BY <1>3, <2>2, <3>1, <3>2
  <2> QED
    BY <1>9, <2>1, <2>2, NextSectionIs
<1>10. CASE Check
  <2>1. input' = input /\ s' = s /\ phase = "ready" /\ phase' = "checked"
    BY <1>10 DEF Check
  <2>2. \A section \in Tracked : Done(section)' = Done(section)
    BY <2>1, DoneAgain
  <2> QED
    BY <1>3, <2>1, <2>2, SectionsAre
<1>11. ASSUME NEW name \in left, NEW q, Read(name, q), NameRead(name, q)
       PROVE  DeclaredInv'
  <2>1. input' = input /\ phase' = phase /\ s' = q
    BY <1>11 DEF Read
  <2>2. Kept(q)
    BY <1>11, KeptByReading
  <2>3. SimInv(q)
    <3>1. LoadInv'
      BY LoadingStep
    <3>2. SimInv(s')
      BY <3>1 DEF LoadInv
    <3> QED
      BY <2>1, <3>2
  <2>4. phase \in Range(Sections)
    BY <1>11, SectionsAre DEF NameRead
  <2>5. /\ FailureModesHold(s, input, F) /\ FragilityModesHold(s, input, G)
        /\ CurvesHold(s, input, C) /\ ScenariosHold(s, input, S) /\ LevelsAre(s, input, I)
    BY <1>1, <2>4 DEF DeclaredHolds
  <2>6. /\ F' = DoneBy("failure_mode", name) /\ G' = DoneBy("fragility_mode", name)
        /\ C' = DoneBy("fragility_curve", name) /\ S' = DoneBy("scenarios", name)
        /\ I' = DoneBy("intensity", name)
    BY <1>0, <1>11, DoneByReading DEF F, G, C, S, I
  <2>7. FailureModesHold(q, input, DoneBy("failure_mode", name))
    BY <1>11, <2>2, <2>5, FailureModeHolds DEF F
  <2>8. FragilityModesHold(q, input, DoneBy("fragility_mode", name))
    BY <1>11, <2>2, <2>5, FragilityModeHolds DEF G
  <2>9. CurvesHold(q, input, DoneBy("fragility_curve", name))
    BY <1>11, <2>2, <2>5, CurvesAreHeld DEF C
  <2>10. ScenariosHold(q, input, DoneBy("scenarios", name))
    BY <1>11, <2>2, <2>5, ScenarioHolds DEF S
  <2>11. LevelsAre(q, input, DoneBy("intensity", name))
    BY <1>11, <2>2, <2>3, <2>5, LevelsAreHeld DEF I
  <2>12. DeclaredHolds(s', input', F', G', C', S', I')
    BY <2>1, <2>6, <2>7, <2>8, <2>9, <2>10, <2>11 DEF DeclaredHolds
  <2> QED
    BY <1>2, <2>1, <2>4, <2>12
<1> QED
  BY <1>5, <1>6, <1>7, <1>8, <1>9, <1>10, <1>11 DEF LoadStep

LEMMA DeclaredBegins ==
  ASSUME Init
  PROVE  DeclaredInv
<1>1. phase = "simulation_info" /\ s.curves = <<>> /\ s.levels = <<>>
  BY DEF Init
<1>2. DOMAIN s.curves = {} /\ DOMAIN s.levels = {}
  BY <1>1, Tuples
<1>3. /\ Done("failure_mode") = {} /\ Done("fragility_mode") = {} /\ Done("fragility_curve") = {}
      /\ Done("scenarios") = {} /\ Done("intensity") = {}
  BY <1>1 DEF Done, Later
<1> QED
  BY <1>2, <1>3 DEF DeclaredInv, FailureModesHold, FragilityModesHold, CurvesHold, ScenariosHold,
                    LevelsAre

LEMMA DeclaredAlways == Spec => [](LoadInv /\ DeclaredInv)
<1>1. Init => DeclaredInv
  BY DeclaredBegins
<1>2. LoadInv /\ DeclaredInv /\ [Next]_vars => DeclaredInv'
  BY DeclaredStep
<1> QED
  BY <1>1, <1>2, LoadInvHolds, PTL DEF Spec

(* When the file has been read, every section has been through with all of *)
(* its names.                                                              *)
LEMMA AllDone ==
  ASSUME Loaded, DeclaredInv
  PROVE  /\ FailureModesHold(s, input, DOMAIN input.failureModes)
         /\ FragilityModesHold(s, input, DOMAIN input.fragilityModes)
         /\ CurvesHold(s, input, DOMAIN input.curves)
         /\ ScenariosHold(s, input, DOMAIN input.scenarios)
         /\ LevelsAre(s, input, DOMAIN input.scenarios)
<1>1. /\ Done("failure_mode") = DOMAIN input.failureModes
      /\ Done("fragility_mode") = DOMAIN input.fragilityModes
      /\ Done("fragility_curve") = DOMAIN input.curves
      /\ Done("scenarios") = DOMAIN input.scenarios /\ Done("intensity") = DOMAIN input.scenarios
  BY DEF Loaded, Done, Later, NamesIn
<1>2. phase \in Range(Sections) \cup {"checked"}
  BY SectionsAre DEF Loaded
<1> QED
  BY <1>1, <1>2 DEF DeclaredInv

(* Whatever the order of the tables: the modes of failure and fragility    *)
(* and the curves end up with what the input says of them, by their names. *)
THEOREM ModesAreRight == Spec => []ModesAreAsDeclared
<1>1. LoadInv /\ DeclaredInv => ModesAreAsDeclared
  <2> SUFFICES ASSUME LoadInv, DeclaredInv, Loaded
               PROVE  ModesAreAsDeclared
    BY DEF ModesAreAsDeclared
  <2>1. ASSUME NEW name \in DOMAIN input.failureModes
        PROVE  LET mode == s.failureModes[IdOf(s.failureModes, name)]
               IN  /\ s.dists[mode.failure].tag = input.failureModes[name].failure
                   /\ s.dists[mode.repair].tag = input.failureModes[name].repair
    BY AllDone DEF FailureModesHold
  <2>2. ASSUME NEW name \in DOMAIN input.fragilityModes
        PROVE  LET mode == s.fragilityModes[IdOf(s.fragilityModes, name)]
               IN  /\ {s.dists[d].tag : d \in mode.repair} = input.fragilityModes[name].repair
                   /\ s.curves[mode.curve].tag = input.fragilityModes[name].curve
    BY AllDone DEF FragilityModesHold
  <2>3. ASSUME NEW id \in DOMAIN s.curves, s.curves[id].tag \in DOMAIN input.curves
        PROVE  CurveIsAsDeclared(id)
    BY <2>3, AllDone DEF CurvesHold, CurveHolds, CurveIsAsDeclared
  <2> QED
    BY <2>1, <2>2, <2>3 DEF ModesAreAsDeclared
<1> QED
  BY <1>1, DeclaredAlways, PTL

LEMMA NarrowIs ==
  ASSUME NEW n \in -1 .. IntMax
  PROVE  Narrow(n) = n
<1> DEFINE w == 2 * (IntMax + 1)
           m == n + IntMax + 1
<1>1. IntMax \in Nat
  BY IntMaxAssumption
<1>2. w \in Nat \ {0} /\ m \in 0 .. w - 1 /\ m - (IntMax + 1) = n
  BY <1>1
<1>3. Narrow(n) = (m % w) - (IntMax + 1)
  BY DEF Narrow
<1> HIDE DEF w, m
<1>4. m % w = m
  BY <1>2
<1> QED
  BY <1>2, <1>3, <1>4

LEMMA MaximumIs ==
  ASSUME NEW v, MaximumAllowed(v)
  PROVE  MaxOccurrences(v) = MaximumDeclared(v)
<1>1. CASE v = [type |-> "string", value |-> "unlimited"]
  BY <1>1 DEF MaxOccurrences, MaximumDeclared, IsNumber
<1>2. CASE v.type = "integer" /\ (v.value = -1 \/ v.value \in 1 .. IntMax)
  <2>1. v.value \in -1 .. IntMax
    BY <1>2, IntMaxAssumption
  <2>2. Narrow(v.value) = v.value
    BY <2>1, NarrowIs
  <2>3. MaxOccurrences(v) = IF v.value > 0 THEN {v.value} ELSE {}
    BY <1>2, <2>2 DEF MaxOccurrences, IsNumber
  <2>4. MaximumDeclared(v) = IF v.value = -1 THEN {} ELSE {v.value}
    BY <1>2 DEF MaximumDeclared
  <2> QED
    BY <1>2, <2>1, <2>3, <2>4, IntMaxAssumption
<1> QED
  BY <1>1, <1>2 DEF MaximumAllowed

(* Of every input whose scenarios have a maximum that is allowed, and every*)
(* order of its tables: a scenario that a component named first is         *)
(* completed, with its own distribution, duration, maximum and intensities.*)
(* (A maximum of zero, which is not allowed, is read as no maximum.)       *)
THEOREM ScenariosAreRight ==
  Spec => []((\A scenario \in Range(input.scenarios) : MaximumAllowed(scenario.max))
               => ScenariosAreAsDeclared)
<1> DEFINE Allowed == \A scenario \in Range(input.scenarios) : MaximumAllowed(scenario.max)
<1>1. LoadInv /\ DeclaredInv => (Allowed => ScenariosAreAsDeclared)
  <2> SUFFICES ASSUME LoadInv, DeclaredInv, Allowed, Loaded, NEW tag \in DOMAIN input.scenarios
               PROVE  LET declared == input.scenarios[tag]
                          id       == IdOf(s.scenarios, tag)
                      IN  /\ s.dists[s.scenarios[id].dist].tag = declared.dist
                          /\ s.scenarios[id].duration = declared.duration
                          /\ s.scenarios[id].max = MaximumDeclared(declared.max)
                          /\ {<<s.intensities[p[2]], s.levels[p]>> :
                                p \in {q \in DOMAIN s.levels : q[1] = id}}
                               = {<<x, declared.intensity[x]>> : x \in DOMAIN declared.intensity}
    BY DEF ScenariosAreAsDeclared
  <2>1. ScenariosHold(s, input, DOMAIN input.scenarios) /\ LevelsAre(s, input, DOMAIN input.scenarios)
    BY AllDone
  <2>2. MaxOccurrences(input.scenarios[tag].max) = MaximumDeclared(input.scenarios[tag].max)
    BY MaximumIs DEF Range
  <2> QED
    BY <2>1, <2>2 DEF ScenariosHold, LevelsAre, LevelsOf
<1> QED
  BY <1>1, DeclaredAlways, PTL

-----------------------------------------------------------------------------
(* Both ends of a connection are where it says they are: at a port of a    *)
(* component with slots, or at one that nothing else is connected to.      *)
Sides == {"in", "out"}
EndId(c, side)   == IF side = "in" THEN c.to ELSE c.from
EndPort(c, side) == IF side = "in" THEN c.toPort ELSE c.fromPort
EndKind(c, side) == IF side = "in" THEN c.toKind ELSE c.fromKind
EndIdx(c, side)  == IF side = "in" THEN c.toIdx ELSE c.fromIdx

AtPort(m, id, side, port) == m.comps[id].kind \in WithPart /\ <<side, port>> \in SlotsOf(m, id)

EndHolds(m, k, side) ==
  LET id   == EndId(m.conns[k], side)
      port == EndPort(m.conns[k], side)
  IN  /\ id \in DOMAIN m.comps
      /\ EndKind(m.conns[k], side) = m.comps[id].kind /\ EndIdx(m.conns[k], side) = m.comps[id].idx
      /\ \/ AtPort(m, id, side, port)
         \/ /\ m.comps[id].kind # "Mux"
            /\ \A j \in DOMAIN m.conns :
                 EndId(m.conns[j], side) = id /\ EndPort(m.conns[j], side) = port => j = k

EndsHold(m) == \A k \in DOMAIN m.conns : \A side \in Sides : EndHolds(m, k, side)

LEMMA AtIs ==
  ASSUME NEW m, NEW id, NEW slot, NEW side \in Sides, slot[1] = side
  PROVE  At(m, id, slot) = {k \in DOMAIN m.conns : /\ EndId(m.conns[k], side) = id
                                                   /\ EndPort(m.conns[k], side) = slot[2]}
<1>1. CASE side = "in"
  BY <1>1 DEF At, EndId, EndPort
<1>2. CASE side = "out"
  BY <1>2 DEF At, EndId, EndPort
<1> QED
  BY <1>1, <1>2 DEF Sides

(* What a component is stays, whatever else is added or set.               *)
CompsStay(m, r) ==
  \A id \in DOMAIN m.comps :
    /\ id \in DOMAIN r.comps
    /\ r.comps[id].kind = m.comps[id].kind /\ r.comps[id].idx = m.comps[id].idx
    /\ r.comps[id].inflows = m.comps[id].inflows /\ r.comps[id].outflows = m.comps[id].outflows

LEMMA SlotsStay ==
  ASSUME NEW m, NEW r, CompsStay(m, r), NEW id \in DOMAIN m.comps
  PROVE  SlotsOf(r, id) = SlotsOf(m, id)
BY DEF CompsStay, SlotsOf

LEMMA EndsStay ==
  ASSUME NEW m, NEW r, CompsStay(m, r), r.conns = m.conns, EndsHold(m)
  PROVE  EndsHold(r)
<1> SUFFICES ASSUME NEW k \in DOMAIN r.conns, NEW side \in Sides
             PROVE  EndHolds(r, k, side)
  BY DEF EndsHold
<1> DEFINE id == EndId(m.conns[k], side)
<1>1. EndHolds(m, k, side)
  BY DEF EndsHold
<1>2. id \in DOMAIN m.comps
  BY <1>1 DEF EndHolds
<1>3. /\ id \in DOMAIN r.comps
      /\ r.comps[id].kind = m.comps[id].kind /\ r.comps[id].idx = m.comps[id].idx
  BY <1>2 DEF CompsStay
<1>4. SlotsOf(r, id) = SlotsOf(m, id)
  BY <1>2, SlotsStay
<1> QED
  BY <1>1, <1>3, <1>4 DEF EndHolds, AtPort

LEMMA MadeStays ==
  ASSUME NEW m, NEW r, MadeOf(m, r)
  PROVE  CompsStay(m, r)
BY GrownHas DEF MadeOf, CompsStay, GrownDomain, Grown

(* A new connection is at a port of its own, or the first one there.       *)
Joint(m, id, side, port) ==
  \/ AtPort(m, id, side, port)
  \/ /\ m.comps[id].kind # "Mux"
     /\ \A k \in DOMAIN m.conns :
          ~ (EndId(m.conns[k], side) = id /\ EndPort(m.conns[k], side) = port)

LEMMA EndsConnected ==
  ASSUME NEW m, ModelInv(m), EndsHold(m), NEW r, NEW from \in DOMAIN m.comps, NEW fromPort,
         NEW to \in DOMAIN m.comps, NEW toPort, NEW flow,
         Connected(m, r, from, fromPort, to, toPort, flow),
         Joint(m, from, "out", fromPort), Joint(m, to, "in", toPort)
  PROVE  EndsHold(r)
<1> DEFINE new == ConnectionOf(m, from, fromPort, to, toPort, flow)
           last == Len(m.conns) + 1
<1>1. r.comps = m.comps /\ r.conns = Append(m.conns, new)
  BY DEF Connected
<1>2. /\ DOMAIN r.conns = DOMAIN m.conns \cup {last} /\ last \notin DOMAIN m.conns
      /\ \A k \in DOMAIN m.conns : r.conns[k] = m.conns[k]
      /\ r.conns[last] = new
  <2>1. IsSeq(m.conns)
    BY DEF ModelInv, ModelShape
  <2> HIDE DEF new
  <2>2. Len(m.conns) \in Nat /\ DOMAIN m.conns = 1 .. Len(m.conns)
    BY <2>1, SeqLength
  <2> QED
    BY <1>1, <2>1, <2>2, Appending
<1>3. ASSUME NEW side \in Sides
      PROVE  /\ EndId(new, side) \in DOMAIN m.comps
             /\ EndKind(new, side) = m.comps[EndId(new, side)].kind
             /\ EndIdx(new, side) = m.comps[EndId(new, side)].idx
             /\ Joint(m, EndId(new, side), side, EndPort(new, side))
  <2>1. CASE side = "in"
    BY <2>1 DEF EndId, EndPort, EndKind, EndIdx, ConnectionOf
  <2>2. CASE side = "out"
    BY <2>2 DEF EndId, EndPort, EndKind, EndIdx, ConnectionOf
  <2> QED
    BY <2>1, <2>2 DEF Sides
<1> HIDE DEF new, last
<1>4. \A id, side, port : AtPort(r, id, side, port) <=> AtPort(m, id, side, port)
  BY <1>1 DEF AtPort, SlotsOf
<1>5. ASSUME NEW k \in DOMAIN r.conns, NEW side \in Sides
      PROVE  EndHolds(r, k, side)
  <2>1. CASE k = last
    <3> DEFINE id == EndId(new, side)
               port == EndPort(new, side)
    <3>1. CASE AtPort(m, id, side, port)
      BY <1>1, <1>2, <1>3, <1>4, <2>1, <3>1 DEF EndHolds
    <3>2. CASE ~ AtPort(m, id, side, port)
      <4>1. /\ m.comps[id].kind # "Mux"
            /\ \A j \in DOMAIN m.conns :
                 ~ (EndId(m.conns[j], side) = id /\ EndPort(m.conns[j], side) = port)
        BY <1>3, <3>2 DEF Joint
      <4>2. \A j \in DOMAIN r.conns :
              EndId(r.conns[j], side) = id /\ EndPort(r.conns[j], side) = port => j = last
        BY <1>2, <4>1
      <4> QED
        BY <1>1, <1>2, <1>3, <2>1, <4>1, <4>2 DEF EndHolds
    <3> QED
      BY <3>1, <3>2
  <2>2. CASE k \in DOMAIN m.conns
    <3> DEFINE id == EndId(m.conns[k], side)
               port == EndPort(m.conns[k], side)
    <3>1. EndHolds(m, k, side) /\ r.conns[k] = m.conns[k]
      BY <1>2, <2>2 DEF EndsHold
    <3>2. CASE AtPort(m, id, side, port)
      BY <1>1, <1>4, <3>1, <3>2 DEF EndHolds
    <3>3. CASE ~ AtPort(m, id, side, port)
      <4>1. ~ (EndId(new, side) = id /\ EndPort(new, side) = port)
        BY <1>3, <2>2, <3>3 DEF Joint
      <4>2. /\ m.comps[id].kind # "Mux"
            /\ \A j \in DOMAIN m.conns :
                 EndId(m.conns[j], side) = id /\ EndPort(m.conns[j], side) = port => j = k
        BY <3>1, <3>3 DEF EndHolds
      <4>3. \A j \in DOMAIN r.conns :
              EndId(r.conns[j], side) = id /\ EndPort(r.conns[j], side) = port => j = k
        BY <1>2, <4>1, <4>2
      <4> QED
        BY <1>1, <3>1, <4>2, <4>3 DEF EndHolds
    <3> QED
      BY <3>2, <3>3
  <2> QED
    BY <1>2, <2>1, <2>2
<1> QED
  BY <1>5 DEF EndsHold

-----------------------------------------------------------------------------
(* A slot leads to a connection that ends there, if there is one, where no *)
(* other component has the same slots: two movers of a kind do.            *)
Alone(m, id) ==
  \A j \in DOMAIN m.comps :
    m.comps[j].kind = m.comps[id].kind /\ m.comps[j].idx = m.comps[id].idx => j = id

SlotLeads(m, id, x) ==
  LET k == PartOf(m, id).conn[x]
  IN  /\ At(m, id, x) # {} => k \in At(m, id, x)
      /\ At(m, id, x) = {} /\ x \in OptionalSlots(m.comps[id].kind) => k = None

SlotsLeadFrom(m, id) ==
  m.comps[id].kind \in WithPart /\ Alone(m, id) =>
    \A x \in DOMAIN PartOf(m, id).conn : SlotLeads(m, id, x)

SlotsLead(m) == \A id \in DOMAIN m.comps : SlotsLeadFrom(m, id)

LEMMA LeadsStay ==
  ASSUME NEW m, ModelInv(m), NEW r, CompsStay(m, r), r.conns = m.conns, SlotsLead(m),
         \A kind \in WithPart : \A i \in DOMAIN m.parts[kind] :
           r.parts[kind][i].conn = m.parts[kind][i].conn,
         \A id \in DOMAIN r.comps \ DOMAIN m.comps : SlotsLeadFrom(r, id)
  PROVE  SlotsLead(r)
<1> SUFFICES ASSUME NEW id \in DOMAIN m.comps, r.comps[id].kind \in WithPart, Alone(r, id),
                    NEW x \in DOMAIN PartOf(r, id).conn
             PROVE  SlotLeads(r, id, x)
  BY DEF SlotsLead, SlotsLeadFrom
<1>1. /\ r.comps[id].kind = m.comps[id].kind /\ r.comps[id].idx = m.comps[id].idx
      /\ m.comps[id].kind \in WithPart
  BY DEF CompsStay
<1>2. Alone(m, id)
  BY DEF CompsStay, Alone
<1>3. m.comps[id].idx \in DOMAIN m.parts[m.comps[id].kind]
  BY <1>1 DEF ModelInv, Placed
<1>4. PartOf(r, id).conn = PartOf(m, id).conn
  BY <1>1, <1>3 DEF PartOf
<1>5. At(r, id, x) = At(m, id, x)
  BY DEF At
<1>6. SlotLeads(m, id, x)
  BY <1>1, <1>2, <1>4 DEF SlotsLead, SlotsLeadFrom
<1> QED
  BY <1>1, <1>4, <1>5, <1>6 DEF SlotLeads

LEMMA SlotIs ==
  ASSUME NEW m, ModelInv(m), NEW id \in DOMAIN m.comps, m.comps[id].kind \in WithPart,
         NEW x \in DOMAIN PartOf(m, id).conn
  PROVE  x[1] \in Sides /\ x = <<x[1], x[2]>>
<1>1. DOMAIN PartOf(m, id).conn = Slots(m.comps[id].kind, m.comps[id].inflows, m.comps[id].outflows)
  BY DEF ModelInv, Placed, PartOf
<1>2. \E port : x = In(port) \/ x = Out(port)
  BY <1>1 DEF Slots
<1> QED
  BY <1>2 DEF In, Out, Sides

LEMMA LeadsConnected ==
  ASSUME NEW m, ModelInv(m), SlotsLead(m), NEW r, NEW from \in DOMAIN m.comps, NEW fromPort,
         NEW to \in DOMAIN m.comps, NEW toPort, NEW flow, MadeOf(m, r),
         Connected(m, r, from, fromPort, to, toPort, flow)
  PROVE  SlotsLead(r)
<1> DEFINE new == ConnectionOf(m, from, fromPort, to, toPort, flow)
           last == Len(m.conns) + 1
<1>1. r.comps = m.comps /\ r.conns = Append(m.conns, new)
  BY DEF Connected
<1>2. /\ DOMAIN r.conns = DOMAIN m.conns \cup {last}
      /\ \A k \in DOMAIN m.conns : r.conns[k] = m.conns[k]
      /\ r.conns[last] = new /\ last \notin DOMAIN m.conns
  <2>1. IsSeq(m.conns)
    BY DEF ModelInv, ModelShape
  <2> HIDE DEF new
  <2>2. Len(m.conns) \in Nat /\ DOMAIN m.conns = 1 .. Len(m.conns)
    BY <2>1, SeqLength
  <2> QED
    BY <1>1, <2>1, <2>2, Appending
<1>3. new.from = from /\ new.fromPort = fromPort /\ new.to = to /\ new.toPort = toPort
  BY DEF ConnectionOf
<1> HIDE DEF new
<1> SUFFICES ASSUME NEW id \in DOMAIN m.comps, m.comps[id].kind \in WithPart, Alone(r, id),
                    NEW x \in DOMAIN PartOf(r, id).conn
             PROVE  SlotLeads(r, id, x)
  BY <1>1 DEF SlotsLead, SlotsLeadFrom
<1> DEFINE kind == m.comps[id].kind
           idx == m.comps[id].idx
<1>4. Alone(m, id)
  BY <1>1 DEF Alone
<1>5. /\ idx \in DOMAIN m.parts[kind]
      /\ PartOf(r, id) = r.parts[kind][idx] /\ PartOf(m, id) = m.parts[kind][idx]
  BY <1>1 DEF ModelInv, Placed, PartOf
<1>6. x \in DOMAIN PartOf(m, id).conn
  BY <1>5 DEF MadeOf, PartsStay
<1>7. PartOf(r, id).conn[x] = HeldAfter(m, from, fromPort, to, toPort, kind, idx, x)
  BY <1>5, <1>6 DEF Connected
<1>8. x[1] \in Sides /\ x = <<x[1], x[2]>>
  BY <1>6, SlotIs
<1>9. SlotLeads(m, id, x)
  BY <1>4, <1>6 DEF SlotsLead, SlotsLeadFrom
<1>10. ASSUME kind = m.comps[to].kind, idx = m.comps[to].idx, x = In(toPort)
       PROVE  SlotLeads(r, id, x)
  <2>1. to = id
    BY <1>10, <1>4 DEF Alone
  <2>2. PartOf(r, id).conn[x] = last
    BY <1>7, <1>10 DEF HeldAfter
  <2>3. last \in At(r, id, x)
    BY <1>2, <1>3, <1>10, <2>1 DEF At, In
  <2> HIDE DEF last
  <2> QED
    BY <2>2, <2>3 DEF SlotLeads
<1>11. ASSUME kind = m.comps[from].kind, idx = m.comps[from].idx, x = Out(fromPort)
       PROVE  SlotLeads(r, id, x)
  <2>1. from = id
    BY <1>11, <1>4 DEF Alone
  <2>2. PartOf(r, id).conn[x] = last
    BY <1>7, <1>11 DEF HeldAfter
  <2>3. last \in At(r, id, x)
    BY <1>2, <1>3, <1>11, <2>1 DEF At, Out
  <2> HIDE DEF last
  <2> QED
    BY <2>2, <2>3 DEF SlotLeads
<1>12. ASSUME ~ (kind = m.comps[to].kind /\ idx = m.comps[to].idx /\ x = In(toPort)),
              ~ (kind = m.comps[from].kind /\ idx = m.comps[from].idx /\ x = Out(fromPort))
       PROVE  SlotLeads(r, id, x)
  <2>1. PartOf(r, id).conn[x] = PartOf(m, id).conn[x]
    BY <1>5, <1>7, <1>12 DEF HeldAfter
  <2>2. ~ (x = In(toPort) /\ to = id) /\ ~ (x = Out(fromPort) /\ from = id)
    BY <1>12
  <2>3. last \notin At(r, id, x)
    <3>1. CASE x[1] = "in"
      BY <1>2, <1>3, <1>8, <2>2, <3>1 DEF At, In
    <3>2. CASE x[1] = "out"
      BY <1>2, <1>3, <1>8, <2>2, <3>2 DEF At, Out
    <3> QED
      BY <1>8, <3>1, <3>2 DEF Sides
  <2>4. At(r, id, x) = At(m, id, x)
    <3> HIDE DEF last
    <3>1. \A k : k \in At(r, id, x) <=> k \in At(m, id, x)
      BY <1>2, <2>3 DEF At
    <3> QED
      BY <3>1
  <2> QED
    BY <1>1, <1>9, <2>1, <2>4 DEF SlotLeads
<1> QED
  BY <1>10, <1>11, <1>12

-----------------------------------------------------------------------------
(* Movers of a kind share the first part of their kind.                    *)
MoversShare(m) ==
  /\ \A id \in DOMAIN m.comps : m.comps[id].kind \in Movers => m.comps[id].idx = First
  /\ \A kind \in Movers :
       DOMAIN m.parts[kind] # {} => \E id \in DOMAIN m.comps : m.comps[id].kind = kind

Traced(m) == EndsHold(m) /\ SlotsLead(m) /\ MoversShare(m)

LEMMA OneMore ==
  ASSUME NEW m, ModelInv(m), NEW r, ModelInv(r), MadeOf(m, r), LastId(r) = LastId(m) + 1
  PROVE  /\ DOMAIN r.comps = DOMAIN m.comps \cup {LastId(r)} /\ LastId(r) \notin DOMAIN m.comps
         /\ \A id \in DOMAIN m.comps : r.comps[id] = m.comps[id]
<1>1. IsSeq(m.comps) /\ IsSeq(r.comps)
  BY DEF ModelInv, ModelShape
<1>2. LastId(m) \in Nat /\ DOMAIN m.comps = 1 .. LastId(m) /\ DOMAIN r.comps = 1 .. LastId(r)
  BY <1>1, SeqLength DEF LastId
<1>3. \A id \in DOMAIN m.comps : r.comps[id] = m.comps[id]
  BY DEF MadeOf, Grown
<1> QED
  BY <1>2, <1>3

(* Nothing is connected to a component that has just been added.           *)
Free(m, id) == \A k \in DOMAIN m.conns : m.conns[k].from # id /\ m.conns[k].to # id

LEMMA FreeIs ==
  ASSUME NEW m, EndsHold(m), NEW id, id \notin DOMAIN m.comps
  PROVE  Free(m, id)
<1> SUFFICES ASSUME NEW k \in DOMAIN m.conns
             PROVE  m.conns[k].from # id /\ m.conns[k].to # id
  BY DEF Free
<1>1. EndHolds(m, k, "in") /\ EndHolds(m, k, "out")
  BY DEF EndsHold, Sides
<1> QED
  BY <1>1 DEF EndHolds, EndId

LEMMA FreeJoins ==
  ASSUME NEW m, NEW id, Free(m, id), m.comps[id].kind # "Mux", NEW side, NEW port
  PROVE  Joint(m, id, side, port)
BY DEF Free, Joint, EndId

LEMMA FreeHasNone ==
  ASSUME NEW m, NEW id, Free(m, id), NEW x
  PROVE  At(m, id, x) = {}
BY DEF Free, At

AddedLast(m, r) ==
  /\ Traced(r) /\ ModelInv(r) /\ MadeOf(m, r)
  /\ r.conns = m.conns /\ LastId(r) = LastId(m) + 1
  /\ DOMAIN r.comps = DOMAIN m.comps \cup {LastId(r)} /\ LastId(r) \notin DOMAIN m.comps
  /\ \A id \in DOMAIN m.comps : r.comps[id] = m.comps[id]
  /\ Free(r, LastId(r)) /\ \A id : Free(m, id) => Free(r, id)

LEMMA TracedBoundary ==
  ASSUME NEW m, ModelInv(m), Traced(m), NEW kind \in Boundary, NEW inflows, IsSeq(inflows),
         NEW outflows, IsSeq(outflows), NEW tag,
         NEW r, r = AddComponent(m, kind, First, inflows, outflows, tag)
  PROVE  AddedLast(m, r) /\ r.comps[LastId(r)].kind = kind
<1>1. /\ ModelInv(r) /\ MadeOf(m, r)
      /\ LastId(r) = LastId(m) + 1 /\ r.conns = m.conns /\ r.parts = m.parts
      /\ r.comps[LastId(r)] = [kind |-> kind, idx |-> First, inflows |-> inflows,
                               outflows |-> outflows, tag |-> tag, age |-> 0, report |-> TRUE]
  BY AddingBoundary
<1>8. r.comps[LastId(r)].kind = kind
  BY <1>1
<1>2. kind \notin WithPart /\ kind \notin Movers
  BY DEF Boundary, WithPart, Converters, Movers
<1>3. CompsStay(m, r)
  BY <1>1, MadeStays
<1>4. /\ DOMAIN r.comps = DOMAIN m.comps \cup {LastId(r)} /\ LastId(r) \notin DOMAIN m.comps
      /\ \A id \in DOMAIN m.comps : r.comps[id] = m.comps[id]
  BY <1>1, OneMore
<1>5. EndsHold(r)
  BY <1>1, <1>3, EndsStay DEF Traced
<1>6. SlotsLead(r)
  <2>1. \A id \in DOMAIN r.comps \ DOMAIN m.comps : SlotsLeadFrom(r, id)
    BY <1>2, <1>4, <1>8 DEF SlotsLeadFrom
  <2> QED
    BY <1>1, <1>3, <2>1, LeadsStay DEF Traced
<1>7. MoversShare(r)
  BY <1>1, <1>2, <1>4, <1>8 DEF MoversShare, Traced
<1>9. Free(r, LastId(r)) /\ \A id : Free(m, id) => Free(r, id)
  BY <1>1, <1>4, FreeIs DEF Traced, Free
<1> QED
  BY <1>1, <1>4, <1>5, <1>6, <1>7, <1>8, <1>9 DEF Traced, AddedLast

LEMMA TracedPart ==
  ASSUME NEW m, ModelInv(m), Traced(m), NEW kind \in WithPart, NEW inflows, IsSeq(inflows),
         NEW outflows, IsSeq(outflows), NEW tag, NEW param,
         kind \in Movers => Slots(kind, inflows, outflows) = MoverSlots,
         NEW r, r = AddPart(m, kind, inflows, outflows, tag, param)
  PROVE  /\ AddedLast(m, r)
         /\ r.comps[LastId(r)].kind = kind /\ r.comps[LastId(r)].inflows = inflows
         /\ r.comps[LastId(r)].outflows = outflows
<1> DEFINE new == LastId(r)
           part == NewPart(kind, inflows, outflows, param)
<1>1. /\ ModelInv(r) /\ MadeOf(m, r)
      /\ new = LastId(m) + 1 /\ r.conns = m.conns
      /\ r.comps[new] =
           [kind |-> kind, idx |-> IndexIn(m, kind), inflows |-> inflows,
            outflows |-> outflows, tag |-> tag, age |-> 0, report |-> TRUE]
      /\ \A k \in WithPart : r.parts[k] = IF k = kind THEN Append(m.parts[k], part) ELSE m.parts[k]
  BY AddingPart
<1>2. /\ r.comps[new].kind = kind /\ r.comps[new].idx = IndexIn(m, kind)
      /\ r.comps[new].inflows = inflows /\ r.comps[new].outflows = outflows
  BY <1>1
<1>3. CompsStay(m, r)
  BY <1>1, MadeStays
<1>4. /\ DOMAIN r.comps = DOMAIN m.comps \cup {new} /\ new \notin DOMAIN m.comps
      /\ \A id \in DOMAIN m.comps : r.comps[id] = m.comps[id]
  BY <1>1, OneMore
<1>5. EndsHold(r)
  BY <1>1, <1>3, EndsStay DEF Traced
<1>6. Free(r, new) /\ \A id : Free(m, id) => Free(r, id)
  BY <1>1, <1>4, FreeIs DEF Traced, Free
<1>7. /\ \A k \in WithPart : IsSeq(m.parts[k])
      /\ Len(m.parts[kind]) \in Nat /\ DOMAIN m.parts[kind] = 1 .. Len(m.parts[kind])
  BY SeqLength DEF ModelInv, ModelShape
<1> HIDE DEF part, new
<1>8. /\ \A i \in DOMAIN m.parts[kind] : r.parts[kind][i] = m.parts[kind][i]
      /\ r.parts[kind][Len(m.parts[kind]) + 1] = part
      /\ DOMAIN r.parts[kind] = 1 .. Len(m.parts[kind]) + 1
  <2>1. r.parts[kind] = Append(m.parts[kind], part) /\ IsSeq(m.parts[kind])
    BY <1>1, <1>7
  <2> QED
    BY <1>7, <2>1, Appending
<1>9. MoversShare(r)
  <2>1. ASSUME NEW id \in DOMAIN r.comps, r.comps[id].kind \in Movers
        PROVE  r.comps[id].idx = First
    BY <1>2, <1>4, <2>1 DEF MoversShare, Traced, IndexIn, First
  <2>2. ASSUME NEW k \in Movers, DOMAIN r.parts[k] # {}
        PROVE  \E id \in DOMAIN r.comps : r.comps[id].kind = k
    <3>1. CASE k = kind
      BY <1>2, <1>4, <3>1
    <3>2. CASE k # kind
      <4>1. r.parts[k] = m.parts[k]
        BY <1>1, <3>2 DEF WithPart
      <4>2. \E id \in DOMAIN m.comps : m.comps[id].kind = k
        BY <2>2, <4>1 DEF MoversShare, Traced
      <4> QED
        BY <1>4, <4>2
    <3> QED
      BY <3>1, <3>2
  <2> QED
    BY <2>1, <2>2 DEF MoversShare
<1>10. SlotsLeadFrom(r, new)
  <2> SUFFICES ASSUME Alone(r, new), NEW x \in DOMAIN PartOf(r, new).conn
               PROVE  SlotLeads(r, new, x)
    BY DEF SlotsLeadFrom
  <2>1. IndexIn(m, kind) = Len(m.parts[kind]) + 1
    <3>1. CASE kind \in Movers
      <4>1. ASSUME NEW id \in DOMAIN m.comps PROVE m.comps[id].kind # kind
        <5>1. SUFFICES ASSUME m.comps[id].kind = kind PROVE FALSE
          OBVIOUS
        <5>2. m.comps[id].idx = IndexIn(m, kind)
          BY <3>1, <5>1 DEF MoversShare, Traced, IndexIn, First
        <5>3. id \in DOMAIN r.comps /\ r.comps[id] = m.comps[id] /\ id # new
          BY <1>4
        <5>4. r.comps[id].kind = r.comps[new].kind /\ r.comps[id].idx = r.comps[new].idx
          BY <1>2, <5>1, <5>2, <5>3
        <5> QED
          BY <5>3, <5>4 DEF Alone
      <4>2. DOMAIN m.parts[kind] = {}
        BY <3>1, <4>1 DEF MoversShare, Traced
      <4>3. Len(m.parts[kind]) = 0
        <5> DEFINE n == Len(m.parts[kind])
        <5>1. n \in Nat /\ 1 .. n = {}
          BY <1>7, <4>2
        <5> HIDE DEF n
        <5>2. 1 \notin 1 .. n
          BY <5>1
        <5>3. n = 0
          BY <5>1, <5>2
        <5> QED
          BY <5>3 DEF n
      <4> QED
        BY <3>1, <4>3 DEF IndexIn
    <3>2. CASE kind \notin Movers
      BY <3>2 DEF IndexIn
    <3> QED
      BY <3>1, <3>2
  <2>2. PartOf(r, new) = part
    BY <1>2, <1>8, <2>1 DEF PartOf
  <2>3. x \in OptionalSlots(kind) => part.conn[x] = None
    BY <2>2 DEF part, NewPart
  <2>4. At(r, new, x) = {}
    BY <1>6, FreeHasNone
  <2> QED
    BY <1>2, <2>2, <2>3, <2>4 DEF SlotLeads
<1>11. SlotsLead(r)
  <2>1. ASSUME NEW k \in WithPart, NEW i \in DOMAIN m.parts[k]
        PROVE  r.parts[k][i].conn = m.parts[k][i].conn
    BY <1>1, <1>8
  <2>2. \A id \in DOMAIN r.comps \ DOMAIN m.comps : SlotsLeadFrom(r, id)
    BY <1>4, <1>10
  <2> QED
    BY <1>1, <1>3, <2>1, <2>2, LeadsStay DEF Traced
<1> QED
  BY <1>1, <1>2, <1>4, <1>5, <1>6, <1>9, <1>11 DEF Traced, AddedLast, new

LEMMA TracedConnection ==
  ASSUME NEW m, ModelInv(m), Traced(m), NEW from \in DOMAIN m.comps, NEW fromPort,
         NEW to \in DOMAIN m.comps, NEW toPort, NEW flow,
         Joint(m, from, "out", fromPort), Joint(m, to, "in", toPort),
         NEW r, r = AddConnection(m, from, fromPort, to, toPort, flow)
  PROVE  /\ Traced(r) /\ ModelInv(r) /\ MadeOf(m, r)
         /\ Connected(m, r, from, fromPort, to, toPort, flow)
<1>1. ModelInv(r) /\ MadeOf(m, r) /\ Connected(m, r, from, fromPort, to, toPort, flow)
  BY Connecting
<1>2. EndsHold(r)
  BY <1>1, EndsConnected DEF Traced
<1>3. SlotsLead(r)
  BY <1>1, LeadsConnected DEF Traced
<1>4. MoversShare(r)
  <2>1. r.comps = m.comps /\ \A kind \in WithPart : DOMAIN r.parts[kind] = DOMAIN m.parts[kind]
    BY <1>1 DEF Connected
  <2>2. Movers \subseteq WithPart
    BY DEF WithPart
  <2> QED
    BY <2>1, <2>2 DEF Traced, MoversShare
<1> QED
  BY <1>1, <1>2, <1>3, <1>4 DEF Traced

LEMMA PortsAre ==
  ASSUME NEW m, NEW id, m.comps[id].kind \in WithPart, NEW port \in Nat
  PROVE  /\ port + 1 \in DOMAIN m.comps[id].outflows => AtPort(m, id, "out", port)
         /\ port + 1 \in DOMAIN m.comps[id].inflows => AtPort(m, id, "in", port)
<1>1. ASSUME port + 1 \in DOMAIN m.comps[id].outflows PROVE AtPort(m, id, "out", port)
  <2>1. (port + 1) - 1 = port
    OBVIOUS
  <2>2. Out((port + 1) - 1) \in SlotsOf(m, id)
    BY <1>1 DEF SlotsOf
  <2> QED
    BY <2>1, <2>2 DEF AtPort, Out
<1>2. ASSUME port + 1 \in DOMAIN m.comps[id].inflows PROVE AtPort(m, id, "in", port)
  <2>1. (port + 1) - 1 = port
    OBVIOUS
  <2>2. In((port + 1) - 1) \in SlotsOf(m, id)
    BY <1>2 DEF SlotsOf
  <2> QED
    BY <2>1, <2>2 DEF AtPort, In
<1> QED
  BY <1>1, <1>2

LEMMA LastAdded ==
  ASSUME NEW m, NEW r, AddedLast(m, r)
  PROVE  /\ Traced(r) /\ ModelInv(r) /\ LastId(r) \in DOMAIN r.comps /\ Free(r, LastId(r))
         /\ LastId(r) # LastId(m)
         /\ \A id \in DOMAIN m.comps : id \in DOMAIN r.comps /\ r.comps[id] = m.comps[id]
         /\ \A id : Free(m, id) => Free(r, id)
<1>1. IsSeq(r.comps) /\ LastId(r) = LastId(m) + 1
  BY DEF AddedLast, ModelInv, ModelShape
<1>2. LastId(r) \in DOMAIN r.comps
  BY DEF AddedLast
<1>3. LastId(r) # LastId(m)
  <2>1. LastId(r) \in Nat
    BY <1>1, SeqLength DEF LastId
  <2> QED
    BY <1>1, <1>2, <2>1 DEF AddedLast
<1> QED
  BY <1>2, <1>3 DEF AddedLast

LEMMA TracedSink ==
  ASSUME NEW m, ModelInv(m), Traced(m), NEW inflows, IsSeq(inflows),
         NEW r, r = AddWasteSink(m, inflows)
  PROVE  AddedLast(m, r) /\ r.comps[LastId(r)].kind = "WasteSink"
<1> DEFINE kind == "WasteSink"
           none == <<>>
           tag  == ""
<1>1. kind \in Boundary
  BY DEF Boundary
<1>2. IsSeq(none)
  BY Tuples
<1>3. r = AddComponent(m, kind, First, inflows, none, tag)
  BY DEF AddWasteSink
<1> HIDE DEF kind, none, tag
<1>4. AddedLast(m, r) /\ r.comps[LastId(r)].kind = kind
  BY <1>1, <1>2, <1>3, TracedBoundary
<1> QED
  BY <1>4 DEF kind

LEMMA TracedConverter ==
  ASSUME NEW m, ModelInv(m), Traced(m), NEW kind \in Converters, NEW param,
         NEW inflow, NEW outflow, NEW lossflow, NEW tag,
         NEW r, r = AddConverter(m, kind, param, inflow, outflow, lossflow, tag)
  PROVE  Traced(r)
<1> DEFINE ins == <<inflow>>
           outs == <<outflow, lossflow, NoFlow>>
           flow == <<NoFlow>>
           none == <<>>
           sink == AddWasteSink(m, flow)
           made == AddPart(sink, kind, ins, outs, tag, param)
<1>1. r = AddConnection(made, LastId(made), 2, LastId(sink), 0, NoFlow)
  BY DEF AddConverter
<1>2. IsSeq(ins) /\ IsSeq(outs) /\ IsSeq(flow) /\ IsSeq(none) /\ DOMAIN outs = 1 .. 3
  BY Tuples
<1>3. kind \in WithPart /\ kind \notin Movers
  BY DEF WithPart, Converters, Movers
<1> HIDE DEF ins, outs, flow, none, sink
<1>5. AddedLast(m, sink) /\ sink.comps[LastId(sink)].kind = "WasteSink"
  BY <1>2, TracedSink DEF sink
<1>6. /\ Traced(sink) /\ ModelInv(sink) /\ LastId(sink) \in DOMAIN sink.comps
      /\ Free(sink, LastId(sink))
  BY <1>5, LastAdded
<1>7. /\ AddedLast(sink, made) /\ made.comps[LastId(made)].kind = kind
      /\ made.comps[LastId(made)].outflows = outs
  BY <1>2, <1>3, <1>6, TracedPart
<1> HIDE DEF made
<1>8. /\ Traced(made) /\ ModelInv(made) /\ LastId(made) \in DOMAIN made.comps
      /\ LastId(sink) \in DOMAIN made.comps /\ Free(made, LastId(sink))
      /\ made.comps[LastId(sink)].kind = "WasteSink"
  BY <1>5, <1>6, <1>7, LastAdded
<1>9. Joint(made, LastId(made), "out", 2)
  <2>1. 2 \in Nat /\ 2 + 1 \in DOMAIN outs
    BY <1>2
  <2>2. AtPort(made, LastId(made), "out", 2)
    BY <1>3, <1>7, <2>1, PortsAre
  <2> QED
    BY <2>2 DEF Joint
<1>10. Joint(made, LastId(sink), "in", 0)
  BY <1>8, FreeJoins
<1> QED
  BY <1>1, <1>8, <1>9, <1>10, TracedConnection

LEMMA TracedScheduleBasedSource ==
  ASSUME NEW m, ModelInv(m), Traced(m), NEW param, NEW outflow, NEW tag,
         NEW r, r = AddScheduleBasedSource(m, param, outflow, tag)
  PROVE  /\ Traced(r)
         /\ \E id : /\ At(r, id, Out(1)) # {}
                    /\ \A j \in DOMAIN r.comps \ DOMAIN m.comps :
                         r.comps[j].kind = "ScheduleBasedSource" => j = id
<1> DEFINE kind == "ScheduleBasedSource"
           outs == <<outflow>>
           none == <<>>
           sink == AddWasteSink(m, none)
           made == AddPart(sink, kind, none, outs, tag, param)
<1>1. r = AddConnection(made, LastId(made), 1, LastId(sink), 0, NoFlow)
  BY DEF AddScheduleBasedSource
<1>2. IsSeq(outs) /\ IsSeq(none)
  BY Tuples
<1>3. kind \in WithPart /\ kind \notin Movers
  BY DEF WithPart, Movers
<1> HIDE DEF outs, none, sink
<1>5. AddedLast(m, sink) /\ sink.comps[LastId(sink)].kind = "WasteSink"
  BY <1>2, TracedSink DEF sink
<1>6. /\ Traced(sink) /\ ModelInv(sink) /\ LastId(sink) \in DOMAIN sink.comps
      /\ Free(sink, LastId(sink))
  BY <1>5, LastAdded
<1>7. AddedLast(sink, made) /\ made.comps[LastId(made)].kind = kind
  <2> HIDE DEF kind
  <2> QED
    BY <1>2, <1>3, <1>6, TracedPart
<1> HIDE DEF made
<1>8. /\ Traced(made) /\ ModelInv(made) /\ LastId(made) \in DOMAIN made.comps
      /\ LastId(sink) \in DOMAIN made.comps /\ Free(made, LastId(sink)) /\ Free(made, LastId(made))
      /\ made.comps[LastId(sink)].kind = "WasteSink"
  BY <1>5, <1>6, <1>7, LastAdded
<1>9. Joint(made, LastId(made), "out", 1)
  BY <1>7, <1>8, FreeJoins
<1>10. Joint(made, LastId(sink), "in", 0)
  BY <1>8, FreeJoins
<1>11. Traced(r) /\ Connected(made, r, LastId(made), 1, LastId(sink), 0, NoFlow)
  BY <1>1, <1>8, <1>9, <1>10, TracedConnection
<1>12. At(r, LastId(made), Out(1)) # {}
  <2> DEFINE new == ConnectionOf(made, LastId(made), 1, LastId(sink), 0, NoFlow)
             last == Len(made.conns) + 1
  <2>1. new.from = LastId(made) /\ new.fromPort = 1
    BY DEF ConnectionOf
  <2>2. IsSeq(made.conns) /\ r.conns = Append(made.conns, new)
    BY <1>8, <1>11 DEF ModelInv, ModelShape, Connected
  <2> HIDE DEF new
  <2>3. last \in DOMAIN r.conns /\ r.conns[last] = new
    <3>1. Len(made.conns) \in Nat
      BY <2>2, SeqLength
    <3> QED
      BY <2>2, <3>1, Appending
  <2> HIDE DEF last
  <2> QED
    BY <2>1, <2>3 DEF At, Out
<1>13. ASSUME NEW j \in DOMAIN r.comps \ DOMAIN m.comps, r.comps[j].kind = "ScheduleBasedSource"
       PROVE  j = LastId(made)
  <2>1. r.comps = made.comps
    BY <1>11 DEF Connected
  <2>2. j \in {LastId(sink), LastId(made)}
    BY <1>5, <1>7, <1>13, <2>1 DEF AddedLast
  <2> QED
    BY <1>8, <1>13, <2>1, <2>2
<1> QED
  BY <1>11, <1>12, <1>13

LEMMA TracedStoreWithWasteflow ==
  ASSUME NEW m, ModelInv(m), Traced(m), NEW param, NEW flow, NEW tag,
         NEW r, r = AddStoreWithWasteflow(m, param, flow, tag)
  PROVE  Traced(r)
<1> DEFINE kind == "Store"
           ins == <<flow>>
           waste == <<NoFlow>>
           none == <<>>
           made == AddPart(m, kind, ins, ins, tag, param)
           sink == AddWasteSink(made, waste)
<1>1. r = AddConnection(sink, LastId(made), 1, LastId(sink), 0, NoFlow)
  BY DEF AddStoreWithWasteflow, AddStore
<1>2. IsSeq(ins) /\ IsSeq(waste) /\ IsSeq(none)
  BY Tuples
<1>3. kind \in WithPart /\ kind \notin Movers
  BY DEF WithPart, Movers
<1> HIDE DEF ins, waste, none, sink
<1>5. AddedLast(m, made) /\ made.comps[LastId(made)].kind = kind
  <2> HIDE DEF kind
  <2> QED
    BY <1>2, <1>3, TracedPart
<1> HIDE DEF made
<1>6. /\ Traced(made) /\ ModelInv(made) /\ LastId(made) \in DOMAIN made.comps
      /\ Free(made, LastId(made))
  BY <1>5, LastAdded
<1>7. AddedLast(made, sink) /\ sink.comps[LastId(sink)].kind = "WasteSink"
  BY <1>2, <1>6, TracedSink DEF sink
<1>8. /\ Traced(sink) /\ ModelInv(sink) /\ LastId(sink) \in DOMAIN sink.comps
      /\ Free(sink, LastId(sink)) /\ LastId(made) \in DOMAIN sink.comps /\ Free(sink, LastId(made))
      /\ sink.comps[LastId(made)].kind = kind
  BY <1>5, <1>6, <1>7, LastAdded
<1>9. Joint(sink, LastId(made), "out", 1)
  BY <1>8, FreeJoins
<1>10. Joint(sink, LastId(sink), "in", 0)
  BY <1>7, <1>8, FreeJoins
<1> QED
  BY <1>1, <1>8, <1>9, <1>10, TracedConnection

LEMMA TracedMover ==
  ASSUME NEW m, ModelInv(m), Traced(m), NEW kind \in Movers, NEW param, NEW inflow, NEW outflow,
         NEW tag, NEW r, r = AddMover(m, kind, param, inflow, outflow, tag)
  PROVE  Traced(r)
<1> DEFINE ins == <<inflow, NoFlow>>
           outs == <<outflow, NoFlow>>
           flow == <<NoFlow>>
           none == <<>>
           sink == AddWasteSink(m, flow)
           env == AddComponent(sink, "EnvironmentSource", First, none, flow, "")
           made == AddPart(env, kind, ins, outs, tag, param)
           first == AddConnection(made, LastId(made), 1, LastId(sink), 0, NoFlow)
<1>1. r = AddConnection(first, LastId(env), 0, LastId(made), 1, NoFlow)
  BY DEF AddMover
<1>2. /\ IsSeq(ins) /\ IsSeq(outs) /\ IsSeq(flow) /\ IsSeq(none)
      /\ DOMAIN ins = 1 .. 2 /\ DOMAIN outs = 1 .. 2
  BY Tuples
<1>3. /\ kind \in WithPart /\ kind \notin {"ScheduleBasedSource", "Store"}
      /\ "EnvironmentSource" \in Boundary
  BY DEF WithPart, Movers, Boundary
<1> HIDE DEF ins, outs
<1>13. Slots(kind, ins, outs) = MoverSlots
  <2>1. {In(i - 1) : i \in DOMAIN ins} = {In(0), In(1)}
    BY <1>2 DEF In
  <2>2. {Out(i - 1) : i \in DOMAIN outs} = {Out(0), Out(1)}
    BY <1>2 DEF Out
  <2> QED
    BY <1>3, <2>1, <2>2 DEF Slots, MoverSlots
<1> HIDE DEF flow, none, sink
<1>5. AddedLast(m, sink) /\ sink.comps[LastId(sink)].kind = "WasteSink"
  BY <1>2, TracedSink DEF sink
<1>6. /\ Traced(sink) /\ ModelInv(sink) /\ LastId(sink) \in DOMAIN sink.comps
      /\ Free(sink, LastId(sink))
  BY <1>5, LastAdded
<1>7. AddedLast(sink, env) /\ env.comps[LastId(env)].kind = "EnvironmentSource"
  <2> DEFINE boundary == "EnvironmentSource"
             unnamed == ""
  <2>1. boundary \in Boundary /\ env = AddComponent(sink, boundary, First, none, flow, unnamed)
    BY <1>3
  <2> HIDE DEF boundary, unnamed, env
  <2>2. AddedLast(sink, env) /\ env.comps[LastId(env)].kind = boundary
    BY <1>2, <1>6, <2>1, TracedBoundary
  <2> QED
    BY <2>2 DEF boundary
<1> HIDE DEF env
<1>8. /\ Traced(env) /\ ModelInv(env) /\ LastId(env) \in DOMAIN env.comps
      /\ Free(env, LastId(env)) /\ LastId(sink) \in DOMAIN env.comps /\ Free(env, LastId(sink))
      /\ env.comps[LastId(sink)].kind = "WasteSink" /\ LastId(env) # LastId(sink)
  BY <1>5, <1>6, <1>7, LastAdded
<1>9. /\ AddedLast(env, made) /\ made.comps[LastId(made)].kind = kind
      /\ made.comps[LastId(made)].inflows = ins /\ made.comps[LastId(made)].outflows = outs
  BY <1>2, <1>3, <1>8, <1>13, TracedPart
<1> HIDE DEF made
<1>10. /\ Traced(made) /\ ModelInv(made) /\ LastId(made) \in DOMAIN made.comps
       /\ LastId(sink) \in DOMAIN made.comps /\ Free(made, LastId(sink))
       /\ LastId(env) \in DOMAIN made.comps /\ Free(made, LastId(env))
       /\ made.comps[LastId(sink)].kind = "WasteSink"
       /\ made.comps[LastId(env)].kind = "EnvironmentSource" /\ LastId(made) # LastId(env)
  BY <1>7, <1>8, <1>9, LastAdded
<1>11. AtPort(made, LastId(made), "out", 1) /\ AtPort(made, LastId(made), "in", 1)
  <2>1. 1 \in Nat /\ 1 + 1 \in DOMAIN outs /\ 1 + 1 \in DOMAIN ins
    BY <1>2
  <2> QED
    BY <1>3, <1>9, <2>1, PortsAre
<1>12. /\ Joint(made, LastId(made), "out", 1) /\ Joint(made, LastId(sink), "in", 0)
  BY <1>10, <1>11, FreeJoins DEF Joint
<1>14. /\ Traced(first) /\ ModelInv(first)
       /\ Connected(made, first, LastId(made), 1, LastId(sink), 0, NoFlow)
  BY <1>10, <1>12, TracedConnection
<1> HIDE DEF first
<1>15. first.comps = made.comps
  BY <1>14 DEF Connected
<1>16. Joint(first, LastId(made), "in", 1)
  BY <1>11, <1>15 DEF Joint, AtPort, SlotsOf
<1>17. Joint(first, LastId(env), "out", 0)
  <2> DEFINE new == ConnectionOf(made, LastId(made), 1, LastId(sink), 0, NoFlow)
             last == Len(made.conns) + 1
  <2>1. new.from = LastId(made)
    BY DEF ConnectionOf
  <2>2. IsSeq(made.conns) /\ first.conns = Append(made.conns, new)
    BY <1>10, <1>14 DEF ModelInv, ModelShape, Connected
  <2> HIDE DEF new
  <2>3. /\ DOMAIN first.conns = DOMAIN made.conns \cup {last}
        /\ \A k \in DOMAIN made.conns : first.conns[k] = made.conns[k]
        /\ first.conns[last] = new
    <3>1. Len(made.conns) \in Nat /\ DOMAIN made.conns = 1 .. Len(made.conns)
      BY <2>2, SeqLength
    <3> QED
      BY <2>2, <3>1, Appending
  <2> HIDE DEF last
  <2>4. \A k \in DOMAIN first.conns : first.conns[k].from # LastId(env)
    BY <1>10, <2>1, <2>3 DEF Free
  <2> QED
    BY <1>10, <1>15, <2>4 DEF Joint, EndId
<1>18. LastId(env) \in DOMAIN first.comps /\ LastId(made) \in DOMAIN first.comps
  BY <1>10, <1>15
<1> QED
  BY <1>1, <1>14, <1>16, <1>17, <1>18, TracedConnection

LEMMA TracedPlain ==
  ASSUME NEW m, ModelInv(m), Traced(m), NEW kind \in WithPart \ Movers,
         NEW inflows, IsSeq(inflows), NEW outflows, IsSeq(outflows), NEW tag, NEW param,
         NEW r, r = AddPart(m, kind, inflows, outflows, tag, param)
  PROVE  Traced(r)
<1>1. AddedLast(m, r)
  BY TracedPart
<1> QED
  BY <1>1 DEF AddedLast

(* A source with a schedule has its waste somewhere to go.                 *)
WasteLeaves(m) ==
  \A id \in DOMAIN m.comps : m.comps[id].kind = "ScheduleBasedSource" => At(m, id, Out(1)) # {}

LEMMA TracedToModel ==
  ASSUME NEW m, ModelInv(m), Traced(m), NEW kind \in WithPart, NEW f, NEW param, NEW flows, NEW tag,
         kind = "Mux" => f.num_inflows \in Nat /\ f.num_outflows \in Nat,
         NEW r, r = AddToModel(m, kind, f, param, flows, tag)
  PROVE  /\ Traced(r)
         /\ kind = "ScheduleBasedSource" =>
              \E id : /\ At(r, id, Out(1)) # {}
                      /\ \A j \in DOMAIN r.comps \ DOMAIN m.comps :
                           r.comps[j].kind = "ScheduleBasedSource" => j = id
<1> DEFINE in == FlowId(flows, f, "inflow")
           out == FlowId(flows, f, "outflow")
           loss == FlowId(flows, f, "lossflow")
<1>2. IsSeq(<<in>>) /\ IsSeq(<<out>>) /\ IsSeq(<<>>) /\ IsSeq(<<in, in>>)
  <2> HIDE DEF in, out
  <2> QED
    BY Tuples
<1> HIDE DEF in, out, loss
<1>4. kind \in {"ConstantLoad", "ScheduleBasedLoad", "ConstantSource", "ScheduleBasedSource",
                "Mux", "PassThrough", "Switch", "Store"} \cup Converters \cup Movers
  BY DEF WithPart
<1>5. CASE kind = "ConstantLoad"
  <2>1. r = AddPart(m, kind, <<in>>, <<>>, tag, param)
    BY <1>5 DEF AddToModel, AddConstantLoad, in, Converters, Movers
  <2>2. kind \in WithPart \ Movers /\ kind # "ScheduleBasedSource"
    BY <1>5 DEF Movers
  <2> QED
    BY <1>2, <2>1, <2>2, TracedPlain
<1>6. CASE kind = "ScheduleBasedLoad"
  <2>1. r = AddPart(m, kind, <<in>>, <<>>, tag, param)
    BY <1>6 DEF AddToModel, AddScheduleBasedLoad, in, Converters, Movers
  <2>2. kind \in WithPart \ Movers /\ kind # "ScheduleBasedSource"
    BY <1>6 DEF Movers
  <2> QED
    BY <1>2, <2>1, <2>2, TracedPlain
<1>7. CASE kind = "ConstantSource"
  <2>1. r = AddPart(m, kind, <<>>, <<out>>, tag, param)
    BY <1>7 DEF AddToModel, AddConstantSource, out, Converters, Movers
  <2>2. kind \in WithPart \ Movers /\ kind # "ScheduleBasedSource"
    BY <1>7 DEF Movers
  <2> QED
    BY <1>2, <2>1, <2>2, TracedPlain
<1>8. CASE kind = "ScheduleBasedSource"
  <2>1. r = AddScheduleBasedSource(m, param, out, tag)
    BY <1>8 DEF AddToModel, out, Converters, Movers
  <2> QED
    BY <2>1, TracedScheduleBasedSource
<1>9. CASE kind = "Mux"
  <2> DEFINE ins == [i \in 1 .. f.num_inflows |-> out]
             outs == [i \in 1 .. f.num_outflows |-> out]
  <2>1. r = AddPart(m, kind, ins, outs, tag, param)
    BY <1>9 DEF AddToModel, AddMux, out, Converters, Movers
  <2>2. kind \in WithPart \ Movers /\ kind # "ScheduleBasedSource"
    BY <1>9 DEF Movers
  <2>3. f.num_inflows \in Nat /\ f.num_outflows \in Nat
    BY <1>9
  <2>4. IsSeq(ins) /\ IsSeq(outs)
    BY <2>3 DEF IsSeq
  <2> HIDE DEF ins, outs
  <2> QED
    BY <2>1, <2>2, <2>4, TracedPlain
<1>10. CASE kind = "PassThrough"
  <2>1. r = AddPart(m, kind, <<in>>, <<in>>, tag, param)
    BY <1>10 DEF AddToModel, AddPassThrough, in, Converters, Movers
  <2>2. kind \in WithPart \ Movers /\ kind # "ScheduleBasedSource"
    BY <1>10 DEF Movers
  <2> QED
    BY <1>2, <2>1, <2>2, TracedPlain
<1>11. CASE kind = "Switch"
  <2>1. r = AddPart(m, kind, <<in, in>>, <<in>>, tag, param)
    BY <1>11 DEF AddToModel, AddSwitch, in, Converters, Movers
  <2>2. kind \in WithPart \ Movers /\ kind # "ScheduleBasedSource"
    BY <1>11 DEF Movers
  <2> QED
    BY <1>2, <2>1, <2>2, TracedPlain
<1>12. CASE kind = "Store"
  <2>2. kind \in WithPart \ Movers /\ kind # "ScheduleBasedSource"
    BY <1>12 DEF Movers
  <2>1. CASE param.roundTrip[1] = param.roundTrip[2]
    <3>1. r = AddPart(m, kind, <<in>>, <<in>>, tag, param)
      BY <1>12, <2>1 DEF AddToModel, AddStore, in, Converters, Movers
    <3> QED
      BY <1>2, <2>2, <3>1, TracedPlain
  <2>3. CASE param.roundTrip[1] # param.roundTrip[2]
    <3>1. r = AddStoreWithWasteflow(m, param, in, tag)
      BY <1>12, <2>3 DEF AddToModel, in, Converters, Movers
    <3> QED
      BY <2>2, <3>1, TracedStoreWithWasteflow
  <2> QED
    BY <2>1, <2>3
<1>13. CASE kind \in Converters
  <2>1. r = AddConverter(m, kind, param, in, out, loss, tag)
    BY <1>13 DEF AddToModel, in, out, loss, Converters, Movers
  <2>2. kind # "ScheduleBasedSource"
    BY <1>13 DEF Converters
  <2> QED
    BY <1>13, <2>1, <2>2, TracedConverter
<1>14. CASE kind \in Movers
  <2>1. r = AddMover(m, kind, param, in, out, tag)
    BY <1>14 DEF AddToModel, in, out, Converters, Movers
  <2>2. kind # "ScheduleBasedSource"
    BY <1>14 DEF Movers
  <2> QED
    BY <1>14, <2>1, <2>2, TracedMover
<1> QED
  BY <1>4, <1>5, <1>6, <1>7, <1>8, <1>9, <1>10, <1>11, <1>12, <1>13, <1>14

LEMMA AtGrows ==
  ASSUME NEW m, NEW r, Grown(m.conns, r.conns), NEW id, NEW x
  PROVE  At(m, id, x) \subseteq At(r, id, x)
<1>1. DOMAIN m.conns \subseteq DOMAIN r.conns /\ \A k \in DOMAIN m.conns : r.conns[k] = m.conns[k]
  BY GrownHas DEF GrownDomain, Grown
<1> QED
  BY <1>1 DEF At

LEMMA WasteLeavesOn ==
  ASSUME NEW m, ModelInv(m), WasteLeaves(m), NEW kind \in WithPart, NEW ids, NEW tag, NEW param,
         NEW r, AddedWith(m, r, kind, ids, tag, param),
         kind = "ScheduleBasedSource" =>
           \E id : /\ At(r, id, Out(1)) # {}
                   /\ \A j \in DOMAIN r.comps \ DOMAIN m.comps :
                        r.comps[j].kind = "ScheduleBasedSource" => j = id
  PROVE  WasteLeaves(r)
<1> SUFFICES ASSUME NEW id \in DOMAIN r.comps, r.comps[id].kind = "ScheduleBasedSource"
             PROVE  At(r, id, Out(1)) # {}
  BY DEF WasteLeaves
<1>1. PICK inflows, outflows : AddedOne(m, r, kind, inflows, outflows, tag, param)
  BY DEF AddedWith
<1>2. Grown(m.comps, r.comps) /\ Grown(m.conns, r.conns)
  BY <1>1 DEF AddedOne, MadeOf
<1>3. CASE id \in DOMAIN m.comps
  <2>1. m.comps[id].kind = "ScheduleBasedSource"
    BY <1>2, <1>3 DEF Grown
  <2>2. At(m, id, Out(1)) # {}
    BY <1>3, <2>1 DEF WasteLeaves
  <2> QED
    BY <1>2, <2>2, AtGrows
<1>4. CASE id \notin DOMAIN m.comps
  <2>1. PICK new \in DOMAIN r.comps \ DOMAIN m.comps :
          /\ r.comps[new] = [kind |-> kind, idx |-> IndexIn(m, kind), inflows |-> inflows,
                             outflows |-> outflows, tag |-> tag, age |-> 0, report |-> TRUE]
          /\ \A j \in DOMAIN r.comps \ DOMAIN m.comps : j # new => r.comps[j].kind \in Boundary
    BY <1>1 DEF AddedOne
  <2>2. r.comps[new].kind = kind /\ "ScheduleBasedSource" \notin Boundary
    BY <2>1 DEF Boundary
  <2>3. kind = "ScheduleBasedSource"
    BY <1>4, <2>1, <2>2
  <2> QED
    BY <1>4, <2>3
<1> QED
  BY <1>3, <1>4

(* A name is that of one component, which is not on the boundary.          *)
NamesOnce(m) ==
  \A i \in DOMAIN m.comps : m.comps[i].tag # "" =>
    /\ m.comps[i].kind \in WithPart
    /\ \A j \in DOMAIN m.comps : m.comps[j].tag = m.comps[i].tag => j = i

LEMMA CompHas ==
  ASSUME NEW comp, NEW kind, NEW idx, NEW inflows, NEW outflows, NEW tag,
         comp = [kind |-> kind, idx |-> idx, inflows |-> inflows,
                 outflows |-> outflows, tag |-> tag, age |-> 0, report |-> TRUE]
  PROVE  comp.kind = kind /\ comp.tag = tag
OBVIOUS

LEMMA NamedOnce ==
  ASSUME NEW m, ModelInv(m), NamesOnce(m), NEW kind \in WithPart, NEW ids, NEW tag, NEW param,
         tag \notin TagsOf(m.comps),
         NEW r, AddedWith(m, r, kind, ids, tag, param)
  PROVE  NamesOnce(r) /\ TagsOf(r.comps) \subseteq TagsOf(m.comps) \cup {tag, ""}
<1>1. PICK inflows, outflows : AddedOne(m, r, kind, inflows, outflows, tag, param)
  BY DEF AddedWith
<1>2. PICK new \in DOMAIN r.comps \ DOMAIN m.comps :
        /\ r.comps[new] = [kind |-> kind, idx |-> IndexIn(m, kind), inflows |-> inflows,
                           outflows |-> outflows, tag |-> tag, age |-> 0, report |-> TRUE]
        /\ \A j \in DOMAIN r.comps \ DOMAIN m.comps : j # new =>
             /\ r.comps[j].kind \in Boundary /\ r.comps[j].tag = ""
             /\ Range(r.comps[j].inflows) \cup Range(r.comps[j].outflows) \subseteq {NoFlow}
  BY <1>1 DEF AddedOne
<1>3. r.comps[new].kind = kind /\ r.comps[new].tag = tag
  <2>1. r.comps[new] = [kind |-> kind, idx |-> IndexIn(m, kind), inflows |-> inflows,
                        outflows |-> outflows, tag |-> tag, age |-> 0, report |-> TRUE]
    BY <1>2
  <2> QED
    BY <2>1, CompHas
<1>4. \A id \in DOMAIN m.comps : id \in DOMAIN r.comps /\ r.comps[id] = m.comps[id]
  <2>1. Grown(m.comps, r.comps)
    BY <1>1 DEF AddedOne, MadeOf
  <2> QED
    BY <2>1, GrownHas DEF Grown, GrownDomain
<1>5. \A id \in DOMAIN m.comps : m.comps[id].tag # tag
  BY DEF TagsOf
<1>6. NamesOnce(r)
  <2> SUFFICES ASSUME NEW i \in DOMAIN r.comps, r.comps[i].tag # ""
               PROVE  /\ r.comps[i].kind \in WithPart
                      /\ \A j \in DOMAIN r.comps : r.comps[j].tag = r.comps[i].tag => j = i
    BY DEF NamesOnce
  <2>1. CASE i = new
    BY <1>2, <1>3, <1>4, <1>5, <2>1
  <2>2. CASE i \in DOMAIN m.comps
    <3>1. /\ m.comps[i].tag # "" /\ m.comps[i].kind \in WithPart
          /\ \A j \in DOMAIN m.comps : m.comps[j].tag = m.comps[i].tag => j = i
      BY <1>4, <2>2 DEF NamesOnce
    <3> QED
      BY <1>2, <1>3, <1>4, <1>5, <2>2, <3>1
  <2> QED
    BY <1>2, <2>1, <2>2
<1>7. ASSUME NEW i \in DOMAIN r.comps PROVE r.comps[i].tag \in TagsOf(m.comps) \cup {tag, ""}
  BY <1>2, <1>3, <1>4 DEF TagsOf
<1> QED
  BY <1>6, <1>7 DEF TagsOf

(* A network that is put together as Simulation_ReadFromToml does.         *)
Built(m) == Traced(m) /\ WasteLeaves(m) /\ NamesOnce(m)

LEMMA BuiltSettled ==
  ASSUME NEW m, ModelInv(m), Built(m), NEW r, Settled(m, r)
  PROVE  Built(r) /\ TagsOf(r.comps) = TagsOf(m.comps)
<1>1. r.conns = m.conns /\ DOMAIN r.comps = DOMAIN m.comps /\ CompsStay(m, r)
  BY DEF Settled, CompsStay
<1>2. \A k \in WithPart : /\ DOMAIN r.parts[k] = DOMAIN m.parts[k]
                          /\ \A i \in DOMAIN m.parts[k] : r.parts[k][i].conn = m.parts[k][i].conn
  BY DEF Settled
<1>3. \A id \in DOMAIN m.comps : r.comps[id].tag = m.comps[id].tag /\ r.comps[id].kind = m.comps[id].kind
  BY DEF Settled
<1>4. EndsHold(r) /\ SlotsLead(r)
  BY <1>1, <1>2, EndsStay, LeadsStay DEF Built, Traced
<1>5. MoversShare(r)
  <2>1. Movers \subseteq WithPart
    BY DEF WithPart
  <2> QED
    BY <1>1, <1>2, <1>3, <2>1 DEF MoversShare, CompsStay, Built, Traced
<1>6. WasteLeaves(r)
  <2>1. \A id : At(r, id, Out(1)) = At(m, id, Out(1))
    BY <1>1 DEF At
  <2> QED
    BY <1>1, <1>3, <2>1 DEF WasteLeaves, Built
<1>7. NamesOnce(r)
  BY <1>1, <1>3 DEF NamesOnce, Built
<1>8. TagsOf(r.comps) = TagsOf(m.comps)
  BY <1>1, <1>3 DEF TagsOf
<1> QED
  BY <1>4, <1>5, <1>6, <1>7, <1>8 DEF Built, Traced

LEMMA BuiltComponent ==
  ASSUME LoadInv, Built(s.model), NEW tag, tag \notin TagsOf(s.model.comps),
         NEW r, ComponentAdded(tag, r)
  PROVE  Built(r.model) /\ TagsOf(r.model.comps) \subseteq TagsOf(s.model.comps) \cup {tag, ""}
<1>1. ModelInv(s.model)
  BY DEF LoadInv, SimInv
<1>2. PICK kind \in WithPart : \E f, made, ids, byScenario :
        /\ Suitable(kind, f) /\ FieldsHaveTheirTypes(kind, f)
        /\ AddedWith(s.model, made, kind, ids, tag, Param(kind, f, byScenario))
        /\ MadeWith(made, kind, f, Param(kind, f, byScenario), tag)
        /\ Settled(made, r.model)
  BY DEF ComponentAdded
<1>3. PICK f, made, ids, byScenario :
        /\ Suitable(kind, f) /\ FieldsHaveTheirTypes(kind, f)
        /\ AddedWith(s.model, made, kind, ids, tag, Param(kind, f, byScenario))
        /\ MadeWith(made, kind, f, Param(kind, f, byScenario), tag)
        /\ Settled(made, r.model)
  BY <1>2
<1>4. kind = "Mux" => f.num_inflows \in Nat /\ f.num_outflows \in Nat
  <2>1. SUFFICES ASSUME kind = "Mux"
                 PROVE  f.num_inflows \in Nat /\ f.num_outflows \in Nat
    OBVIOUS
  <2>2. f.num_inflows \in Int /\ f.num_outflows \in Int
    BY <1>3, <2>1 DEF FieldsHaveTheirTypes
  <2>3. f.num_inflows > 0 /\ f.num_outflows > 0
    BY <1>3, <2>1 DEF Suitable
  <2> QED
    BY <2>2, <2>3
<1> DEFINE param == Param(kind, f, byScenario)
<1> HIDE DEF param
<1>5. PICK flows : made = AddToModel(s.model, kind, f, param, flows, tag)
  BY <1>3 DEF MadeWith, param
<1>6. AddedWith(s.model, made, kind, ids, tag, param)
  BY <1>3 DEF param
<1>7. /\ Traced(made)
      /\ kind = "ScheduleBasedSource" =>
           \E id : /\ At(made, id, Out(1)) # {}
                   /\ \A j \in DOMAIN made.comps \ DOMAIN s.model.comps :
                        made.comps[j].kind = "ScheduleBasedSource" => j = id
  BY <1>1, <1>4, <1>5, TracedToModel DEF Built
<1>8. WasteLeaves(made)
  BY <1>1, <1>6, <1>7, WasteLeavesOn DEF Built
<1>9. NamesOnce(made) /\ TagsOf(made.comps) \subseteq TagsOf(s.model.comps) \cup {tag, ""}
  BY <1>1, <1>6, NamedOnce DEF Built
<1>10. Built(made) /\ ModelInv(made)
  BY <1>6, <1>7, <1>8, <1>9, AddedHasTag, <1>1 DEF Built
<1> QED
  BY <1>3, <1>9, <1>10, BuiltSettled

LEMMA InputPorts ==
  ASSUME input \in Inputs, NEW i \in DOMAIN input.conns
  PROVE  /\ input.conns[i].fromPort \in Nat /\ input.conns[i].toPort \in Nat
         /\ input.conns[i].from \in TagsInUse /\ input.conns[i].to \in TagsInUse
<1>1. input.conns[i] \in Range(input.conns)
  BY DEF Range
<1>2. {input.conns[i].fromPort, input.conns[i].toPort} \subseteq Nat
  BY <1>1, InputsAssumption
<1> QED
  BY <1>2 DEF TagsInUse

LEMMA PortWithin ==
  ASSUME NEW port \in Nat, NEW n \in Nat, port < n
  PROVE  port + 1 \in 1 .. n
OBVIOUS

LEMMA BuiltConnection ==
  ASSUME LoadInv, Built(s.model), "" \notin TagsInUse, NEW i \in DOMAIN input.conns,
         NEW q, ConnectionAdded(i, q)
  PROVE  Built(q.model) /\ q.model.comps = s.model.comps
<1> DEFINE c == input.conns[i]
           comps == s.model.comps
           from == IdOf(comps, c.from)
           to == IdOf(comps, c.to)
           flow == IdOfName(s.flows, c.flow)
<1>1. /\ SimInv(s) /\ SimShape(s) /\ ModelInv(s.model) /\ IsSeq(s.model.comps)
      /\ \A id \in DOMAIN comps : IsSeq(comps[id].inflows) /\ IsSeq(comps[id].outflows)
  BY DEF LoadInv, SimInv, ModelInv, ModelShape, CompShape
<1>2. PICK m : /\ m = AddConnection(s.model, from, c.fromPort, to, c.toPort, flow)
               /\ q = [s EXCEPT !.model = m] /\ ConnectionSuits(c)
               /\ from \in DOMAIN comps /\ to \in DOMAIN comps
  BY DEF ConnectionAdded
<1>3. q.model = m
  BY <1>1, <1>2 DEF SimShape
<1>4. /\ c.fromPort \in Nat /\ c.toPort \in Nat /\ c.from # "" /\ c.to # ""
  BY InputPorts DEF LoadInv
<1>5. comps[from].tag = c.from /\ comps[to].tag = c.to
  <2>1. c.from \in TagsOf(comps) /\ c.to \in TagsOf(comps)
    BY <1>2, TaggedIs DEF ConnectionSuits
  <2> QED
    BY <1>1, <2>1, IdIs
<1>6. comps[from].kind \in WithPart /\ comps[to].kind \in WithPart
  BY <1>2, <1>4, <1>5 DEF Built, NamesOnce
<1>7. c.fromPort < Len(comps[from].outflows) /\ c.toPort < Len(comps[to].inflows)
  BY <1>2 DEF ConnectionSuits, HasPort
<1>8. /\ c.fromPort + 1 \in DOMAIN comps[from].outflows
      /\ c.toPort + 1 \in DOMAIN comps[to].inflows
  <2>1. /\ Len(comps[from].outflows) \in Nat /\ Len(comps[to].inflows) \in Nat
        /\ DOMAIN comps[from].outflows = 1 .. Len(comps[from].outflows)
        /\ DOMAIN comps[to].inflows = 1 .. Len(comps[to].inflows)
    BY <1>1, <1>2, SeqLength
  <2>3. /\ c.fromPort + 1 \in 1 .. Len(comps[from].outflows)
        /\ c.toPort + 1 \in 1 .. Len(comps[to].inflows)
    <3> HIDE DEF from, to, comps, c
    <3>1. c.fromPort \in Nat /\ c.toPort \in Nat
      BY <1>4
    <3> QED
      BY <1>7, <2>1, <3>1, PortWithin
  <2> QED
    BY <2>1, <2>3
<1> HIDE DEF from, to, flow
<1>9. Joint(s.model, from, "out", c.fromPort) /\ Joint(s.model, to, "in", c.toPort)
  <2>1. AtPort(s.model, from, "out", c.fromPort)
    BY <1>4, <1>6, <1>8, PortsAre
  <2>2. AtPort(s.model, to, "in", c.toPort)
    BY <1>4, <1>6, <1>8, PortsAre
  <2> QED
    BY <2>1, <2>2 DEF Joint
<1>10. /\ Traced(m) /\ MadeOf(s.model, m)
       /\ Connected(s.model, m, from, c.fromPort, to, c.toPort, flow)
  BY <1>1, <1>2, <1>9, TracedConnection DEF Built
<1>11. m.comps = s.model.comps
  BY <1>10 DEF Connected
<1>12. WasteLeaves(m)
  <2>1. \A id : At(s.model, id, Out(1)) \subseteq At(m, id, Out(1))
    BY <1>10, AtGrows DEF MadeOf
  <2> QED
    BY <1>11, <2>1 DEF WasteLeaves, Built
<1>13. NamesOnce(m)
  BY <1>11 DEF NamesOnce, Built
<1> QED
  BY <1>3, <1>10, <1>11, <1>12, <1>13 DEF Built

(* Where no connection names a component by an empty name, which is that   *)
(* of all the boundary, the network is always one that is put together as  *)
(* it should be, and no table is read twice.                               *)
NetInv ==
  "" \notin TagsInUse =>
    /\ Built(s.model)
    /\ phase \in {"simulation_info", "loads"} => TagsOf(s.model.comps) = {}
    /\ phase = "components" => TagsOf(s.model.comps) \cap left \subseteq {""}

LEMMA NetStep ==
  ASSUME LoadInv, NetInv, [Next]_vars
  PROVE  NetInv'
<1>1. LoadStep
  BY LoadStepIs
<1>2. TagsInUse' = TagsInUse
  BY <1>1 DEF LoadStep, vars, Fail, GiveUpSection, NextSection, Check, Read, TagsInUse
<1> SUFFICES ASSUME "" \notin TagsInUse
             PROVE  /\ Built(s.model)'
                    /\ (phase \in {"simulation_info", "loads"} => TagsOf(s.model.comps) = {})'
                    /\ (phase = "components" => TagsOf(s.model.comps) \cap left \subseteq {""})'
  BY <1>2 DEF NetInv
<1>3. /\ Built(s.model)
      /\ phase \in {"simulation_info", "loads"} => TagsOf(s.model.comps) = {}
      /\ phase = "components" => TagsOf(s.model.comps) \cap left \subseteq {""}
  BY DEF NetInv
<1>4. CASE s'.model = s.model
  <2>1. \/ phase' = phase /\ left' \subseteq left
        \/ /\ phase \in Range(Sections) \ {"ready"}
           /\ phase' = Follows(phase) /\ left' = NamesIn(Follows(phase))
        \/ phase' \in {"rejected", "crashed", "checked"}
    BY <1>1, NextSectionIs DEF LoadStep, vars, Fail, GiveUpSection, Check, Read
  <2>2. CASE phase' = phase /\ left' \subseteq left
    BY <1>3, <1>4, <2>2
  <2>3. CASE phase' \in {"rejected", "crashed", "checked"}
    BY <1>3, <1>4, <2>3
  <2>4. CASE /\ phase \in Range(Sections) \ {"ready"}
             /\ phase' = Follows(phase)
    <3>1. /\ phase' = "components" => phase = "loads"
          /\ phase' = "loads" => phase = "simulation_info"
          /\ phase' # "simulation_info"
      BY <2>4, FollowsAre, SectionsAre
    <3> QED
      BY <1>3, <1>4, <3>1
  <2> QED
    BY <2>1, <2>2, <2>3, <2>4
<1>5. ASSUME NEW tag \in left, phase = "components", tag \in TagsInUse,
             Read(tag, s'), ComponentAdded(tag, s')
      PROVE  /\ Built(s.model)'
             /\ (phase \in {"simulation_info", "loads"} => TagsOf(s.model.comps) = {})'
             /\ (phase = "components" => TagsOf(s.model.comps) \cap left \subseteq {""})'
  <2>1. tag \notin TagsOf(s.model.comps)
    <3>1. tag # ""
      BY <1>5
    <3>2. TagsOf(s.model.comps) \cap left \subseteq {""}
      BY <1>3, <1>5
    <3> QED
      BY <1>5, <3>1, <3>2
  <2>2. Built(s'.model) /\ TagsOf(s'.model.comps) \subseteq TagsOf(s.model.comps) \cup {tag, ""}
    BY <1>3, <1>5, <2>1, BuiltComponent
  <2>3. phase' = "components" /\ left' = left \ {tag}
    BY <1>5 DEF Read
  <2> QED
    BY <1>3, <1>5, <2>2, <2>3
<1>6. ASSUME NEW i \in left, phase = "network", Read(i, s'), ConnectionAdded(i, s')
      PROVE  /\ Built(s.model)'
             /\ (phase \in {"simulation_info", "loads"} => TagsOf(s.model.comps) = {})'
             /\ (phase = "components" => TagsOf(s.model.comps) \cap left \subseteq {""})'
  <2>1. i \in DOMAIN input.conns
    BY <1>6, SectionsAre DEF LoadInv, NamesIn
  <2>2. Built(s'.model)
    BY <1>3, <1>6, <2>1, BuiltConnection
  <2>3. phase' = "network"
    BY <1>6 DEF Read
  <2> QED
    BY <2>2, <2>3
<1> QED
  BY <1>4, <1>5, <1>6, ModelSteps

LEMMA NetBegins ==
  ASSUME Init
  PROVE  NetInv
<1>1. s.model = EmptyModel /\ phase = "simulation_info"
  BY DEF Init
<1>2. /\ DOMAIN EmptyModel.comps = {} /\ DOMAIN EmptyModel.conns = {}
      /\ \A kind \in WithPart : DOMAIN EmptyModel.parts[kind] = {}
  BY Tuples DEF EmptyModel
<1>3. EndsHold(EmptyModel) /\ SlotsLead(EmptyModel)
  BY <1>2 DEF EndsHold, SlotsLead
<1>4. MoversShare(EmptyModel)
  BY <1>2 DEF MoversShare, WithPart
<1>5. WasteLeaves(EmptyModel) /\ NamesOnce(EmptyModel) /\ TagsOf(EmptyModel.comps) = {}
  BY <1>2 DEF WasteLeaves, NamesOnce, TagsOf
<1> QED
  BY <1>1, <1>3, <1>4, <1>5 DEF NetInv, Built, Traced

LEMMA NetAlways == Spec => [](LoadInv /\ NetInv)
<1>1. Init => LoadInv /\ NetInv
  BY Beginning, NetBegins
<1>2. LoadInv /\ NetInv /\ [Next]_vars => (LoadInv /\ NetInv)'
  BY LoadingStep, NetStep
<1> QED
  BY <1>1, <1>2, PTL DEF Spec

-----------------------------------------------------------------------------
(* A well-connected network that is built so: what the check looks for.    *)
LEMMA ConnsAre ==
  ASSUME NEW m, ModelInv(m)
  PROVE  IsFiniteSet(DOMAIN m.conns) /\ DOMAIN m.conns \subseteq Nat \ {0}
<1>1. Len(m.conns) \in Nat /\ DOMAIN m.conns = 1 .. Len(m.conns)
  BY SeqLength DEF ModelInv, ModelShape
<1>2. \A n \in Nat : IsFiniteSet(1 .. n) /\ 1 .. n \subseteq Nat \ {0}
  BY FS_Interval
<1> QED
  BY <1>1, <1>2

LEMMA OneAt ==
  ASSUME NEW m, ModelInv(m), WellConnected(m),
         NEW id \in DOMAIN m.comps, m.comps[id].kind \in WithPart, NEW slot \in SlotsOf(m, id)
  PROVE  /\ \A i, j \in At(m, id, slot) : i = j
         /\ At(m, id, slot) = {} => slot \in OptionalSlots(m.comps[id].kind)
<1> DEFINE S == At(m, id, slot)
<1>1. \/ Cardinality(S) = 1
      \/ Cardinality(S) = 0 /\ slot \in OptionalSlots(m.comps[id].kind)
  BY DEF WellConnected
<1>2. IsFiniteSet(S)
  <2>1. S \subseteq DOMAIN m.conns
    BY DEF At
  <2> HIDE DEF S
  <2> QED
    BY <2>1, ConnsAre, FS_Subset
<1> HIDE DEF S
<1>3. CASE Cardinality(S) = 1
  <2>1. PICK x : S = {x}
    BY <1>2, <1>3, FS_Singleton
  <2> QED
    BY <2>1 DEF S
<1>4. CASE Cardinality(S) = 0
  BY <1>1, <1>2, <1>4, FS_EmptySet DEF S
<1> QED
  BY <1>1, <1>3, <1>4

(* Only one connection is at an end.                                       *)
LEMMA EndsApart ==
  ASSUME NEW m, ModelInv(m), WellConnected(m), EndsHold(m), NEW side \in Sides,
         NEW i \in DOMAIN m.conns, NEW j \in DOMAIN m.conns,
         EndId(m.conns[i], side) = EndId(m.conns[j], side),
         EndPort(m.conns[i], side) = EndPort(m.conns[j], side)
  PROVE  i = j
<1> DEFINE id == EndId(m.conns[j], side)
           port == EndPort(m.conns[j], side)
<1>1. EndHolds(m, j, side)
  BY DEF EndsHold
<1>2. CASE AtPort(m, id, side, port)
  <2>1. i \in At(m, id, <<side, port>>) /\ j \in At(m, id, <<side, port>>)
    BY AtIs
  <2>2. id \in DOMAIN m.comps
    BY <1>1 DEF EndHolds
  <2> QED
    BY <1>2, <2>1, <2>2, OneAt DEF AtPort
<1>3. CASE ~ AtPort(m, id, side, port)
  BY <1>1, <1>3 DEF EndHolds
<1> QED
  BY <1>2, <1>3

OneMoverOfAKind(m) ==
  \A i, j \in DOMAIN m.comps :
    m.comps[i].kind \in Movers /\ m.comps[j].kind = m.comps[i].kind => j = i

LEMMA AllAlone ==
  ASSUME NEW m, ModelInv(m), OneMoverOfAKind(m),
         NEW id \in DOMAIN m.comps, m.comps[id].kind \in WithPart
  PROVE  Alone(m, id)
BY DEF ModelInv, Placed, OneMoverOfAKind, Alone

(* A network of which nothing is connected wrongly.                        *)
Good(m) == /\ ModelInv(m) /\ Built(m) /\ WellConnected(m)
           /\ \A id \in DOMAIN m.comps : m.comps[id].kind \in WithPart => Alone(m, id)

LEMMA SlotsFit ==
  ASSUME NEW m, Good(m), NEW id \in DOMAIN m.comps, m.comps[id].kind \in WithPart,
         NEW x \in DOMAIN PartOf(m, id).conn, PartOf(m, id).conn[x] # None
  PROVE  Fits(m, id, x, PartOf(m, id).conn[x])
<1> DEFINE k == PartOf(m, id).conn[x]
           kind == m.comps[id].kind
<1>1. ModelInv(m) /\ Traced(m) /\ WasteLeaves(m) /\ WellConnected(m) /\ Alone(m, id)
  BY DEF Good, Built
<1>2. SlotLeads(m, id, x)
  BY <1>1 DEF Traced, SlotsLead, SlotsLeadFrom
<1>3. x[1] \in Sides /\ x = <<x[1], x[2]>>
  BY <1>1, SlotIs
<1>4. x \in Slots(kind, m.comps[id].inflows, m.comps[id].outflows)
  BY <1>1 DEF ModelInv, Placed, PartOf
<1>5. CASE At(m, id, x) # {}
  <2>1. k \in At(m, id, x)
    BY <1>2, <1>5 DEF SlotLeads
  <2> HIDE DEF k
  <2>2. /\ k \in DOMAIN m.conns
        /\ EndId(m.conns[k], x[1]) = id /\ EndPort(m.conns[k], x[1]) = x[2]
    BY <1>3, <2>1, AtIs
  <2>3. EndHolds(m, k, x[1])
    BY <1>1, <1>3, <2>2 DEF Traced, EndsHold
  <2>4. EndKind(m.conns[k], x[1]) = kind /\ EndIdx(m.conns[k], x[1]) = m.comps[id].idx
    BY <2>2, <2>3 DEF EndHolds
  <2>5. Fits(m, id, x, k)
    BY <2>2, <2>4 DEF Fits, EndId, EndPort, EndKind, EndIdx
  <2> QED
    BY <2>5 DEF k
<1>6. CASE At(m, id, x) = {}
  <2>1. x \notin OptionalSlots(kind)
    BY <1>2, <1>6 DEF SlotLeads
  <2>2. x \notin SlotsOf(m, id)
    BY <1>1, <1>6, <2>1, OneAt
  <2>3. x = Out(1) /\ kind \in {"ScheduleBasedSource", "Store"}
    BY <1>4, <2>2 DEF Slots, SlotsOf
  <2>4. kind # "ScheduleBasedSource"
    BY <1>1, <1>6, <2>3 DEF WasteLeaves
  <2>5. kind = "Store"
    BY <2>3, <2>4
  <2>6. Out(1) \in OptionalSlots("Store")
    BY DEF OptionalSlots, Converters
  <2> QED
    BY <2>1, <2>3, <2>5, <2>6
<1> QED
  BY <1>5, <1>6

LEMMA NoIssuesOf ==
  ASSUME NEW m, Good(m), NEW kinds, kinds \subseteq WithPart
  PROVE  IssuesOf(m, kinds) = {}
BY SlotsFit DEF IssuesOf

(* A connection of a mux is the one its slot leads to.                     *)
LEMMA MuxLeadsBack ==
  ASSUME NEW m, Good(m), NEW side \in Sides, NEW j \in DOMAIN m.conns,
         EndKind(m.conns[j], side) = "Mux"
  PROVE  m.parts["Mux"][EndIdx(m.conns[j], side)].conn[<<side, EndPort(m.conns[j], side)>>] = j
<1> DEFINE id == EndId(m.conns[j], side)
           x == <<side, EndPort(m.conns[j], side)>>
           k == PartOf(m, id).conn[x]
<1>1. ModelInv(m) /\ Traced(m) /\ WellConnected(m)
  BY DEF Good, Built
<1>2. EndHolds(m, j, side)
  BY <1>1 DEF Traced, EndsHold
<1>3. /\ id \in DOMAIN m.comps /\ m.comps[id].kind = "Mux"
      /\ EndIdx(m.conns[j], side) = m.comps[id].idx
      /\ AtPort(m, id, side, EndPort(m.conns[j], side))
  BY <1>2 DEF EndHolds
<1>4. "Mux" \in WithPart /\ x \in SlotsOf(m, id)
  BY <1>3 DEF AtPort
<1>5. x \in DOMAIN PartOf(m, id).conn
  <2>1. x \in Slots(m.comps[id].kind, m.comps[id].inflows, m.comps[id].outflows)
    BY <1>4 DEF SlotsOf, Slots
  <2> QED
    BY <1>1, <1>3, <1>4, <2>1 DEF ModelInv, Placed, PartOf
<1>6. SlotLeads(m, id, x)
  BY <1>1, <1>3, <1>4, <1>5 DEF Good, Traced, SlotsLead, SlotsLeadFrom
<1>7. j \in At(m, id, x)
  BY AtIs
<1>8. k \in At(m, id, x)
  BY <1>6, <1>7 DEF SlotLeads
<1>9. k = j
  BY <1>1, <1>3, <1>4, <1>7, <1>8, OneAt
<1> QED
  BY <1>3, <1>9 DEF PartOf

LEMMA NoMuxBackIssues ==
  ASSUME NEW m, Good(m)
  PROVE  MuxBackIssues(m) = {}
<1>1. ASSUME NEW j \in DOMAIN m.conns, m.conns[j].fromKind = "Mux"
      PROVE  m.parts["Mux"][m.conns[j].fromIdx].conn[Out(m.conns[j].fromPort)] = j
  <2>1. EndKind(m.conns[j], "out") = "Mux" /\ "out" \in Sides
    BY <1>1 DEF EndKind, Sides
  <2>2. m.parts["Mux"][EndIdx(m.conns[j], "out")].conn[<<"out", EndPort(m.conns[j], "out")>>] = j
    BY <2>1, MuxLeadsBack
  <2> QED
    BY <2>2 DEF EndIdx, EndPort, Out
<1>2. ASSUME NEW j \in DOMAIN m.conns, m.conns[j].toKind = "Mux"
      PROVE  m.parts["Mux"][m.conns[j].toIdx].conn[In(m.conns[j].toPort)] = j
  <2>1. EndKind(m.conns[j], "in") = "Mux" /\ "in" \in Sides
    BY <1>2 DEF EndKind, Sides
  <2>2. m.parts["Mux"][EndIdx(m.conns[j], "in")].conn[<<"in", EndPort(m.conns[j], "in")>>] = j
    BY <2>1, MuxLeadsBack
  <2> QED
    BY <2>2 DEF EndIdx, EndPort, In
<1> QED
  BY <1>1, <1>2 DEF MuxBackIssues

LEMMA NoneTwice ==
  ASSUME NEW m, Good(m)
  PROVE  MultiplyConnected(m) = {}
<1>1. ModelInv(m) /\ WellConnected(m) /\ EndsHold(m)
  BY DEF Good, Built, Traced
<1> SUFFICES ASSUME NEW j \in DOMAIN m.conns, NEW i \in 1 .. j - 1,
                    \/ <<m.conns[i].from, m.conns[i].fromPort>> = <<m.conns[j].from, m.conns[j].fromPort>>
                    \/ <<m.conns[i].to, m.conns[i].toPort>> = <<m.conns[j].to, m.conns[j].toPort>>
             PROVE  FALSE
  BY DEF MultiplyConnected
<1>2. i \in DOMAIN m.conns /\ i # j
  BY <1>1, SeqLength DEF ModelInv, ModelShape
<1>3. "in" \in Sides /\ "out" \in Sides
  BY DEF Sides
<1>4. CASE <<m.conns[i].from, m.conns[i].fromPort>> = <<m.conns[j].from, m.conns[j].fromPort>>
  <2>1. /\ EndId(m.conns[i], "out") = EndId(m.conns[j], "out")
        /\ EndPort(m.conns[i], "out") = EndPort(m.conns[j], "out")
    BY <1>4 DEF EndId, EndPort
  <2> QED
    BY <1>1, <1>2, <1>3, <2>1, EndsApart
<1>5. CASE <<m.conns[i].to, m.conns[i].toPort>> = <<m.conns[j].to, m.conns[j].toPort>>
  <2>1. /\ EndId(m.conns[i], "in") = EndId(m.conns[j], "in")
        /\ EndPort(m.conns[i], "in") = EndPort(m.conns[j], "in")
    BY <1>5 DEF EndId, EndPort
  <2> QED
    BY <1>1, <1>2, <1>3, <2>1, EndsApart
<1> QED
  BY <1>4, <1>5

LEMMA NoNameIssues ==
  ASSUME NEW m, Good(m)
  PROVE  NameIssues(m) = {}
<1>1. IsSeq(m.comps) /\ NamesOnce(m)
  BY DEF Good, Built, ModelInv, ModelShape
<1>2. \A i \in DOMAIN m.comps : \A j \in 1 .. i - 1 : j \in DOMAIN m.comps /\ j # i
  BY <1>1, SeqLength
<1> QED
  BY <1>1, <1>2 DEF NameIssues, NamesOnce

(* As many connections end at a mux as it has ports on that side.          *)
PortsOn(m, id, side) == IF side = "in" THEN m.comps[id].inflows ELSE m.comps[id].outflows

LEMMA MuxCounts ==
  ASSUME NEW m, Good(m), NEW side \in Sides, NEW id \in DOMAIN m.comps, m.comps[id].kind = "Mux"
  PROVE  Cardinality({k \in DOMAIN m.conns : EndId(m.conns[k], side) = id})
           = Len(PortsOn(m, id, side))
<1> DEFINE S == {k \in DOMAIN m.conns : EndId(m.conns[k], side) = id}
           n == Len(PortsOn(m, id, side))
           f == [k \in S |-> EndPort(m.conns[k], side) + 1]
<1>1. ModelInv(m) /\ Traced(m) /\ WellConnected(m) /\ "Mux" \in WithPart
  BY DEF Good, Built, WithPart
<1>2. n \in Nat /\ DOMAIN PortsOn(m, id, side) = 1 .. n
  <2>1. IsSeq(PortsOn(m, id, side))
    BY <1>1 DEF ModelInv, ModelShape, CompShape, PortsOn
  <2> QED
    BY <2>1, SeqLength
<1>3. \A port : <<side, port>> \in SlotsOf(m, id) <=> \E i \in 1 .. n : port = i - 1
  <2> HIDE DEF n
  <2>1. CASE side = "in"
    BY <1>2, <2>1 DEF SlotsOf, PortsOn, In, Out
  <2>2. CASE side = "out"
    BY <1>2, <2>2 DEF SlotsOf, PortsOn, In, Out
  <2> QED
    BY <2>1, <2>2 DEF Sides
<1> HIDE DEF n
<1>4. ASSUME NEW k \in S
      PROVE  <<side, EndPort(m.conns[k], side)>> \in SlotsOf(m, id)
  <2>1. EndHolds(m, k, side)
    BY <1>1 DEF Traced, EndsHold
  <2> QED
    BY <2>1 DEF EndHolds, AtPort
<1>5. \A k \in S : f[k] \in 1 .. n /\ EndPort(m.conns[k], side) = f[k] - 1
  <2> SUFFICES ASSUME NEW k \in S
               PROVE  f[k] \in 1 .. n /\ EndPort(m.conns[k], side) = f[k] - 1
    OBVIOUS
  <2>1. PICK i \in 1 .. n : EndPort(m.conns[k], side) = i - 1
    BY <1>3, <1>4
  <2>2. f[k] = (i - 1) + 1
    BY <2>1
  <2> HIDE DEF f, S
  <2> QED
    BY <1>2, <2>1, <2>2
<1>6. f \in [S -> 1 .. n]
  BY <1>5
<1>7. \A i, j \in S : f[i] = f[j] => i = j
  <2> SUFFICES ASSUME NEW i \in S, NEW j \in S, f[i] = f[j]
               PROVE  i = j
    OBVIOUS
  <2>1. EndPort(m.conns[i], side) = EndPort(m.conns[j], side)
    BY <1>5
  <2> QED
    BY <1>1, <2>1, EndsApart DEF Traced
<1>8. \A i \in 1 .. n : \E k \in S : f[k] = i
  <2> SUFFICES ASSUME NEW i \in 1 .. n
               PROVE  \E k \in S : f[k] = i
    OBVIOUS
  <2> DEFINE x == <<side, i - 1>>
  <2>1. x \in SlotsOf(m, id)
    BY <1>3
  <2>2. OptionalSlots("Mux") = {}
    BY DEF OptionalSlots, Converters
  <2>3. PICK k : k \in At(m, id, x)
    BY <1>1, <2>1, <2>2, OneAt
  <2>4. k \in S /\ EndPort(m.conns[k], side) = i - 1
    BY <2>3, AtIs
  <2>5. f[k] = (i - 1) + 1
    BY <2>4
  <2> HIDE DEF f, S
  <2>6. f[k] = i
    BY <1>2, <2>5
  <2> QED
    BY <2>4, <2>6
<1>9. IsFiniteSet(S)
  <2>1. S \subseteq DOMAIN m.conns
    OBVIOUS
  <2> HIDE DEF S
  <2> QED
    BY <1>1, <2>1, ConnsAre, FS_Subset
<1> HIDE DEF f, S
<1>10. ExistsBijection(S, 1 .. n)
  BY <1>6, <1>7, <1>8 DEF ExistsBijection, Bijection, Injection, IsInjective, Surjection
<1>11. Cardinality(1 .. n) = Cardinality(S)
  BY <1>9, <1>10, FS_Bijection
<1>12. Cardinality(1 .. n) = n
  BY <1>2, FS_Interval
<1> QED
  BY <1>11, <1>12 DEF S, n

LEMMA NoMuxCountIssues ==
  ASSUME NEW m, Good(m)
  PROVE  MuxCountIssues(m) = {}
<1> SUFFICES ASSUME NEW id \in DOMAIN m.comps, m.comps[id].kind = "Mux"
             PROVE  /\ Cardinality(Into(m, id)) = Len(m.comps[id].inflows)
                    /\ Cardinality(OutOf(m, id)) = Len(m.comps[id].outflows)
  BY DEF MuxCountIssues
<1>1. "in" \in Sides /\ "out" \in Sides
  BY DEF Sides
<1>2. /\ Into(m, id) = {k \in DOMAIN m.conns : EndId(m.conns[k], "in") = id}
      /\ OutOf(m, id) = {k \in DOMAIN m.conns : EndId(m.conns[k], "out") = id}
  BY DEF Into, OutOf, EndId
<1>3. PortsOn(m, id, "in") = m.comps[id].inflows /\ PortsOn(m, id, "out") = m.comps[id].outflows
  BY DEF PortsOn
<1> QED
  BY <1>1, <1>2, <1>3, MuxCounts

LEMMA NothingIsFound ==
  ASSUME NEW m, Good(m)
  PROVE  CheckNetwork(m) = {}
<1>1. /\ IssuesOf(m, Converters) = {} /\ IssuesOf(m, {"ConstantLoad", "ConstantSource"}) = {}
      /\ IssuesOf(m, Movers) = {} /\ IssuesOf(m, {"Mux"}) = {}
      /\ IssuesOf(m, {"PassThrough", "Switch"}) = {}
      /\ IssuesOf(m, {"ScheduleBasedLoad", "ScheduleBasedSource"}) = {}
      /\ IssuesOf(m, {"Store"}) = {}
  BY NoIssuesOf DEF WithPart
<1>2. /\ NameIssues(m) = {} /\ MuxBackIssues(m) = {} /\ MultiplyConnected(m) = {}
      /\ MuxCountIssues(m) = {}
  BY NoNameIssues, NoMuxBackIssues, NoneTwice, NoMuxCountIssues
<1> QED
  BY <1>1, <1>2 DEF CheckNetwork, ConverterIssues, LoadAndSourceIssues, MoverIssues, MuxPortIssues,
     PassingIssues, ScheduleBasedIssues, StoreIssues

(* Of every input whose connections name their components, and every order *)
(* of its tables: a network that is well connected passes the check, unless*)
(* it has two movers of a kind.  A connection with an empty name would lead*)
(* to a boundary, and movers of a kind have one part among them            *)
(* (Model_AddMover, Model_AddVariableEfficiencyMover).                     *)
THEOREM GoodNetworksPass ==
  Spec => []("" \notin TagsInUse /\ OneMoverOfAKind(s.model) => CheckPassesGoodNetworks)
<1>1. ASSUME LoadInv, ConnsInv, NetInv, "" \notin TagsInUse, OneMoverOfAKind(s.model),
             phase = "checked", WellConnected(s.model)
      PROVE  issues = {}
  <2>1. ModelInv(s.model) /\ Built(s.model)
    BY <1>1 DEF LoadInv, SimInv, NetInv
  <2>2. Good(s.model)
    BY <1>1, <2>1, AllAlone DEF Good
  <2>3. issues = CheckNetwork(s.model)
    BY <1>1 DEF ConnsInv
  <2> QED
    BY <2>2, <2>3, NothingIsFound
<1>2. LoadInv /\ ConnsInv /\ NetInv =>
        ("" \notin TagsInUse /\ OneMoverOfAKind(s.model) => CheckPassesGoodNetworks)
  BY <1>1 DEF CheckPassesGoodNetworks
<1> QED
  BY <1>2, ConnsAlways, NetAlways, PTL

-----------------------------------------------------------------------------
(* The members of a set of numbers, counted: as many as it has come before *)
(* each, from none upwards.                                                *)
Below(S, k) == {j \in S : j < k}

LEMMA Transitive ==
  ASSUME NEW a \in Nat, NEW b \in Nat, NEW c \in Nat
  PROVE  /\ ~ (a < a)
         /\ a < b /\ b < c => a < c
         /\ a < b \/ b < a \/ a = b
OBVIOUS

LEMMA BelowGrows ==
  ASSUME NEW S, IsFiniteSet(S), S \subseteq Nat, NEW i \in S, NEW k, k \in Nat, i < k
  PROVE  /\ Cardinality(Below(S, i)) \in Nat /\ Cardinality(Below(S, k)) \in Nat
         /\ Cardinality(Below(S, i)) < Cardinality(Below(S, k))
<1>1. /\ Below(S, i) \subseteq Below(S, k) /\ Below(S, k) \subseteq S
      /\ i \in Below(S, k) /\ i \notin Below(S, i)
  <2>1. i \in Nat /\ ~ (i < i) /\ \A j \in S : j < i => j < k
    BY Transitive
  <2> QED
    BY <2>1 DEF Below
<1>2. IsFiniteSet(Below(S, k))
  BY <1>1, FS_Subset
<1>3. /\ IsFiniteSet(Below(S, i))
      /\ Cardinality(Below(S, i)) <= Cardinality(Below(S, k))
      /\ Cardinality(Below(S, k)) # Cardinality(Below(S, i))
  BY <1>1, <1>2, FS_Subset
<1> QED
  BY <1>2, <1>3, FS_CardinalityType

LEMMA BelowTells ==
  ASSUME NEW S, IsFiniteSet(S), S \subseteq Nat, NEW i \in S, NEW k \in S,
         Cardinality(Below(S, i)) = Cardinality(Below(S, k))
  PROVE  i = k
<1>1. i \in Nat /\ k \in Nat
  OBVIOUS
<1>2. i < k \/ k < i \/ i = k
  BY <1>1, Transitive
<1>3. ASSUME NEW a \in S, NEW b \in S, Cardinality(Below(S, a)) = Cardinality(Below(S, b))
      PROVE  ~ (a < b)
  <2>1. a \in Nat /\ b \in Nat
    OBVIOUS
  <2> DEFINE x == Cardinality(Below(S, a))
             y == Cardinality(Below(S, b))
  <2>2. a < b => x \in Nat /\ y \in Nat /\ x < y
    BY <2>1, BelowGrows
  <2>3. x = y
    BY <1>3
  <2> HIDE DEF x, y
  <2> QED
    BY <2>2, <2>3
<1> QED
  BY <1>2, <1>3

LEMMA Counting ==
  ASSUME NEW S, IsFiniteSet(S), S \subseteq Nat
  PROVE  {Cardinality(Below(S, k)) : k \in S} = 0 .. Cardinality(S) - 1
<1> DEFINE n == Cardinality(S)
           T == 0 .. n - 1
           f == [k \in S |-> Cardinality(Below(S, k))]
<1>1. n \in Nat
  BY FS_CardinalityType
<1> HIDE DEF n
<1>2. ASSUME NEW k \in S
      PROVE  Cardinality(Below(S, k)) \in T
  <2>1. Below(S, k) \subseteq S /\ k \notin Below(S, k)
    BY DEF Below
  <2>2. /\ IsFiniteSet(Below(S, k)) /\ Cardinality(Below(S, k)) <= n
        /\ n # Cardinality(Below(S, k))
    BY <2>1, FS_Subset DEF n
  <2>3. Cardinality(Below(S, k)) \in Nat
    BY <2>2, FS_CardinalityType
  <2> QED
    BY <1>1, <2>2, <2>3
<1>3. f \in [S -> T]
  BY <1>2
<1>4. \A i, k \in S : f[i] = f[k] => i = k
  BY BelowTells
<1>5. IsFiniteSet(T) /\ Cardinality(T) = n
  <2>1. n - 1 \in Int /\ 0 \in Int
    BY <1>1
  <2>2. IsFiniteSet(T) /\ Cardinality(T) = IF 0 > n - 1 THEN 0 ELSE (n - 1) - 0 + 1
    BY <2>1, FS_Interval
  <2> HIDE DEF T
  <2> QED
    BY <1>1, <2>2
<1> HIDE DEF f, T
<1>6. f \in Injection(S, T)
  BY <1>3, <1>4 DEF Injection, IsInjective
<1>7. f \in Surjection(S, T)
  BY <1>5, <1>6, FS_Injection DEF n
<1>8. {f[k] : k \in S} = T
  BY <1>3, <1>7 DEF Surjection
<1> QED
  BY <1>8 DEF f, T, n

(* The connections that are reported at a node, and the number that one of *)
(* a group is given there.                                                 *)
LEMMA ExternalAre ==
  ASSUME NEW m, ModelInv(m), NEW S, S \subseteq External(m)
  PROVE  IsFiniteSet(S) /\ S \subseteq Nat
<1>1. External(m) \subseteq DOMAIN m.conns
  BY DEF External
<1> QED
  BY <1>1, ConnsAre, FS_Subset

LEMMA NodeIs ==
  ASSUME NEW m, NEW id
  PROVE  /\ NodeOf(m, id)[1] = "component" => NodeOf(m, id) = <<"component", id>>
         /\ NodeOf(m, id)[1] = "component" \/ NodeOf(m, id)[1] = "group"
BY DEF NodeOf

LEMMA PortsCounted ==
  ASSUME NEW m, ModelInv(m), NEW node, node[1] = "group"
  PROVE  /\ \A k \in ConnectionsAt(m, "from", node) :
              NodeFromPort(m, k) = Cardinality(Below(ConnectionsAt(m, "from", node), k))
         /\ \A k \in ConnectionsAt(m, "to", node) :
              NodeToPort(m, k) = Cardinality(Below(ConnectionsAt(m, "to", node), k))
<1>1. ASSUME NEW k \in ConnectionsAt(m, "from", node)
      PROVE  NodeFromPort(m, k) = Cardinality(Below(ConnectionsAt(m, "from", node), k))
  <2>1. {j \in External(m) : j < k /\ NodeOf(m, m.conns[j].from) = node}
          = Below(ConnectionsAt(m, "from", node), k)
    BY DEF Below, ConnectionsAt
  <2>2. NodeOf(m, m.conns[k].from) = node
    BY DEF ConnectionsAt
  <2> QED
    BY <2>1, <2>2 DEF NodeFromPort
<1>2. ASSUME NEW k \in ConnectionsAt(m, "to", node)
      PROVE  NodeToPort(m, k) = Cardinality(Below(ConnectionsAt(m, "to", node), k))
  <2>1. {j \in External(m) : j < k /\ NodeOf(m, m.conns[j].to) = node}
          = Below(ConnectionsAt(m, "to", node), k)
    BY DEF Below, ConnectionsAt
  <2>2. NodeOf(m, m.conns[k].to) = node
    BY DEF ConnectionsAt
  <2> QED
    BY <2>1, <2>2 DEF NodeToPort
<1> QED
  BY <1>1, <1>2

LEMMA NodesTell ==
  ASSUME NEW m, ModelInv(m), WellConnected(m), EndsHold(m),
         NEW i \in External(m), NEW k \in External(m),
         NodeConnection(m, i) = NodeConnection(m, k)
  PROVE  i = k
<1> DEFINE node == NodeOf(m, m.conns[k].from)
           S == ConnectionsAt(m, "from", node)
<1>1. NodeOf(m, m.conns[i].from) = node /\ NodeFromPort(m, i) = NodeFromPort(m, k)
  BY DEF NodeConnection
<1>2. i \in DOMAIN m.conns /\ k \in DOMAIN m.conns
  BY DEF External
<1>3. CASE node[1] = "component"
  <2>1. m.conns[i].from = m.conns[k].from
    <3>1. /\ node = <<"component", m.conns[k].from>>
          /\ node = <<"component", m.conns[i].from>>
      BY <1>1, <1>3, NodeIs
    <3> QED
      BY <3>1
  <2>2. m.conns[i].fromPort = m.conns[k].fromPort
    BY <1>1, <1>3 DEF NodeFromPort
  <2>3. "out" \in Sides
    BY DEF Sides
  <2> QED
    BY <1>2, <2>1, <2>2, <2>3, EndsApart DEF EndId, EndPort
<1>4. CASE node[1] = "group"
  <2>1. i \in S /\ k \in S
    BY <1>1 DEF ConnectionsAt
  <2>2. Cardinality(Below(S, i)) = Cardinality(Below(S, k))
    BY <1>1, <1>4, <2>1, PortsCounted
  <2>3. IsFiniteSet(S) /\ S \subseteq Nat
    BY ExternalAre DEF ConnectionsAt
  <2> HIDE DEF S
  <2> QED
    BY <2>1, <2>2, <2>3, BelowTells
<1> QED
  BY <1>3, <1>4, NodeIs

LEMMA NodesReport ==
  ASSUME NEW m, ModelInv(m), WellConnected(m), EndsHold(m)
  PROVE  LET nodes == NodeConnections(m)
         IN  /\ \A nc \in DOMAIN nodes : Cardinality(nodes[nc]) = 1
             /\ {ReportedBy(m, nc) : nc \in DOMAIN nodes} = External(m)
             /\ \A name \in Range(m.group) : \A end \in {<<"from", "fromPort">>, <<"to", "toPort">>} :
                  LET at == ConnectionsAt(m, end[1], <<"group", name>>)
                  IN  {NodeConnection(m, k)[end[2]] : k \in at} = 0 .. Cardinality(at) - 1
<1> DEFINE nodes == NodeConnections(m)
<1>1. DOMAIN nodes = {NodeConnection(m, k) : k \in External(m)}
  BY DEF NodeConnections
<1>2. ASSUME NEW k \in External(m)
      PROVE  nodes[NodeConnection(m, k)] = {k}
  <2>1. nodes[NodeConnection(m, k)] = {j \in External(m) : NodeConnection(m, j) = NodeConnection(m, k)}
    BY DEF NodeConnections
  <2>2. \A j \in External(m) : NodeConnection(m, j) = NodeConnection(m, k) => j = k
    BY NodesTell
  <2> QED
    BY <2>1, <2>2
<1>3. \A nc \in DOMAIN nodes : Cardinality(nodes[nc]) = 1
  BY <1>1, <1>2, FS_Singleton
<1>4. ASSUME NEW k \in External(m)
      PROVE  ReportedBy(m, NodeConnection(m, k)) = k
  <2>1. External(m) \subseteq Nat
    BY ExternalAre
  <2>2. Min({k}) = k
    BY <2>1, MinIs
  <2> QED
    BY <1>2, <2>2 DEF ReportedBy
<1>5. {ReportedBy(m, nc) : nc \in DOMAIN nodes} = External(m)
  BY <1>1, <1>4
<1>6. ASSUME NEW name
      PROVE  LET at == ConnectionsAt(m, "from", <<"group", name>>)
             IN  {NodeConnection(m, k)["fromPort"] : k \in at} = 0 .. Cardinality(at) - 1
  <2> DEFINE at == ConnectionsAt(m, "from", <<"group", name>>)
  <2>1. \A k \in at : NodeConnection(m, k)["fromPort"] = Cardinality(Below(at, k))
    BY PortsCounted DEF NodeConnection
  <2>2. IsFiniteSet(at) /\ at \subseteq Nat
    BY ExternalAre DEF ConnectionsAt
  <2> HIDE DEF at
  <2>3. {Cardinality(Below(at, k)) : k \in at} = 0 .. Cardinality(at) - 1
    BY <2>2, Counting
  <2>4. {NodeConnection(m, k)["fromPort"] : k \in at} = {Cardinality(Below(at, k)) : k \in at}
    BY <2>1
  <2> QED
    BY <2>3, <2>4 DEF at
<1>7. ASSUME NEW name
      PROVE  LET at == ConnectionsAt(m, "to", <<"group", name>>)
             IN  {NodeConnection(m, k)["toPort"] : k \in at} = 0 .. Cardinality(at) - 1
  <2> DEFINE at == ConnectionsAt(m, "to", <<"group", name>>)
  <2>1. \A k \in at : NodeConnection(m, k)["toPort"] = Cardinality(Below(at, k))
    BY PortsCounted DEF NodeConnection
  <2>2. IsFiniteSet(at) /\ at \subseteq Nat
    BY ExternalAre DEF ConnectionsAt
  <2> HIDE DEF at
  <2>3. {Cardinality(Below(at, k)) : k \in at} = 0 .. Cardinality(at) - 1
    BY <2>2, Counting
  <2>4. {NodeConnection(m, k)["toPort"] : k \in at} = {Cardinality(Below(at, k)) : k \in at}
    BY <2>1
  <2> QED
    BY <2>3, <2>4 DEF at
<1>8. ASSUME NEW name, NEW end \in {<<"from", "fromPort">>, <<"to", "toPort">>}
      PROVE  LET at == ConnectionsAt(m, end[1], <<"group", name>>)
             IN  {NodeConnection(m, k)[end[2]] : k \in at} = 0 .. Cardinality(at) - 1
  <2>1. CASE end = <<"from", "fromPort">>
    <3>1. end[1] = "from" /\ end[2] = "fromPort"
      BY <2>1
    <3> QED
      BY <3>1, <1>6
  <2>2. CASE end = <<"to", "toPort">>
    <3>1. end[1] = "to" /\ end[2] = "toPort"
      BY <2>2
    <3> QED
      BY <3>1, <1>7
  <2> QED
    BY <2>1, <2>2
<1> QED
  BY <1>3, <1>5, <1>8

(* Of every input whose connections name their components, and every order *)
(* of its tables: with groups, a well-connected network loses no flow in   *)
(* the results, and the ports of a group are numbered without gaps.        *)
(* AggregateGroups takes one flow of a node connection only; every         *)
(* connection between two nodes is the only one of its own.                *)
THEOREM NodesReportAll == Spec => []("" \notin TagsInUse => NodesReportEveryConnection)
<1>1. ASSUME LoadInv, NetInv, "" \notin TagsInUse, Loaded, WellConnected(s.model)
      PROVE  LET m     == s.model
                 nodes == NodeConnections(m)
             IN  /\ \A nc \in DOMAIN nodes : Cardinality(nodes[nc]) = 1
                 /\ {ReportedBy(m, nc) : nc \in DOMAIN nodes} = External(m)
                 /\ \A name \in Range(m.group) : \A end \in {<<"from", "fromPort">>, <<"to", "toPort">>} :
                      LET at == ConnectionsAt(m, end[1], <<"group", name>>)
                      IN  {NodeConnection(m, k)[end[2]] : k \in at} = 0 .. Cardinality(at) - 1
  <2>1. ModelInv(s.model) /\ EndsHold(s.model)
    BY <1>1 DEF LoadInv, SimInv, NetInv, Built, Traced
  <2> QED
    BY <1>1, <2>1, NodesReport
<1>2. LoadInv /\ NetInv => ("" \notin TagsInUse => NodesReportEveryConnection)
  BY <1>1 DEF NodesReportEveryConnection
<1> QED
  BY <1>2, NetAlways, PTL

=============================================================================
