---------------------- MODULE FeatureProjectionProofs ----------------------
(***************************************************************************)
(* Theorems about FeatureProjection, for any models, feature types and     *)
(* property names.                                                         *)
(*                                                                         *)
(* The inductive invariant is Shape.  It says which elements the roots,    *)
(* the keys and the children of a projection hold, as sets of elements,    *)
(* from what was asked for (Chosen, IsParent), what add_field() added      *)
(* (IsExtra) and what remove_fields() took away (Shown).  That needs to    *)
(* know what the operators on sequences hold (Flattening, OnlyThose,       *)
(* EachOnce), and that what leads to an element is complex                 *)
(* (ParentsAreComplex, ResolvableParts).                                   *)
(*                                                                         *)
(* The second half is about what the query loads.  Answering follows an    *)
(* answerable request to its end; Reading says that whatever rendering     *)
(* follows was loaded, relation by relation (IsReached).                   *)
(***************************************************************************)
EXTENDS FeatureProjection, SequenceTheorems, FunctionTheorems, FiniteSetTheorems,
        WellFoundedInduction, TLAPS

(***************************************************************************)
(* Induction over the natural numbers, for a set instead of a predicate.   *)
(***************************************************************************)
IsBelow == {p \in Nat \X Nat : p[1] < p[2]}

(* There is no infinite descent in the natural numbers.                    *)
LEMMA BelowIsWellFounded == IsWellFoundedOn(IsBelow, Nat)
BY NatLessThanWellFounded, Zenon DEF OpToRel, IsBelow

(* A set that holds 0 and with each number the next one holds all.         *)
LEMMA Induction ==
    ASSUME NEW S, 0 \in S, \A n \in Nat : n \in S => n + 1 \in S
    PROVE  Nat \subseteq S
<1> DEFINE T == Nat \ S
<1> SUFFICES ASSUME T # {} PROVE FALSE
  OBVIOUS
<1>1. T \subseteq Nat
  OBVIOUS
<1>2. PICK x \in T : \A y \in T : <<y, x>> \notin IsBelow
  <2> HIDE DEF T
  <2> QED BY <1>1, BelowIsWellFounded, WFMin
<1>3. x \in Nat /\ x # 0
  BY <1>2
<1>4. x - 1 \in Nat /\ <<x - 1, x>> \in IsBelow
  BY <1>3 DEF IsBelow
<1>5. x - 1 \in S
  BY <1>2, <1>4
<1>6. (x - 1) + 1 \in S
  BY <1>4, <1>5
<1> QED
  BY <1>2, <1>3, <1>6

(***************************************************************************)
(* Sequences: what FlattenSeq, Only and WithoutRepeats hold.               *)
(***************************************************************************)

(* A concatenation holds what its two parts hold.                          *)
LEMMA ElementsOfConcat ==
    ASSUME NEW T, NEW s \in Seq(T), NEW t \in Seq(T)
    PROVE  /\ s \o t \in Seq(T)
           /\ \A x : x \in ToSet(s \o t) <=> x \in ToSet(s) \/ x \in ToSet(t)
<1>1. /\ s \o t \in Seq(T) /\ Len(s \o t) = Len(s) + Len(t)
      /\ \A i \in 1..Len(s) : (s \o t)[i] = s[i]
      /\ \A i \in 1..Len(t) : (s \o t)[Len(s) + i] = t[i]
  OBVIOUS
<1>2. /\ DOMAIN (s \o t) = 1..Len(s) + Len(t) /\ DOMAIN s = 1..Len(s) /\ DOMAIN t = 1..Len(t)
      /\ Len(s) \in Nat /\ Len(t) \in Nat
  BY <1>1
<1>3. ASSUME NEW x, x \in ToSet(s \o t) PROVE x \in ToSet(s) \/ x \in ToSet(t)
  <2>1. PICK i \in DOMAIN (s \o t) : x = (s \o t)[i]
    BY <1>3 DEF ToSet
  <2>2. CASE i <= Len(s)
    BY <1>1, <1>2, <2>1, <2>2 DEF ToSet
  <2>3. CASE ~(i <= Len(s))
    <3>1. i - Len(s) \in 1..Len(t) /\ i = Len(s) + (i - Len(s))
      BY <1>2, <2>1, <2>3
    <3>2. x = t[i - Len(s)]
      BY <1>1, <2>1, <3>1
    <3> QED BY <1>2, <3>1, <3>2 DEF ToSet
  <2> QED BY <2>2, <2>3
<1>4. ASSUME NEW x, x \in ToSet(s) PROVE x \in ToSet(s \o t)
  <2>1. PICK i \in 1..Len(s) : x = s[i]
    BY <1>2, <1>4 DEF ToSet
  <2>2. i \in DOMAIN (s \o t) /\ x = (s \o t)[i]
    BY <1>1, <1>2, <2>1
  <2> QED BY <2>2 DEF ToSet
<1>5. ASSUME NEW x, x \in ToSet(t) PROVE x \in ToSet(s \o t)
  <2>1. PICK i \in 1..Len(t) : x = t[i]
    BY <1>2, <1>5 DEF ToSet
  <2>2. Len(s) + i \in DOMAIN (s \o t) /\ x = (s \o t)[Len(s) + i]
    BY <1>1, <1>2, <2>1
  <2> QED BY <2>2 DEF ToSet
<1> QED
  BY <1>1, <1>3, <1>4, <1>5

(* The sequences that FlattenSeq goes through.                             *)
IsRun(f, ss, m) == f = [i \in 1..m |-> IF i = 1 THEN ss[i] ELSE f[i - 1] \o ss[i]]

(* The function that FlattenSeq chooses exists.                            *)
LEMMA RunExists == ASSUME NEW ss, NEW m \in Nat PROVE \E f : IsRun(f, ss, m)
<1> DEFINE S == {k \in Nat : \E f : IsRun(f, ss, k)}
<1>1. 0 \in S
  <2> DEFINE f == [i \in 1..0 |-> {}]
  <2>1. f = [i \in 1..0 |-> IF i = 1 THEN ss[i] ELSE f[i - 1] \o ss[i]]
    OBVIOUS
  <2>2. IsRun(f, ss, 0)
    BY <2>1 DEF IsRun
  <2> QED BY <2>2
<1>2. ASSUME NEW k \in Nat, k \in S PROVE k + 1 \in S
  <2>1. PICK f : IsRun(f, ss, k)
    BY <1>2
  <2> DEFINE g == [i \in 1..(k + 1) |->
                     IF i = k + 1 THEN IF i = 1 THEN ss[i] ELSE f[k] \o ss[i] ELSE f[i]]
  <2>2. \A i \in 1..k : f[i] = IF i = 1 THEN ss[i] ELSE f[i - 1] \o ss[i]
    BY <2>1 DEF IsRun
  <2>3. ASSUME NEW i \in 1..(k + 1) PROVE g[i] = IF i = 1 THEN ss[i] ELSE g[i - 1] \o ss[i]
    <3>1. CASE i = k + 1
      <4>1. CASE i = 1
        BY <3>1, <4>1
      <4>2. CASE i # 1
        <5>1. i - 1 = k /\ k \in 1..(k + 1) /\ k # k + 1
          BY <3>1, <4>2
        <5> QED BY <3>1, <4>2, <5>1
      <4> QED BY <4>1, <4>2
    <3>2. CASE i # k + 1
      <4>1. i \in 1..k /\ g[i] = f[i]
        BY <3>2
      <4>2. CASE i # 1
        <5>1. i - 1 \in 1..(k + 1) /\ i - 1 # k + 1
          BY <3>2, <4>2
        <5>2. g[i - 1] = f[i - 1]
          BY <5>1
        <5> QED BY <2>2, <4>1, <4>2, <5>2
      <4> QED BY <2>2, <4>1, <4>2
    <3> QED BY <3>1, <3>2
  <2>4. g = [i \in 1..(k + 1) |-> g[i]]
    OBVIOUS
  <2> HIDE DEF g
  <2>5. g = [i \in 1..(k + 1) |-> IF i = 1 THEN ss[i] ELSE g[i - 1] \o ss[i]]
    BY <2>3, <2>4
  <2>6. IsRun(g, ss, k + 1)
    BY <2>5 DEF IsRun
  <2> QED BY <2>6
<1>3. Nat \subseteq S
  <2> HIDE DEF S
  <2> QED BY <1>1, <1>2, Induction
<1> QED
  BY <1>3

IsInOne(x, ss, n) == \E k \in 1..n : x \in ToSet(ss[k])

(* It ends in a sequence that holds what any of the sequences holds.       *)
LEMMA FlatteningARun ==
    ASSUME NEW T, NEW n \in Nat, n # 0, NEW ss, \A k \in 1..n : ss[k] \in Seq(T),
           NEW f, IsRun(f, ss, n)
    PROVE  /\ f[n] \in Seq(T)
           /\ \A x : x \in ToSet(f[n]) <=> IsInOne(x, ss, n)
<1> DEFINE Holds(m) == /\ f[m] \in Seq(T)
                       /\ \A x : x \in ToSet(f[m]) <=> \E k \in 1..m : x \in ToSet(ss[k])
           S == {m \in Nat : m \in 1..n => Holds(m)}
<1>1. \A i \in 1..n : f[i] = IF i = 1 THEN ss[i] ELSE f[i - 1] \o ss[i]
  BY DEF IsRun
<1>2. 0 \in S
  <2> HIDE DEF Holds
  <2> QED OBVIOUS
<1>3. ASSUME NEW m \in Nat, m \in S PROVE m + 1 \in S
  <2> SUFFICES ASSUME m + 1 \in 1..n PROVE Holds(m + 1)
    <3> HIDE DEF Holds
    <3> QED OBVIOUS
  <2>1. CASE m = 0
    <3>1. f[m + 1] = ss[1] /\ m + 1 = 1
      BY <1>1, <2>1
    <3>2. ss[1] \in Seq(T)
      BY <2>1
    <3>3. \A k \in 1..1 : k = 1
      OBVIOUS
    <3> QED BY <3>1, <3>2, <3>3
  <2>2. CASE m # 0
    <3>1. m \in 1..n /\ (m + 1) - 1 = m /\ m + 1 # 1
      BY <2>2
    <3>2. f[m + 1] = f[m] \o ss[m + 1]
      <4>1. f[m + 1] = f[(m + 1) - 1] \o ss[m + 1]
        BY <1>1, <3>1
      <4> QED BY <4>1, <3>1
    <3>3. Holds(m)
      <4> HIDE DEF Holds
      <4> QED BY <1>3, <3>1
    <3>4. ss[m + 1] \in Seq(T)
      OBVIOUS
    <3>5. /\ f[m + 1] \in Seq(T)
          /\ \A x : x \in ToSet(f[m + 1]) <=> x \in ToSet(f[m]) \/ x \in ToSet(ss[m + 1])
      BY <3>2, <3>3, <3>4, ElementsOfConcat
    <3>6. /\ \A k \in 1..(m + 1) : k \in 1..m \/ k = m + 1
          /\ m + 1 \in 1..(m + 1) /\ \A k \in 1..m : k \in 1..(m + 1)
      OBVIOUS
    <3>7. ASSUME NEW x
          PROVE  x \in ToSet(f[m + 1]) <=> \E k \in 1..(m + 1) : x \in ToSet(ss[k])
      <4>1. x \in ToSet(f[m]) <=> \E k \in 1..m : x \in ToSet(ss[k])
        BY <3>3
      <4>2. x \in ToSet(f[m + 1]) <=> x \in ToSet(f[m]) \/ x \in ToSet(ss[m + 1])
        BY <3>5
      <4> QED BY <3>6, <4>1, <4>2
    <3> QED BY <3>5, <3>7
  <2> QED BY <2>1, <2>2
<1>4. Nat \subseteq S
  <2> HIDE DEF S
  <2> QED BY <1>2, <1>3, Induction
<1>5. \A m \in 1..n : m \in Nat /\ m \in S
  <2> HIDE DEF S
  <2> QED BY <1>4
<1>6. Holds(n)
  <2> HIDE DEF Holds
  <2> QED BY <1>5
<1> QED
  BY <1>6 DEF IsInOne

(* FlattenSeq gives a sequence that holds what any of the sequences holds. *)
LEMMA Flattening ==
    ASSUME NEW T, NEW n \in Nat, NEW ss \in [1..n -> Seq(T)]
    PROVE  /\ FlattenSeq(ss) \in Seq(T)
           /\ \A x : x \in ToSet(FlattenSeq(ss)) <=> IsInOne(x, ss, n)
<1>1. ss \in Seq(Seq(T)) /\ Len(ss) = n
  OBVIOUS
<1>2. CASE n = 0
  <2>1. FlattenSeq(ss) = ss /\ ss = <<>>
    BY <1>1, <1>2 DEF FlattenSeq
  <2>2. DOMAIN ss = {} /\ 1..n = {}
    BY <1>2
  <2> QED BY <2>1, <2>2 DEF ToSet, IsInOne
<1>3. CASE n # 0
  <2>1. PICK f : IsRun(f, ss, n) /\ FlattenSeq(ss) = f[n]
    <3> DEFINE run == CHOOSE f : IsRun(f, ss, n)
    <3>1. IsRun(run, ss, n)
      BY RunExists
    <3>2. FlattenSeq(ss) = run[n]
      BY <1>1, <1>3 DEF FlattenSeq, IsRun
    <3> HIDE DEF run
    <3> QED BY <3>1, <3>2
  <2>2. \A k \in 1..n : ss[k] \in Seq(T)
    OBVIOUS
  <2>3. /\ f[n] \in Seq(T)
        /\ \A x : x \in ToSet(f[n]) <=> IsInOne(x, ss, n)
    BY <1>3, <2>1, <2>2, FlatteningARun
  <2> QED BY <2>1, <2>3
<1> QED
  BY <1>2, <1>3

(* Only keeps the elements that are in the set, and no others.             *)
LEMMA OnlyThose ==
    ASSUME NEW T, NEW s \in Seq(T), NEW S
    PROVE  /\ Only(s, S) \in Seq(T)
           /\ \A x : x \in ToSet(Only(s, S)) <=> x \in ToSet(s) /\ x \in S
<1> DEFINE ss == [k \in DOMAIN s |-> IF s[k] \in S THEN <<s[k]>> ELSE <<>>]
<1>1. Len(s) \in Nat /\ DOMAIN s = 1..Len(s)
  OBVIOUS
<1>2. ss \in [1..Len(s) -> Seq(T)]
  <2>1. \A k \in DOMAIN s : <<s[k]>> \in Seq(T) /\ <<>> \in Seq(T)
    OBVIOUS
  <2> QED BY <1>1, <2>1
<1>3. \A k \in DOMAIN s : \A x : x \in ToSet(ss[k]) <=> s[k] \in S /\ x = s[k]
  BY DEF ToSet
<1>4. Only(s, S) = FlattenSeq(ss)
  BY DEF Only
<1> HIDE DEF ss
<1>5. /\ FlattenSeq(ss) \in Seq(T)
      /\ \A x : x \in ToSet(FlattenSeq(ss)) <=> \E k \in 1..Len(s) : x \in ToSet(ss[k])
  BY <1>1, <1>2, Flattening DEF IsInOne
<1>6. \A x : x \in ToSet(s) <=> \E k \in 1..Len(s) : x = s[k]
  BY <1>1 DEF ToSet
<1>7. ASSUME NEW x PROVE x \in ToSet(FlattenSeq(ss)) <=> x \in ToSet(s) /\ x \in S
  <2>1. x \in ToSet(FlattenSeq(ss)) <=> \E k \in 1..Len(s) : x \in ToSet(ss[k])
    BY <1>5
  <2>2. \A k \in 1..Len(s) : x \in ToSet(ss[k]) <=> s[k] \in S /\ x = s[k]
    BY <1>1, <1>3
  <2>3. x \in ToSet(s) <=> \E k \in 1..Len(s) : x = s[k]
    BY <1>6
  <2> QED BY <2>1, <2>2, <2>3
<1> QED
  BY <1>4, <1>5, <1>7

(* WithoutRepeats holds the same elements.                                 *)
LEMMA EachOnce ==
    ASSUME NEW T, NEW s \in Seq(T)
    PROVE  /\ WithoutRepeats(s) \in Seq(T)
           /\ ToSet(WithoutRepeats(s)) = ToSet(s)
<1> DEFINE First(k) == ~ \E j \in 1 .. k - 1 : s[j] = s[k]
           ss == [k \in DOMAIN s |-> IF \E j \in 1 .. k - 1 : s[j] = s[k] THEN <<>> ELSE <<s[k]>>]
<1>1. Len(s) \in Nat /\ DOMAIN s = 1..Len(s)
  OBVIOUS
<1>2. ss \in [1..Len(s) -> Seq(T)]
  <2>1. \A k \in DOMAIN s : <<s[k]>> \in Seq(T) /\ <<>> \in Seq(T)
    OBVIOUS
  <2> QED BY <1>1, <2>1
<1>3. \A k \in DOMAIN s : \A x : x \in ToSet(ss[k]) <=> First(k) /\ x = s[k]
  BY DEF ToSet
<1>4. WithoutRepeats(s) = FlattenSeq(ss)
  BY DEF WithoutRepeats
<1> HIDE DEF ss
<1>5. /\ FlattenSeq(ss) \in Seq(T)
      /\ \A x : x \in ToSet(FlattenSeq(ss)) <=> \E k \in 1..Len(s) : x \in ToSet(ss[k])
  BY <1>1, <1>2, Flattening DEF IsInOne
<1>6. ASSUME NEW i \in DOMAIN s PROVE \E k \in DOMAIN s : First(k) /\ s[k] = s[i]
  <2> DEFINE same == {k \in DOMAIN s : s[k] = s[i]}
  <2>1. same \subseteq Nat /\ same # {}
    BY <1>1
  <2>2. PICK k \in same : \A j \in same : <<j, k>> \notin IsBelow
    <3> HIDE DEF same
    <3> QED BY <2>1, BelowIsWellFounded, WFMin
  <2>3. ASSUME NEW j \in 1 .. k - 1, s[j] = s[k] PROVE FALSE
    <3>1. j \in same /\ j < k /\ j \in Nat /\ k \in Nat
      BY <1>1, <2>2, <2>3
    <3> QED BY <2>2, <3>1 DEF IsBelow
  <2> QED BY <2>2, <2>3
<1>7. ASSUME NEW x, x \in ToSet(s) PROVE x \in ToSet(FlattenSeq(ss))
  <2>1. PICK i \in DOMAIN s : x = s[i]
    BY <1>7 DEF ToSet
  <2>2. PICK k \in DOMAIN s : First(k) /\ s[k] = s[i]
    BY <1>6
  <2> HIDE DEF First
  <2> QED BY <1>1, <1>3, <1>5, <2>1, <2>2
<1>8. ASSUME NEW x, x \in ToSet(FlattenSeq(ss)) PROVE x \in ToSet(s)
  <2>1. PICK k \in 1..Len(s) : x \in ToSet(ss[k])
    BY <1>5, <1>8
  <2> QED BY <1>1, <1>3, <2>1 DEF ToSet
<1> QED
  BY <1>4, <1>5, <1>7, <1>8

(***************************************************************************)
(* The elements of a feature type are paths: sequences of names.           *)
(***************************************************************************)
IsPath(e) == e \in Seq(ToSet(e)) /\ e # Root
Prefix(e, k) == SubSeq(e, 1, k)

(* A path has a last name, and a prefix for each of its names.             *)
LEMMA PathParts ==
    ASSUME NEW e, IsPath(e)
    PROVE  /\ Len(e) \in Nat /\ Len(e) > 0 /\ DOMAIN e = 1..Len(e)
           /\ Prefix(e, Len(e)) = e /\ Front(e) = Prefix(e, Len(e) - 1)
           /\ Last(e) = e[Len(e)]
<1>1. e \in Seq(ToSet(e)) /\ e # <<>>
  BY DEF IsPath, Root
<1>2. Len(e) \in Nat /\ Len(e) > 0 /\ DOMAIN e = 1..Len(e)
  BY <1>1
<1>3. SubSeq(e, 1, Len(e)) = e
  BY <1>1, <1>2
<1> QED
  BY <1>2, <1>3 DEF Prefix, Front, Last

(* A prefix of a path is a path, and its prefixes are those of the path.   *)
LEMMA PrefixParts ==
    ASSUME NEW e, IsPath(e), NEW k \in 1..Len(e)
    PROVE  /\ IsPath(Prefix(e, k)) /\ Len(Prefix(e, k)) = k
           /\ \A i \in 1..k : Prefix(e, k)[i] = e[i]
           /\ \A i \in 1..k : Prefix(Prefix(e, k), i) = Prefix(e, i)
           /\ Front(Prefix(e, k)) = Prefix(e, k - 1)
           /\ Last(Prefix(e, k)) = e[k]
<1> DEFINE p == Prefix(e, k)
<1>1. e \in Seq(ToSet(e)) /\ Len(e) \in Nat /\ DOMAIN e = 1..Len(e)
  BY PathParts DEF IsPath
<1>2. /\ p \in Seq(ToSet(e)) /\ Len(p) = k /\ DOMAIN p = 1..k
      /\ \A i \in 1..k : p[i] = e[i]
  BY <1>1, SubSeqProperties DEF Prefix
<1>3. p = [i \in 1..k |-> e[i]] /\ Prefix(e, k - 1) = [i \in 1..(k - 1) |-> e[i]]
  BY <1>1 DEF Prefix
<1>4. \A i \in 1..k : p[i] \in ToSet(p)
  BY <1>2 DEF ToSet
<1>5. p \in Seq(ToSet(p))
  BY <1>2, <1>4
<1>6. p # <<>>
  BY <1>2
<1>7. ASSUME NEW i \in 0..k PROVE Prefix(p, i) = Prefix(e, i)
  <2>1. Prefix(p, i) = [j \in 1..i |-> p[j]] /\ Prefix(e, i) = [j \in 1..i |-> e[j]]
    BY <1>1, <1>5, <1>2 DEF Prefix
  <2>2. \A j \in 1..i : p[j] = e[j]
    BY <1>2
  <2> HIDE DEF p
  <2> QED BY <2>1, <2>2
<1>8. Front(p) = Prefix(p, k - 1) /\ Last(p) = p[k]
  BY <1>2 DEF Front, Last, Prefix
<1> HIDE DEF p
<1>9. k - 1 \in 0..k /\ k \in 1..k
  OBVIOUS
<1>10. Front(p) = Prefix(e, k - 1) /\ Last(p) = e[k]
  BY <1>2, <1>7, <1>8, <1>9
<1>11. IsPath(p)
  BY <1>5, <1>6 DEF IsPath, Root
<1> QED
  BY <1>2, <1>7, <1>10, <1>11 DEF p

(* What a feature type is, element by element.                             *)
LEMMA FieldIsPath ==
    ASSUME NEW t, IsFeatureType(t), NEW e \in DOMAIN t.fields
    PROVE  /\ IsPath(e) /\ e \notin {GmlName, BoundedBy} /\ ~IsAttribute(e)
           /\ Len(e) > 1 => Front(e) \in Complex(t)
<1>1. PICK k \in DOMAIN t.order : t.order[k] = e
  BY DEF IsFeatureType, ToSet
<1>2. /\ e \in Seq(ToSet(e)) /\ e \notin {Root, GmlName, BoundedBy} /\ ~IsAttribute(e)
      /\ Len(e) > 1 => \E j \in 1 .. k - 1 :
                            t.order[j] = Front(e) /\ t.fields[Front(e)].complex
  BY <1>1 DEF IsFeatureType
<1>3. ASSUME Len(e) > 1 PROVE Front(e) \in Complex(t)
  <2>1. PICK j \in 1 .. k - 1 : t.order[j] = Front(e) /\ t.fields[Front(e)].complex
    BY <1>2, <1>3
  <2>2. t.order \in Seq(DOMAIN t.fields)
    BY DEF IsFeatureType
  <2>3. j \in DOMAIN t.order
    BY <1>1, <2>2
  <2>4. t.order[j] \in DOMAIN t.fields
    BY <2>2, <2>3
  <2> QED BY <2>1, <2>4 DEF Complex, IsComplex
<1> QED
  BY <1>2, <1>3 DEF IsPath

(* A complex element is a field with sub fields.                           *)
LEMMA ComplexIsField ==
    ASSUME NEW t, NEW e
    PROVE  e \in Complex(t) <=> e \in DOMAIN t.fields /\ IsComplex(t, e)
BY DEF Complex

(* What contains an element of a feature type is complex.                  *)
LEMMA ParentsAreComplex ==
    ASSUME NEW t, IsFeatureType(t), NEW e \in DOMAIN t.fields, NEW k \in 1..Len(e)
    PROVE  Prefix(e, k) \in DOMAIN t.fields /\ (k < Len(e) => Prefix(e, k) \in Complex(t))
<1>1. /\ IsPath(e) /\ Len(e) \in Nat /\ Prefix(e, Len(e)) = e
  BY FieldIsPath, PathParts
<1> DEFINE At(d) == Prefix(e, Len(e) - d)
           S == {d \in Nat : d < Len(e) => /\ At(d) \in DOMAIN t.fields
                                          /\ (d > 0 => At(d) \in Complex(t))}
<1>2. 0 \in S
  <2>1. Len(e) - 0 = Len(e)
    BY <1>1
  <2> QED BY <1>1, <2>1
<1>3. ASSUME NEW d \in Nat, d \in S PROVE d + 1 \in S
  <2> SUFFICES ASSUME d + 1 < Len(e)
               PROVE  /\ Prefix(e, Len(e) - (d + 1)) \in DOMAIN t.fields
                      /\ Prefix(e, Len(e) - (d + 1)) \in Complex(t)
    OBVIOUS
  <2>0. At(d) \in DOMAIN t.fields
    <3>1. d < Len(e)
      BY <1>1
    <3> HIDE DEF At
    <3> QED BY <1>3, <3>1
  <2>1. d < Len(e) /\ Len(e) - d \in 1..Len(e) /\ (Len(e) - d) - 1 = Len(e) - (d + 1)
    BY <1>1
  <2>2. Prefix(e, Len(e) - d) \in DOMAIN t.fields
    BY <2>0
  <2>3. /\ Len(Prefix(e, Len(e) - d)) = Len(e) - d
        /\ Front(Prefix(e, Len(e) - d)) = Prefix(e, (Len(e) - d) - 1)
    BY <1>1, <2>1, PrefixParts
  <2>4. Len(e) - d > 1
    BY <1>1
  <2>5. Front(Prefix(e, Len(e) - d)) \in Complex(t)
    BY <2>2, <2>3, <2>4, FieldIsPath
  <2>6. Prefix(e, Len(e) - (d + 1)) \in Complex(t)
    BY <2>1, <2>3, <2>5
  <2> QED BY <2>6, ComplexIsField
<1>4. Nat \subseteq S
  <2> HIDE DEF S
  <2> QED BY <1>2, <1>3, Induction
<1>5. PICK d \in Nat : d = Len(e) - k
  BY <1>1
<1>6. d \in S
  <2> HIDE DEF S
  <2> QED BY <1>4
<1>7. /\ At(d) \in DOMAIN t.fields
      /\ (k < Len(e) => At(d) \in Complex(t))
  <2>1. d < Len(e) /\ (k < Len(e) => d > 0)
    BY <1>1, <1>5
  <2> HIDE DEF At
  <2> QED BY <1>6, <2>1
<1>8. Len(e) - d = k
  BY <1>1, <1>5
<1> QED
  BY <1>7, <1>8

(***************************************************************************)
(* The configured feature types, and what their schema lists.              *)
(***************************************************************************)

(* A finite set has a sequence that holds all of it.                       *)
LEMMA AllAreInSequence ==
    ASSUME NEW S, IsFiniteSet(S)
    PROVE  SetToSeq(S) \in Seq(S) /\ S \subseteq ToSet(SetToSeq(S))
<1> DEFINE n == Cardinality(S)
<1>1. n \in Nat /\ ExistsBijection(1..n, S)
  BY FS_CardinalityType
<1>2. PICK f \in [1..n -> S] : IsInjective(f)
  BY <1>1 DEF ExistsBijection, Bijection, Injection
<1>3. SetToSeq(S) \in [1..n -> S] /\ IsInjective(SetToSeq(S))
  BY <1>2 DEF SetToSeq
<1>4. SetToSeq(S) \in Injection(1..n, S)
  BY <1>3 DEF Injection
<1>5. IsFiniteSet(1..n) /\ Cardinality(1..n) = n
  BY <1>1, FS_Interval
<1>6. SetToSeq(S) \in Surjection(1..n, S)
  BY <1>4, <1>5, FS_Injection
<1>7. \A x \in S : \E i \in 1..n : SetToSeq(S)[i] = x
  BY <1>6 DEF Surjection
<1> QED
  BY <1>1, <1>3, <1>7 DEF ToSet

(* Finitely many names make finitely many paths of one name.               *)
LEMMA OfOneName ==
    ASSUME NEW S, IsFiniteSet(S)
    PROVE  IsFiniteSet({<<x>> : x \in S})
<1> DEFINE T == {<<x>> : x \in S}
           f == [x \in S |-> <<x>>]
<1>1. f \in [S -> T] /\ (\A x, y \in S : f[x] = f[y] => x = y) /\ \A y \in T : \E x \in S : f[x] = y
  <2>1. \A x, y \in S : <<x>> = <<y>> => x = y
    OBVIOUS
  <2> QED BY <2>1
<1>2. f \in Bijection(S, T)
  <2> HIDE DEF T, f
  <2> QED BY <1>1, Fun_IsBij
<1>3. ExistsBijection(S, T)
  BY <1>2 DEF ExistsBijection
<1> HIDE DEF T
<1>4. IsFiniteSet(T)
  BY <1>3, FS_Bijection
<1> QED
  BY <1>4 DEF T

(* What a configuration is expanded to is a feature type.                  *)
LEMMA ConfiguredIsFeatureType ==
    ASSUME NEW f, IsConfiguration(f)
    PROVE  IsFeatureType(Configured(f))
<1>1. CASE f.declared = "fields"
  BY <1>1 DEF IsConfiguration, Configured
<1>2. CASE f.declared # "fields"
  <2> DEFINE of == Model[f.model]
             listed == ModelFields(f)
             S == {<<x>> : x \in listed}
             c == Configured(f)
  <2>1. /\ {"order", "fields"} \subseteq DOMAIN f
        /\ IsFiniteSet(DOMAIN of) /\ DOMAIN of \cap {"gml:name", "gml:boundedBy", "@gml:id"} = {}
        /\ f.declared = "__all__"
           \/ \E g \in DOMAIN of : of[g].kind = "geometry" /\ f.geometry \in {<<>>, <<g>>}
    BY <1>2 DEF IsConfiguration
  <2>2. listed \subseteq DOMAIN of
    BY <2>1 DEF ModelFields
  <2>3. IsFiniteSet(listed)
    BY <2>1, <2>2, FS_Subset
  <2>4. IsFiniteSet(S)
    BY <2>3, OfOneName
  <2>5. c.order = SetToSeq(S) /\ c.fields = [e \in S |-> [attribute |-> <<>>, complex |-> FALSE]]
    BY <1>2, <2>1 DEF Configured
  <2> HIDE DEF S, c
  <2>6. c.order \in Seq(S) /\ S \subseteq ToSet(c.order) /\ DOMAIN c.fields = S
    BY <2>4, <2>5, AllAreInSequence
  <2>7. ASSUME NEW k \in DOMAIN c.order
        PROVE  /\ c.order[k] \in Seq(ToSet(c.order[k]))
               /\ c.order[k] \notin {Root, GmlName, BoundedBy} /\ ~IsAttribute(c.order[k])
               /\ Len(c.order[k]) = 1
    <3>1. c.order[k] \in S
      BY <2>6
    <3>2. PICK x \in listed : c.order[k] = <<x>>
      BY <3>1 DEF S
    <3>3. x \notin {"gml:name", "gml:boundedBy", "@gml:id"}
      BY <2>1, <2>2
    <3>4. x \in ToSet(<<x>>)
      BY DEF ToSet
    <3>5. <<x>> \in Seq(ToSet(<<x>>)) /\ <<x>> # <<>> /\ Len(<<x>>) = 1
      BY <3>4
    <3>6. <<x>> # <<"gml:name">> /\ <<x>> # <<"gml:boundedBy">>
      BY <3>3
    <3>7. Last(<<x>>) # "@gml:id"
      BY <3>3, <3>5 DEF Last
    <3> QED BY <3>2, <3>5, <3>6, <3>7 DEF Root, GmlName, BoundedBy, IsAttribute
  <2>8. c.order \in Seq(DOMAIN c.fields) /\ DOMAIN c.fields \subseteq ToSet(c.order)
    BY <2>6
  <2>9. ASSUME NEW k \in DOMAIN c.order, Len(c.order[k]) > 1 PROVE FALSE
    <3>1. Len(c.order[k]) = 1
      BY <2>7
    <3> QED BY <2>9, <3>1
  <2>10. \A k \in DOMAIN c.order :
            /\ c.order[k] \in Seq(ToSet(c.order[k]))
            /\ c.order[k] \notin {Root, GmlName, BoundedBy} /\ ~IsAttribute(c.order[k])
            /\ Len(c.order[k]) > 1 => \E j \in 1 .. k - 1 :
                  c.order[j] = Front(c.order[k]) /\ c.fields[Front(c.order[k])].complex
    BY <2>7, <2>9
  <2>11. \A e \in DOMAIN c.fields : c.fields[e].attribute \in Seq(ToSet(c.fields[e].attribute))
    <3> DEFINE none == <<>>
    <3>1. none \in Seq(ToSet(none))
      OBVIOUS
    <3>2. \A e \in DOMAIN c.fields : c.fields[e].attribute = none
      BY <2>5, <2>6
    <3> HIDE DEF none
    <3> QED BY <3>1, <3>2
  <2>12. IsFeatureType(c)
    BY <2>8, <2>10, <2>11 DEF IsFeatureType
  <2> QED BY <2>12 DEF c
<1> QED
  BY <1>1, <1>2

(* The elements that a feature type lists.                                 *)
LEMMA OrderHasFields ==
    ASSUME NEW t, IsFeatureType(t)
    PROVE  t.order \in Seq(DOMAIN t.fields) /\ \A x : x \in ToSet(t.order) <=> x \in DOMAIN t.fields
<1>1. t.order \in Seq(DOMAIN t.fields) /\ DOMAIN t.fields \subseteq ToSet(t.order)
  BY DEF IsFeatureType
<1>2. ToSet(t.order) \subseteq DOMAIN t.fields
  BY <1>1 DEF ToSet
<1> QED
  BY <1>1, <1>2

(* The elements under a node are the fields that are its children.         *)
LEMMA ElementsOf ==
    ASSUME NEW t, IsFeatureType(t), NEW node
    PROVE  /\ Elements(t, node) \in Seq(DOMAIN t.fields)
           /\ \A x : x \in ToSet(Elements(t, node)) <=> x \in Children(t, node)
<1>1. /\ Only(t.order, Children(t, node)) \in Seq(DOMAIN t.fields)
      /\ \A x : x \in ToSet(Only(t.order, Children(t, node)))
                <=> x \in ToSet(t.order) /\ x \in Children(t, node)
  BY OrderHasFields, OnlyThose
<1>2. \A x : x \in Children(t, node) => x \in DOMAIN t.fields
  BY DEF Children
<1> QED
  BY <1>1, <1>2, OrderHasFields DEF Elements

(* AllComplexElements lists the complex fields.                            *)
LEMMA ComplexElementsOf ==
    ASSUME NEW t, IsFeatureType(t)
    PROVE  /\ AllComplexElements(t) \in Seq(DOMAIN t.fields)
           /\ \A x : x \in ToSet(AllComplexElements(t)) <=> x \in Complex(t)
<1>1. /\ Only(t.order, Complex(t)) \in Seq(DOMAIN t.fields)
      /\ \A x : x \in ToSet(Only(t.order, Complex(t))) <=> x \in ToSet(t.order) /\ x \in Complex(t)
  BY OrderHasFields, OnlyThose
<1> QED
  BY <1>1, OrderHasFields, ComplexIsField DEF AllComplexElements

(* The main geometry, if there is one, is a field and a geometry.          *)
LEMMA MainGeometryIsField ==
    ASSUME NEW t, IsFeatureType(t), MainGeometries(t) # <<>>
    PROVE  MainGeometry(t) \in Geometries(t)
<1> DEFINE F == DOMAIN t.fields
<1>1. Elements(t, Root) \in Seq(F)
  BY ElementsOf
<1>2. GeometryElements(t, Root) \in Seq(F)
  BY <1>1, OnlyThose DEF GeometryElements
<1>3. Only(t.order, NestedGeometries(t)) \in Seq(F)
  BY OrderHasFields, OnlyThose
<1>4. AllGeometryElements(t) \in Seq(F)
  BY <1>2, <1>3, ElementsOfConcat DEF AllGeometryElements
<1>5. /\ MainGeometries(t) \in Seq(F)
      /\ \A x : x \in ToSet(MainGeometries(t)) => x \in GeometriesNamed(t)
  BY <1>4, OnlyThose DEF MainGeometries
<1>6. MainGeometry(t) \in ToSet(MainGeometries(t))
  <2>1. MainGeometry(t) = MainGeometries(t)[1] /\ 1 \in DOMAIN MainGeometries(t)
    BY <1>5 DEF MainGeometry
  <2> QED BY <2>1 DEF ToSet
<1> QED
  BY <1>5, <1>6 DEF GeometriesNamed

(***************************************************************************)
(* The types that DescribeFeatureType finds.                               *)
(***************************************************************************)

(* A path is what leads to it and its last name.                           *)
LEMMA FrontAndLast ==
    ASSUME NEW e, IsPath(e)
    PROVE  Append(Front(e), Last(e)) = e /\ Len(Front(e)) = Len(e) - 1
<1>1. e \in Seq(ToSet(e)) /\ Len(e) \in Nat /\ Len(e) > 0 /\ e = [i \in 1..Len(e) |-> e[i]]
  BY PathParts DEF IsPath
<1>2. Front(e) = [i \in 1..(Len(e) - 1) |-> e[i]]
  BY <1>1 DEF Front
<1>3. Front(e) \in Seq(ToSet(e)) /\ Len(Front(e)) = Len(e) - 1
  BY <1>1, <1>2 DEF ToSet
<1>4. Last(e) \in ToSet(e)
  BY <1>1 DEF Last, ToSet
<1>5. /\ Append(Front(e), Last(e)) \in Seq(ToSet(e)) /\ Len(Append(Front(e), Last(e))) = Len(e)
      /\ \A i \in 1..Len(e) - 1 : Append(Front(e), Last(e))[i] = Front(e)[i]
      /\ Append(Front(e), Last(e))[Len(e)] = Last(e)
  <2>1. Len(Front(e)) + 1 = Len(e)
    BY <1>1, <1>3
  <2> QED BY <1>3, <1>4, <2>1, AppendProperties
<1>6. \A i \in 1..Len(e) : Append(Front(e), Last(e))[i] = e[i]
  <2>1. \A i \in 1..Len(e) - 1 : Front(e)[i] = e[i]
    BY <1>2
  <2>2. \A i \in 1..Len(e) : i \in 1..Len(e) - 1 \/ i = Len(e)
    BY <1>1
  <2>3. Last(e) = e[Len(e)]
    BY DEF Last
  <2> QED BY <1>5, <2>1, <2>2, <2>3
<1>7. Append(Front(e), Last(e)) = e
  BY <1>1, <1>5, <1>6, SeqEqual
<1> QED
  BY <1>3, <1>7

(* A child is one name longer than its parent.                             *)
LEMMA ChildParts ==
    ASSUME NEW t, IsFeatureType(t), NEW p \in DOMAIN t.fields, NEW e \in Children(t, p)
    PROVE  /\ e \in DOMAIN t.fields /\ Front(e) = p /\ Len(e) = Len(p) + 1 /\ Append(p, Last(e)) = e
<1>1. e \in DOMAIN t.fields /\ Front(e) = p
  BY DEF Children
<1>2. IsPath(e) /\ IsPath(p)
  BY <1>1, FieldIsPath
<1> QED
  BY <1>1, <1>2, FrontAndLast, PathParts

(* What comes after what contains it is no deeper than its position.       *)
LEMMA DepthIsBounded ==
    ASSUME NEW t, IsFeatureType(t), NEW e \in DOMAIN t.fields
    PROVE  Len(e) <= Len(t.order)
<1>1. t.order \in Seq(DOMAIN t.fields) /\ Len(t.order) \in Nat /\ DOMAIN t.order = 1..Len(t.order)
  BY OrderHasFields
<1> DEFINE S == {k \in Nat : \A j \in 1..k : j \in DOMAIN t.order => Len(t.order[j]) <= j}
<1>2. 0 \in S
  OBVIOUS
<1>3. ASSUME NEW k \in Nat, k \in S PROVE k + 1 \in S
  <2> SUFFICES ASSUME k + 1 \in DOMAIN t.order PROVE Len(t.order[k + 1]) <= k + 1
    <3>1. \A j \in 1..(k + 1) : j \in 1..k \/ j = k + 1
      OBVIOUS
    <3>2. \A j \in 1..k : j \in DOMAIN t.order => Len(t.order[j]) <= j
      BY <1>3
    <3> QED BY <3>1, <3>2
  <2> DEFINE x == t.order[k + 1]
  <2>1. x \in DOMAIN t.fields /\ IsPath(x) /\ Len(x) \in Nat
    BY <1>1, FieldIsPath, PathParts
  <2>2. CASE Len(x) > 1
    <3>1. PICK j \in 1 .. (k + 1) - 1 : t.order[j] = Front(x)
      BY <2>2 DEF IsFeatureType
    <3>2. j \in 1..k /\ j \in DOMAIN t.order
      BY <1>1, <3>1
    <3>3. Len(t.order[j]) <= j
      BY <1>3, <3>2
    <3>4. Len(Front(x)) = Len(x) - 1
      BY <2>1, FrontAndLast
    <3> HIDE DEF x
    <3>5. Len(x) - 1 <= j
      BY <3>1, <3>3, <3>4
    <3>6. Len(x) <= k + 1
      BY <2>1, <3>2, <3>5
    <3> QED BY <3>6 DEF x
  <2>3. CASE ~(Len(x) > 1)
    BY <2>1, <2>3
  <2> QED BY <2>2, <2>3
<1>4. Nat \subseteq S
  <2> HIDE DEF S
  <2> QED BY <1>2, <1>3, Induction
<1>5. PICK k \in DOMAIN t.order : t.order[k] = e
  BY OrderHasFields DEF ToSet
<1>6. k \in Nat /\ k \in 1..k /\ k <= Len(t.order)
  BY <1>1
<1>7. k \in S
  <2> HIDE DEF S
  <2> QED BY <1>4, <1>6
<1>8. Len(e) <= k
  BY <1>5, <1>6, <1>7
<1>9. Len(e) \in Nat
  BY FieldIsPath, PathParts
<1> QED
  BY <1>1, <1>6, <1>8, <1>9

(* Of the types that are found, the first of each name is described.       *)
LEMMA FirstIsThere ==
    ASSUME NEW t, IsFeatureType(t), NEW found, found \subseteq DOMAIN t.fields, NEW e \in found
    PROVE  \E d \in FirstTypes(t, found) : TypeName(t, d) = TypeName(t, e)
<1>1. t.order \in Seq(DOMAIN t.fields) /\ Len(t.order) \in Nat /\ DOMAIN t.order = 1..Len(t.order)
  BY OrderHasFields
<1>2. ASSUME NEW x \in found PROVE Position(t, x) \in Nat
  <2>1. \E k \in DOMAIN t.order : t.order[k] = x
    BY <1>2, OrderHasFields DEF ToSet
  <2>2. Position(t, x) \in DOMAIN t.order
    BY <2>1 DEF Position
  <2> QED BY <1>1, <2>2
<1> DEFINE same == {x \in found : TypeName(t, x) = TypeName(t, e)}
           at == {Position(t, x) : x \in same}
<1>3. at \subseteq Nat /\ at # {}
  BY <1>2
<1>4. PICK k \in at : \A j \in at : <<j, k>> \notin IsBelow
  <2> HIDE DEF at
  <2> QED BY <1>3, BelowIsWellFounded, WFMin
<1>5. PICK d \in same : Position(t, d) = k
  BY <1>4
<1>6. ASSUME NEW x \in found, TypeName(t, x) = TypeName(t, d)
      PROVE  Position(t, d) <= Position(t, x)
  <2>1. Position(t, x) \in at /\ Position(t, x) \in Nat /\ k \in Nat
    BY <1>2, <1>3, <1>5, <1>6
  <2>2. ~(Position(t, x) < k)
    <3> HIDE DEF at
    <3> QED BY <1>4, <2>1 DEF IsBelow
  <2> QED BY <1>5, <2>1, <2>2
<1>7. d \in FirstTypes(t, found)
  BY <1>5, <1>6 DEF FirstTypes
<1> QED
  BY <1>5, <1>7

(* The types found up to each level.                                       *)
IsWalk(f, t, m) ==
    f = [level \in 0..m |-> IF level = 0 THEN {}
                            ELSE f[level - 1] \union FirstTypes(t, NewTypes(t, level, f[level - 1]))]

(* The function that DescribedTypes is defined by exists.                  *)
LEMMA WalkExists == ASSUME NEW t, NEW m \in Nat PROVE \E f : IsWalk(f, t, m)
<1> DEFINE Onward(level, above) == above \union FirstTypes(t, NewTypes(t, level, above))
           S == {k \in Nat : \E f : f = [level \in 0..k |-> IF level = 0 THEN {}
                                                          ELSE Onward(level, f[level - 1])]}
<1> HIDE DEF Onward
<1>1. 0 \in S
  <2> DEFINE f == [level \in 0..0 |-> {}]
  <2>1. \A level \in 0..0 : level = 0
    OBVIOUS
  <2>2. f = [level \in 0..0 |-> IF level = 0 THEN {} ELSE Onward(level, f[level - 1])]
    BY <2>1
  <2> HIDE DEF f
  <2> QED BY <2>2
<1>2. ASSUME NEW k \in Nat, k \in S PROVE k + 1 \in S
  <2>1. PICK f : f = [level \in 0..k |-> IF level = 0 THEN {} ELSE Onward(level, f[level - 1])]
    BY <1>2
  <2> DEFINE g == [level \in 0..(k + 1) |-> IF level = k + 1 THEN Onward(level, f[k]) ELSE f[level]]
  <2>2. \A level \in 0..k : f[level] = IF level = 0 THEN {} ELSE Onward(level, f[level - 1])
    BY <2>1
  <2>3. ASSUME NEW level \in 0..(k + 1)
        PROVE  g[level] = IF level = 0 THEN {} ELSE Onward(level, g[level - 1])
    <3>1. CASE level = k + 1
      <4>1. level # 0 /\ level - 1 = k /\ k \in 0..(k + 1) /\ k # k + 1
        BY <3>1
      <4>2. g[level - 1] = f[k] /\ g[level] = Onward(level, f[k])
        BY <3>1, <4>1
      <4> QED BY <4>1, <4>2
    <3>2. CASE level # k + 1
      <4>1. level \in 0..k /\ g[level] = f[level]
        BY <3>2
      <4>2. CASE level # 0
        <5>1. level - 1 \in 0..(k + 1) /\ level - 1 # k + 1
          BY <3>2, <4>2
        <5>2. g[level - 1] = f[level - 1]
          BY <5>1
        <5> QED BY <2>2, <4>1, <4>2, <5>2
      <4> QED BY <2>2, <4>1, <4>2
    <3> QED BY <3>1, <3>2
  <2>4. g = [level \in 0..(k + 1) |-> g[level]]
    OBVIOUS
  <2> HIDE DEF g
  <2>5. g = [level \in 0..(k + 1) |-> IF level = 0 THEN {} ELSE Onward(level, g[level - 1])]
    BY <2>3, <2>4
  <2> QED BY <2>5
<1>3. Nat \subseteq S
  <2> HIDE DEF S
  <2> QED BY <1>1, <1>2, Induction
<1> QED
  BY <1>3 DEF IsWalk, Onward

(* What it finds at a level, from what it found above.                     *)
LEMMA WalkStep ==
    ASSUME NEW f, NEW t, NEW m \in Nat, IsWalk(f, t, m)
    PROVE  /\ f[0] = {}
           /\ \A k \in 1..m : f[k] = f[k - 1] \union FirstTypes(t, NewTypes(t, k, f[k - 1]))
<1>1. \A level \in 0..m : f[level] = IF level = 0 THEN {}
          ELSE f[level - 1] \union FirstTypes(t, NewTypes(t, level, f[level - 1]))
  BY DEF IsWalk
<1>2. 0 \in 0..m /\ \A k \in 1..m : k \in 0..m /\ k # 0
  OBVIOUS
<1> QED
  BY <1>1, <1>2

(* A type that was found stays found.                                      *)
LEMMA WalkGrows ==
    ASSUME NEW f, NEW t, NEW m \in Nat, IsWalk(f, t, m), NEW i \in 0..m, NEW j \in i..m
    PROVE  f[i] \subseteq f[j]
<1> DEFINE S == {k \in Nat : i + k <= m => f[i] \subseteq f[i + k]}
<1>1. 0 \in S
  <2>1. i + 0 = i
    OBVIOUS
  <2> QED BY <2>1
<1>2. ASSUME NEW k \in Nat, k \in S PROVE k + 1 \in S
  <2> SUFFICES ASSUME i + (k + 1) <= m PROVE f[i] \subseteq f[i + (k + 1)]
    OBVIOUS
  <2>1. i + k <= m /\ i + (k + 1) \in 1..m /\ (i + (k + 1)) - 1 = i + k
    OBVIOUS
  <2>2. f[i] \subseteq f[i + k]
    BY <1>2, <2>1
  <2>3. f[(i + (k + 1)) - 1] \subseteq f[i + (k + 1)]
    BY <2>1, WalkStep
  <2> QED BY <2>1, <2>2, <2>3
<1>3. Nat \subseteq S
  <2> HIDE DEF S
  <2> QED BY <1>1, <1>2, Induction
<1>4. PICK k \in Nat : j = i + k
  <2>1. j - i \in Nat /\ j = i + (j - i)
    OBVIOUS
  <2> QED BY <2>1
<1>5. k \in S
  <2> HIDE DEF S
  <2> QED BY <1>3
<1>6. f[i] \subseteq f[i + k]
  BY <1>4, <1>5
<1> QED
  BY <1>4, <1>6

(* The types that are found first at a level are new there.                *)
LEMMA FirstTypesAreNew ==
    ASSUME NEW t, NEW k, NEW above, NEW x \in FirstTypes(t, NewTypes(t, k, above))
    PROVE  x \in Complex(t) /\ Len(x) = k
BY DEF FirstTypes, NewTypes

(* What was found was found at some level.                                 *)
LEMMA WalkMembers ==
    ASSUME NEW f, NEW t, NEW m \in Nat, IsWalk(f, t, m), NEW i \in 0..m, NEW x \in f[i]
    PROVE  x \in Complex(t) /\ Len(x) \in 1..i /\ x \in f[Len(x)]
<1> DEFINE IsMember(k) == x \in Complex(t) /\ Len(x) \in 1..k /\ x \in f[Len(x)]
           S == {k \in Nat : k <= m => (x \in f[k] => IsMember(k))}
<1>1. 0 \in S
  BY WalkStep
<1>2. ASSUME NEW k \in Nat, k \in S PROVE k + 1 \in S
  <2> SUFFICES ASSUME k + 1 <= m, x \in f[k + 1] PROVE IsMember(k + 1)
    <3> HIDE DEF IsMember
    <3> QED OBVIOUS
  <2>1. k <= m /\ k + 1 \in 1..m /\ (k + 1) - 1 = k
    OBVIOUS
  <2>2. f[k + 1] = f[(k + 1) - 1] \union FirstTypes(t, NewTypes(t, k + 1, f[(k + 1) - 1]))
    BY <2>1, WalkStep
  <2>3. CASE x \in f[k]
    <3>1. IsMember(k)
      <4> HIDE DEF IsMember
      <4> QED BY <1>2, <2>1, <2>3
    <3> QED BY <3>1
  <2>4. CASE x \notin f[k]
    <3>1. x \in FirstTypes(t, NewTypes(t, k + 1, f[k]))
      BY <2>1, <2>2, <2>4
    <3>2. x \in Complex(t) /\ Len(x) = k + 1
      BY <3>1, FirstTypesAreNew
    <3> QED BY <3>2
  <2> QED BY <2>3, <2>4
<1>3. Nat \subseteq S
  <2> HIDE DEF S
  <2> QED BY <1>1, <1>2, Induction
<1>4. i \in Nat /\ i <= m
  OBVIOUS
<1>5. i \in S
  <2> HIDE DEF S
  <2> QED BY <1>3, <1>4
<1>6. IsMember(i)
  <2> HIDE DEF IsMember
  <2> QED BY <1>4, <1>5
<1> QED
  BY <1>6

(* What a complex element holds, one with its type holds.                  *)
LEMMA AlikeElement ==
    ASSUME NEW t, IsFeatureType(t), TypesAreAlike(t),
           NEW e \in DOMAIN t.fields, Len(e) > 1,
           NEW d \in Complex(t), TypeName(t, d) = TypeName(t, Front(e))
    PROVE  \E x \in Children(t, d) : Last(x) = Last(e) /\ TypeOf(t, x) = TypeOf(t, e)
<1>1. Front(e) \in Complex(t)
  BY FieldIsPath
<1>2. Contents(t, d) = Contents(t, Front(e))
  BY <1>1 DEF TypesAreAlike
<1>3. e \in Children(t, Front(e))
  BY DEF Children
<1>4. <<Last(e), TypeOf(t, e)>> \in Contents(t, d)
  BY <1>2, <1>3 DEF Contents
<1>5. PICK x \in Children(t, d) : <<Last(e), TypeOf(t, e)>> = <<Last(x), TypeOf(t, x)>>
  BY <1>4 DEF Contents
<1> QED
  BY <1>5

(* A complex element has a type of its name that was found.                *)
LEMMA TypesAreFound ==
    ASSUME NEW t, IsFeatureType(t), TypesAreAlike(t), NEW f, NEW m \in Nat, IsWalk(f, t, m),
           NEW e \in Complex(t), Len(e) <= m
    PROVE  \E d \in f[m] : TypeName(t, d) = TypeName(t, e)
<1> DEFINE IsFound(x, k) == \E d \in f[k] : TypeName(t, d) = TypeName(t, x)
           S == {k \in Nat : k <= m => \A x \in Complex(t) : Len(x) <= k => IsFound(x, k)}
<1>0. \A x \in Complex(t) : x \in DOMAIN t.fields /\ IsPath(x) /\ Len(x) \in Nat /\ Len(x) > 0
  BY ComplexIsField, FieldIsPath, PathParts
<1>1. 0 \in S
  BY <1>0
<1>a. ASSUME NEW k \in 1..m, NEW x \in Complex(t), Len(x) = k, k = 1 \/ Front(x) \in f[k - 1]
      PROVE  IsFound(x, k)
  <2>1. f[k] = f[k - 1] \union FirstTypes(t, NewTypes(t, k, f[k - 1]))
    BY WalkStep
  <2>2. CASE \E d \in f[k - 1] : TypeName(t, d) = TypeName(t, x)
    BY <2>1, <2>2
  <2>3. CASE \A d \in f[k - 1] : TypeName(t, d) # TypeName(t, x)
    <3>1. x \in NewTypes(t, k, f[k - 1])
      BY <1>a, <2>3 DEF NewTypes
    <3>2. NewTypes(t, k, f[k - 1]) \subseteq DOMAIN t.fields
      BY <1>0 DEF NewTypes
    <3>3. \E d \in FirstTypes(t, NewTypes(t, k, f[k - 1])) : TypeName(t, d) = TypeName(t, x)
      BY <3>1, <3>2, FirstIsThere
    <3> QED BY <2>1, <3>3
  <2> QED BY <2>2, <2>3
<1>2. ASSUME NEW k \in Nat, k \in S PROVE k + 1 \in S
  <2> SUFFICES ASSUME k + 1 <= m, NEW x \in Complex(t), Len(x) <= k + 1 PROVE IsFound(x, k + 1)
    <3> HIDE DEF IsFound
    <3> QED OBVIOUS
  <2>1. k \in 0..m /\ k + 1 \in 1..m /\ k + 1 \in k..m /\ (k + 1) - 1 = k
    OBVIOUS
  <2>2. \A y \in Complex(t) : Len(y) <= k => IsFound(y, k)
    <3> HIDE DEF IsFound
    <3> QED BY <1>2, <2>1
  <2>3. f[k] \subseteq f[k + 1]
    BY <2>1, WalkGrows
  <2>4. CASE Len(x) <= k
    BY <2>2, <2>3, <2>4
  <2>5. CASE Len(x) = k + 1 /\ k = 0
    <3>1. k + 1 = 1
      BY <2>5
    <3> QED BY <1>a, <2>1, <2>5, <3>1
  <2>6. CASE Len(x) = k + 1 /\ k # 0
    <3>1. x \in DOMAIN t.fields /\ Len(x) > 1 /\ Front(x) \in Complex(t) /\ Len(Front(x)) = k
      <4>1. x \in DOMAIN t.fields /\ IsPath(x) /\ Len(x) > 1
        BY <1>0, <2>6
      <4> QED BY <2>6, <4>1, FieldIsPath, FrontAndLast
    <3>2. IsFound(Front(x), k)
      BY <2>2, <3>1
    <3>3. PICK d \in f[k] : TypeName(t, d) = TypeName(t, Front(x))
      BY <3>2
    <3>4. d \in Complex(t) /\ Len(d) \in 1..k /\ d \in f[Len(d)]
      BY <2>1, <3>3, WalkMembers
    <3>5. PICK y \in Children(t, d) : Last(y) = Last(x) /\ TypeOf(t, y) = TypeOf(t, x)
      BY <3>1, <3>3, <3>4, AlikeElement
    <3>6. y \in DOMAIN t.fields /\ Front(y) = d /\ Len(y) = Len(d) + 1
      BY <1>0, <3>4, <3>5, ChildParts
    <3>7. y \in Complex(t) /\ TypeName(t, y) = TypeName(t, x)
      <4>1. IsComplex(t, x) /\ TypeOf(t, x) = <<TypeName(t, x)>>
        BY ComplexIsField DEF TypeOf
      <4>2. TypeOf(t, y) = <<TypeName(t, x)>>
        BY <3>5, <4>1
      <4>3. IsComplex(t, y)
        BY <4>2 DEF TypeOf
      <4> QED BY <3>6, <4>2, <4>3, ComplexIsField DEF TypeOf
    <3>8. PICK n \in 1..k : n = Len(d)
      BY <3>4
    <3>9. n + 1 \in 1..m /\ (n + 1) - 1 = n /\ n + 1 \in 0..m /\ k + 1 \in (n + 1)..m
      BY <2>1
    <3>10. IsFound(y, n + 1)
      <4>1. Len(y) = n + 1 /\ Front(y) \in f[(n + 1) - 1]
        BY <3>4, <3>6, <3>8, <3>9
      <4> HIDE DEF IsFound
      <4> QED BY <1>a, <3>7, <3>9, <4>1
    <3>11. f[n + 1] \subseteq f[k + 1]
      BY <3>9, WalkGrows
    <3> QED BY <3>7, <3>10, <3>11
  <2>7. Len(x) <= k \/ Len(x) = k + 1
    BY <1>0
  <2> QED BY <2>4, <2>5, <2>6, <2>7
<1>3. Nat \subseteq S
  <2> HIDE DEF S
  <2> QED BY <1>1, <1>2, Induction
<1>4. m \in S
  <2> HIDE DEF S
  <2> QED BY <1>3
<1>5. IsFound(e, m)
  <2> HIDE DEF IsFound
  <2> QED BY <1>4
<1> QED
  BY <1>5

(* Every element of a feature type is described.                           *)
LEMMA EachIsDescribed ==
    ASSUME NEW t, IsFeatureType(t), TypesAreAlike(t), NEW e \in DOMAIN t.fields
    PROVE  Describes(t, e)
<1> DEFINE m == Len(t.order)
<1>1. m \in Nat
  BY OrderHasFields
<1>2. PICK f : IsWalk(f, t, m) /\ DescribedTypes(t) = f[m]
  <2> DEFINE walk == CHOOSE f : IsWalk(f, t, m)
  <2>1. IsWalk(walk, t, m)
    BY <1>1, WalkExists
  <2>2. DescribedTypes(t) = walk[m]
    BY DEF DescribedTypes, IsWalk
  <2> HIDE DEF walk
  <2> QED BY <2>1, <2>2
<1> HIDE DEF m
<1>3. CASE Len(e) = 1
  BY <1>3 DEF Describes
<1>4. CASE Len(e) # 1
  <2>1. IsPath(e) /\ Len(e) \in Nat /\ Len(e) > 1
    <3>1. IsPath(e)
      BY FieldIsPath
    <3>2. Len(e) \in Nat /\ Len(e) > 0
      BY <3>1, PathParts
    <3>3. PICK n \in Nat : n = Len(e)
      BY <3>2
    <3>4. n > 1
      BY <1>4, <3>2, <3>3
    <3> QED BY <3>1, <3>3, <3>4
  <2>2. Front(e) \in Complex(t) /\ Len(Front(e)) <= m
    BY <2>1, FieldIsPath, ComplexIsField, DepthIsBounded DEF m
  <2>3. PICK d \in f[m] : TypeName(t, d) = TypeName(t, Front(e))
    BY <1>1, <1>2, <2>2, TypesAreFound
  <2>4. d \in Complex(t)
    <3>1. m \in 0..m
      BY <1>1
    <3> QED BY <1>1, <1>2, <2>3, <3>1, WalkMembers
  <2>5. PICK x \in Children(t, d) : Last(x) = Last(e)
    BY <2>1, <2>3, <2>4, AlikeElement
  <2>6. Append(d, Last(e)) \in DOMAIN t.fields
    <3>1. d \in DOMAIN t.fields
      BY <2>4, ComplexIsField
    <3>2. x \in DOMAIN t.fields /\ Append(d, Last(x)) = x
      BY <2>5, <3>1, ChildParts
    <3> QED BY <2>5, <3>2
  <2> QED BY <1>2, <2>3, <2>6 DEF Describes
<1> QED
  BY <1>3, <1>4

(***************************************************************************)
(* The elements that an XPath may name.                                    *)
(***************************************************************************)

(* Contains tells whether an element is in a sequence.                     *)
LEMMA ContainsElement ==
    ASSUME NEW T, NEW s \in Seq(T), NEW x
    PROVE  Contains(s, x) <=> x \in ToSet(s)
BY DEF Contains, ToSet

(* The base elements are gml:boundedBy and, if it is shown, gml:name.      *)
LEMMA BaseElementsOf ==
    ASSUME NEW t
    PROVE  /\ BaseElements(t) \in Seq({GmlName, BoundedBy})
           /\ \A x : x \in ToSet(BaseElements(t)) <=> x = BoundedBy \/ (t.showName /\ x = GmlName)
<1> DEFINE B == {GmlName, BoundedBy}
<1>a. ASSUME NEW y PROVE /\ <<y>> \in Seq({y})
                         /\ \A x : x \in ToSet(<<y>>) <=> x = y
  BY DEF ToSet
<1>1. /\ <<GmlName>> \in Seq(B) /\ <<>> \in Seq(B) /\ <<BoundedBy>> \in Seq(B)
      /\ \A x : x \in ToSet(<<GmlName>>) <=> x = GmlName
      /\ \A x : x \in ToSet(<<BoundedBy>>) <=> x = BoundedBy
      /\ \A x : x \notin ToSet(<<>>)
  <2>1. \A x : x \in ToSet(<<GmlName>>) <=> x = GmlName
    BY <1>a
  <2>2. \A x : x \in ToSet(<<BoundedBy>>) <=> x = BoundedBy
    BY <1>a
  <2>3. \A x : x \notin ToSet(<<>>)
    BY DEF ToSet
  <2> QED BY <2>1, <2>2, <2>3
<1> HIDE DEF B
<1> DEFINE one == <<GmlName>>
           none == <<>>
           two == <<BoundedBy>>
<1>2. CASE t.showName
  <2>1. BaseElements(t) = <<GmlName>> \o <<BoundedBy>>
    BY <1>2 DEF BaseElements
  <2>2. /\ BaseElements(t) \in Seq(B)
        /\ \A x : x \in ToSet(BaseElements(t)) <=> x \in ToSet(one) \/ x \in ToSet(two)
    <3>1. one \in Seq(B) /\ two \in Seq(B) /\ BaseElements(t) = one \o two
      BY <1>1, <2>1
    <3> HIDE DEF one, two
    <3> QED BY <3>1, ElementsOfConcat
  <2> QED BY <1>1, <1>2, <2>2 DEF B
<1>3. CASE ~t.showName
  <2>1. BaseElements(t) = <<>> \o <<BoundedBy>>
    BY <1>3 DEF BaseElements
  <2>2. /\ BaseElements(t) \in Seq(B)
        /\ \A x : x \in ToSet(BaseElements(t)) <=> x \in ToSet(none) \/ x \in ToSet(two)
    <3>1. none \in Seq(B) /\ two \in Seq(B) /\ BaseElements(t) = none \o two
      BY <1>1, <2>1
    <3> HIDE DEF none, two
    <3> QED BY <3>1, ElementsOfConcat
  <2> QED BY <1>1, <1>3, <2>2 DEF B
<1> QED
  BY <1>2, <1>3

(* They are paths of one name, and no attributes.                          *)
LEMMA BaseIsPath ==
    ASSUME NEW e \in {GmlName, BoundedBy}
    PROVE  IsPath(e) /\ Len(e) = 1 /\ ~IsAttribute(e)
<1>1. ASSUME NEW x PROVE IsPath(<<x>>) /\ Len(<<x>>) = 1 /\ Last(<<x>>) = x
  <2>1. x \in ToSet(<<x>>)
    BY DEF ToSet
  <2> QED BY <2>1 DEF IsPath, Root, Last
<1>2. IsPath(GmlName) /\ Len(GmlName) = 1 /\ Last(GmlName) = "gml:name"
  BY <1>1 DEF GmlName
<1>3. IsPath(BoundedBy) /\ Len(BoundedBy) = 1 /\ Last(BoundedBy) = "gml:boundedBy"
  BY <1>1 DEF BoundedBy
<1> QED
  BY <1>2, <1>3 DEF IsAttribute

(* A gml:id is an attribute, one name longer than what it is of.           *)
LEMMA GmlIdIsPath ==
    ASSUME NEW t, IsFeatureType(t), NEW node \in {Root} \union Complex(t)
    PROVE  /\ IsPath(GmlId(node)) /\ Len(GmlId(node)) = Len(node) + 1 /\ IsAttribute(GmlId(node))
           /\ \A k \in 1..Len(node) : Prefix(GmlId(node), k) = Prefix(node, k)
<1> DEFINE e == GmlId(node)
           T == ToSet(node) \union {"@gml:id"}
<1>1. node \in Seq(T)
  <2>1. CASE node = Root
    BY <2>1 DEF Root
  <2>2. CASE node # Root
    <3>1. node \in Seq(ToSet(node))
      BY <2>2, ComplexIsField, FieldIsPath DEF IsPath
    <3> QED BY <3>1
  <2> QED BY <2>1, <2>2
<1>2. /\ e \in Seq(T) /\ e # <<>> /\ Len(e) = Len(node) + 1
      /\ \A i \in 1..Len(node) : e[i] = node[i]
      /\ e[Len(node) + 1] = "@gml:id"
  BY <1>1, AppendProperties DEF GmlId
<1>3. Len(node) \in Nat /\ DOMAIN e = 1..Len(e)
  BY <1>1, <1>2
<1>4. \A i \in 1..Len(e) : e[i] \in ToSet(e)
  BY <1>3 DEF ToSet
<1>5. e \in Seq(ToSet(e))
  BY <1>2, <1>4
<1>6. IsAttribute(e)
  BY <1>2 DEF IsAttribute, Last, Root
<1> HIDE DEF e
<1>7. ASSUME NEW k \in 1..Len(node) PROVE Prefix(e, k) = Prefix(node, k)
  <2>1. Prefix(e, k) = [i \in 1..k |-> e[i]] /\ Prefix(node, k) = [i \in 1..k |-> node[i]]
    BY <1>1, <1>2, <1>3 DEF Prefix
  <2>2. \A i \in 1..k : e[i] = node[i]
    BY <1>2, <1>3
  <2> QED BY <2>1, <2>2
<1>8. IsPath(e)
  BY <1>2, <1>5 DEF IsPath, Root
<1> QED
  BY <1>2, <1>6, <1>7, <1>8 DEF e

(* An XPath names a field, a base element or a gml:id.                     *)
LEMMA ResolvableKinds ==
    ASSUME NEW t
    PROVE  \A e : e \in Resolvable(t) <=>
                    \/ e \in DOMAIN t.fields
                    \/ e \in ToSet(BaseElements(t))
                    \/ \E node \in {Root} \union Complex(t) : e = GmlId(node)
BY DEF Resolvable

(* What leads to an element that an XPath names can be named, and is       *)
(* complex.                                                                *)
LEMMA ResolvableParts ==
    ASSUME NEW t, IsFeatureType(t), NEW e \in Resolvable(t)
    PROVE  /\ IsPath(e)
           /\ \A k \in 1..Len(e) : /\ Prefix(e, k) \in Resolvable(t)
                                   /\ k < Len(e) => Prefix(e, k) \in Complex(t)
<1>1. CASE e \in DOMAIN t.fields
  <2>1. IsPath(e)
    BY <1>1, FieldIsPath
  <2>2. \A k \in 1..Len(e) : Prefix(e, k) \in DOMAIN t.fields /\ (k < Len(e) => Prefix(e, k) \in Complex(t))
    BY <1>1, ParentsAreComplex
  <2> QED BY <2>1, <2>2, ResolvableKinds
<1>2. CASE e \in ToSet(BaseElements(t))
  <2>1. IsPath(e) /\ Len(e) = 1
    <3>1. e \in {GmlName, BoundedBy}
      BY <1>2, BaseElementsOf
    <3> QED BY <3>1, BaseIsPath
  <2>2. Prefix(e, 1) = e
    BY <2>1, PathParts
  <2>3. \A k \in 1..Len(e) : k = 1 /\ ~(k < Len(e))
    BY <2>1
  <2> QED BY <1>2, <2>1, <2>2, <2>3, ResolvableKinds
<1>3. ASSUME NEW node \in {Root} \union Complex(t), e = GmlId(node)
      PROVE  /\ IsPath(e)
             /\ \A k \in 1..Len(e) : /\ Prefix(e, k) \in Resolvable(t)
                                     /\ k < Len(e) => Prefix(e, k) \in Complex(t)
  <2>1. /\ IsPath(e) /\ Len(e) = Len(node) + 1
        /\ \A k \in 1..Len(node) : Prefix(e, k) = Prefix(node, k)
    BY <1>3, GmlIdIsPath
  <2>2. Len(node) \in Nat
    <3>1. CASE node = Root
      BY <3>1 DEF Root
    <3>2. CASE node # Root
      BY <3>2, ComplexIsField, FieldIsPath, PathParts
    <3> QED BY <3>1, <3>2
  <2>3. ASSUME NEW k \in 1..Len(node) PROVE Prefix(e, k) \in Complex(t) /\ Prefix(e, k) \in DOMAIN t.fields
    <3>1. node \in Complex(t)
      <4>1. node # Root
        <5> SUFFICES ASSUME node = Root PROVE FALSE
          OBVIOUS
        <5> QED BY DEF Root
      <4> QED BY <4>1
    <3>2. node \in DOMAIN t.fields /\ IsPath(node)
      BY <3>1, ComplexIsField, FieldIsPath
    <3>3. Prefix(node, k) \in Complex(t)
      <4>1. CASE k < Len(node)
        BY <3>2, <4>1, ParentsAreComplex
      <4>2. CASE k = Len(node)
        BY <3>1, <3>2, <4>2, PathParts
      <4> QED BY <2>2, <4>1, <4>2
    <3> QED BY <2>1, <3>3, ComplexIsField
  <2>4. ASSUME NEW k \in 1..Len(e)
        PROVE  Prefix(e, k) \in Resolvable(t) /\ (k < Len(e) => Prefix(e, k) \in Complex(t))
    <3>1. CASE k \in 1..Len(node)
      BY <2>3, <3>1, ResolvableKinds
    <3>2. CASE k = Len(e)
      BY <2>1, <3>2, PathParts
    <3> QED BY <2>1, <2>2, <3>1, <3>2
  <2> QED BY <2>1, <2>4
<1> QED
  BY <1>1, <1>2, <1>3, ResolvableKinds

(* The nodes of an element are its prefixes.                               *)
LEMMA NodesOf ==
    ASSUME NEW t, IsFeatureType(t), NEW e \in Resolvable(t)
    PROVE  /\ Nodes(e) \in Seq(Resolvable(t))
           /\ \A x : x \in ToSet(Nodes(e)) <=> \E k \in 1..Len(e) : x = Prefix(e, k)
<1>1. Len(e) \in Nat /\ \A k \in 1..Len(e) : Prefix(e, k) \in Resolvable(t)
  BY ResolvableParts, PathParts
<1>2. Nodes(e) = [k \in 1..Len(e) |-> Prefix(e, k)]
  BY DEF Nodes, Prefix
<1> QED
  BY <1>1, <1>2 DEF ToSet

(***************************************************************************)
(* The projection as sets of elements: what it starts from, what is added  *)
(* and what is removed.                                                    *)
(***************************************************************************)
NamesAreListed == names # None => names \in Seq(ToSet(names))

IsPast(phases) == phase \in phases \/ outcome = "rendered"
Added == IsPast({"remove", "decorate", "query", "render"})
Trimmed == format # "gml" /\ IsPast({"decorate", "query", "render"})

IsNode(x) == \E i \in DOMAIN names : x \in ToSet(Nodes(NamedElements[i]))
Chosen(x) == IF Given THEN IsNode(x) ELSE x \in ToSet(BaseElements(ft)) \/ x \in DOMAIN ft.fields
IsParent(p) ==
    IF Given THEN IsNode(p) /\ \E x \in Resolvable(ft) : IsNode(x) /\ Front(x) = p
    ELSE p \in Complex(ft)
IsExtra(x) == format = "json" /\ Given /\ x = MainGeometry(ft)
Shown(x) == Trimmed => ~Unshown(x)

RootsHold ==
    /\ roots \in Seq(Resolvable(ft))
    /\ \A x : x \in ToSet(roots) <=> ((Chosen(x) /\ Len(x) = 1) \/ (Added /\ IsExtra(x))) /\ Shown(x)
KeysHold ==
    /\ keys \in Seq(Resolvable(ft))
    /\ \A p : p \in ToSet(keys) => IsParent(p)
    /\ \A p : IsParent(p) /\ Shown(p) => p \in ToSet(keys)
ChildrenHold ==
    /\ DOMAIN children = ToSet(keys)
    /\ \A p \in ToSet(keys) :
          /\ children[p] \in Seq(Resolvable(ft))
          /\ \A x : x \in ToSet(children[p]) <=> Chosen(x) /\ Front(x) = p /\ Shown(x)
Holds == RootsHold /\ KeysHold /\ ChildrenHold

OutcomeInv == (outcome = "rendered" => phase = "done") /\ (phase # "done" => outcome = "none")
BindInv ==
    IsPast({"resolve", "project", "add", "remove", "decorate", "query", "render"})
        => MainGeometries(ft) # <<>>
ResolveInv ==
    IsPast({"project", "add", "remove", "decorate", "query", "render"}) /\ Given
        => names # <<>> /\ \A i \in DOMAIN names : NamedElements[i] \in Resolvable(ft)
HoldsInv == IsPast({"add", "remove", "decorate", "query", "render"}) => Holds
Shape == IsFeatureType(ft) /\ NamesAreListed /\ OutcomeInv /\ BindInv /\ ResolveInv /\ HoldsInv

(* The feature types are as they have to be from the beginning.            *)
LEMMA ShapeAtFirst == Init => Shape
<1> SUFFICES ASSUME Init PROVE Shape
  OBVIOUS
<1>1. PICK f \in FeatureTypes : ft = Configured(f)
  BY DEF Init
<1>2. IsFeatureType(ft)
  BY <1>1, FeatureTypesAssumption, ConfiguredIsFeatureType
<1>3. NamesAreListed
  BY <1>1, PropertyNamesAssumption DEF NamesAreListed, Init
<1>4. phase = "bind" /\ outcome = "none"
  BY DEF Init
<1> QED
  BY <1>2, <1>3, <1>4 DEF Shape, OutcomeInv, BindInv, ResolveInv, HoldsInv, IsPast

(* With PROPERTYNAME, the nodes are listed for each property name.         *)
LEMMA NodesAreListed ==
    ASSUME NamesAreListed, Given, IsFeatureType(ft),
           \A i \in DOMAIN names : NamedElements[i] \in Resolvable(ft)
    PROVE  LET nodes == WithoutRepeats(FlattenSeq(
                            [k \in DOMAIN NamedElements |-> Nodes(NamedElements[k])]))
           IN  nodes \in Seq(Resolvable(ft)) /\ \A x : x \in ToSet(nodes) <=> IsNode(x)
<1> DEFINE lists == [k \in DOMAIN NamedElements |-> Nodes(NamedElements[k])]
           R == Resolvable(ft)
<1>1. names \in Seq(ToSet(names)) /\ Len(names) \in Nat /\ DOMAIN names = 1..Len(names)
  <2>1. names # None
    BY DEF Given
  <2>2. names \in Seq(ToSet(names))
    BY <2>1 DEF NamesAreListed
  <2> QED BY <2>2
<1>2. DOMAIN NamedElements = 1..Len(names)
  BY <1>1 DEF NamedElements
<1>3. \A k \in 1..Len(names) : lists[k] = Nodes(NamedElements[k]) /\ lists[k] \in Seq(R)
  BY <1>1, <1>2, NodesOf
<1>4. lists \in [1..Len(names) -> Seq(R)]
  BY <1>2, <1>3
<1> HIDE DEF lists, R
<1>5. /\ FlattenSeq(lists) \in Seq(R)
      /\ \A x : x \in ToSet(FlattenSeq(lists)) <=> IsInOne(x, lists, Len(names))
  BY <1>1, <1>4, Flattening
<1>6. WithoutRepeats(FlattenSeq(lists)) \in Seq(R)
      /\ ToSet(WithoutRepeats(FlattenSeq(lists))) = ToSet(FlattenSeq(lists))
  BY <1>5, EachOnce
<1>7. \A x : IsInOne(x, lists, Len(names)) <=> IsNode(x)
  BY <1>1, <1>3 DEF IsInOne, IsNode
<1> QED
  BY <1>5, <1>6, <1>7 DEF lists, R

(* A node leads to the ones before it.                                     *)
LEMMA NodeParts ==
    ASSUME IsFeatureType(ft), \A i \in DOMAIN names : NamedElements[i] \in Resolvable(ft),
           NEW x, IsNode(x)
    PROVE  /\ x \in Resolvable(ft)
           /\ \A k \in 1..Len(x) : IsNode(Prefix(x, k))
<1>1. PICK i \in DOMAIN names : x \in ToSet(Nodes(NamedElements[i]))
  BY DEF IsNode
<1>2. PICK k \in 1..Len(NamedElements[i]) : x = Prefix(NamedElements[i], k)
  BY <1>1, NodesOf
<1>3. IsPath(NamedElements[i]) /\ x \in Resolvable(ft)
  BY <1>2, ResolvableParts
<1>4. Len(x) = k /\ \A j \in 1..k : Prefix(x, j) = Prefix(NamedElements[i], j)
  BY <1>2, <1>3, PrefixParts
<1>5. ASSUME NEW j \in 1..Len(x) PROVE IsNode(Prefix(x, j))
  <2>1. j \in 1..Len(NamedElements[i])
    BY <1>3, <1>4, PathParts
  <2>2. Prefix(x, j) = Prefix(NamedElements[i], j)
    BY <1>4
  <2>3. Prefix(x, j) \in ToSet(Nodes(NamedElements[i]))
    BY <2>1, <2>2, NodesOf
  <2> QED BY <2>3 DEF IsNode
<1> QED
  BY <1>3, <1>5

(* The request stays what it is, and so does what is told from it.         *)
LEMMA RequestStays ==
    ASSUME UNCHANGED request
    PROVE  /\ (Given' <=> Given) /\ NamedElements' = NamedElements
           /\ \A x : (IsNode(x)' <=> IsNode(x)) /\ (Chosen(x)' <=> Chosen(x))
           /\ \A x : (IsParent(x)' <=> IsParent(x)) /\ (IsExtra(x)' <=> IsExtra(x))
           /\ \A x : Unshown(x)' <=> Unshown(x)
<1>1. ft' = ft /\ names' = names /\ format' = format
  BY DEF request
<1>2. (Given' <=> Given) /\ NamedElements' = NamedElements
  BY <1>1 DEF Given, NamedElements
<1>3. \A x : IsNode(x)' <=> IsNode(x)
  BY <1>1, <1>2 DEF IsNode
<1>4. \A x : (Chosen(x)' <=> Chosen(x)) /\ (IsParent(x)' <=> IsParent(x))
  BY <1>1, <1>2, <1>3 DEF Chosen, IsParent
<1>5. \A x : (IsExtra(x)' <=> IsExtra(x)) /\ (Unshown(x)' <=> Unshown(x))
  BY <1>1, <1>2 DEF IsExtra, Unshown
<1> QED
  BY <1>2, <1>3, <1>4, <1>5

(* An element is at the root when its path has one name.                   *)
LEMMA FrontOfOne ==
    ASSUME NEW e, IsPath(e)
    PROVE  Front(e) = Root <=> Len(e) = 1
<1>1. Len(Front(e)) = Len(e) - 1 /\ Len(e) \in Nat /\ Len(e) > 0 /\ Front(e) = Prefix(e, Len(e) - 1)
  BY FrontAndLast, PathParts
<1>2. CASE Len(e) = 1
  <2>1. Front(e) = Prefix(e, 0)
    BY <1>1, <1>2
  <2>2. Prefix(e, 0) = <<>>
    BY SubSeqEmpty DEF Prefix
  <2> QED BY <1>2, <2>1, <2>2 DEF Root
<1>3. CASE Front(e) = Root
  <2>1. Len(Front(e)) = 0
    BY <1>3 DEF Root
  <2> QED BY <1>1, <1>3, <2>1
<1> QED
  BY <1>2, <1>3

(* Each field can be named.                                                *)
LEMMA FieldsAreResolvable ==
    ASSUME NEW t, NEW s \in Seq(DOMAIN t.fields)
    PROVE  s \in Seq(Resolvable(t))
BY DEF Resolvable

(* With PROPERTYNAME, __init__ takes the nodes of the elements that are    *)
(* named.                                                                  *)
LEMMA ProjectGiven ==
    ASSUME Shape, Project, Given
    PROVE  /\ roots' \in Seq(Resolvable(ft)) /\ keys' \in Seq(Resolvable(ft))
           /\ DOMAIN children' = ToSet(keys')
           /\ \A x : x \in ToSet(roots') <=> Chosen(x) /\ Len(x) = 1
           /\ \A x : x \in ToSet(keys') <=> IsParent(x)
           /\ \A p \in ToSet(keys') :
                 /\ children'[p] \in Seq(Resolvable(ft))
                 /\ \A x : x \in ToSet(children'[p]) <=> Chosen(x) /\ Front(x) = p
<1> DEFINE nodes == WithoutRepeats(FlattenSeq(
                        [k \in DOMAIN NamedElements |-> Nodes(NamedElements[k])]))
           R == Resolvable(ft)
           ones == {e \in ToSet(nodes) : Len(e) = 1}
           fronts == {Front(e) : e \in ToSet(nodes)}
           Of(p) == {e \in ToSet(nodes) : Front(e) = p}
<1>1. IsFeatureType(ft) /\ \A i \in DOMAIN names : NamedElements[i] \in Resolvable(ft)
  BY DEF Shape, ResolveInv, IsPast, Project
<1>2. nodes \in Seq(R) /\ \A x : x \in ToSet(nodes) <=> IsNode(x)
  BY <1>1, NodesAreListed DEF Shape
<1>3. /\ roots' = Only(nodes, ones)
      /\ keys' = Only(nodes, fronts)
      /\ children' = [p \in ToSet(keys') |-> Only(nodes, Of(p))]
  BY DEF Project
<1> HIDE DEF nodes
<1>4. \A x : IsNode(x) => x \in R
  BY <1>1, NodeParts
<1>5. \A x : x \in fronts <=> \E e \in R : IsNode(e) /\ Front(e) = x
  BY <1>2, <1>4
<1>6. \A x : x \in ones <=> IsNode(x) /\ Len(x) = 1
  BY <1>2
<1>7. \A p, x : x \in Of(p) <=> IsNode(x) /\ Front(x) = p
  BY <1>2
<1> HIDE DEF ones, fronts, Of, R
<1>8. roots' \in Seq(R) /\ \A x : x \in ToSet(roots') <=> Chosen(x) /\ Len(x) = 1
  BY <1>2, <1>3, <1>6, OnlyThose DEF Chosen
<1>9. keys' \in Seq(R) /\ \A x : x \in ToSet(keys') <=> x \in ToSet(nodes) /\ x \in fronts
  BY <1>2, <1>3, OnlyThose
<1>10. \A x : x \in ToSet(keys') <=> IsParent(x)
  BY <1>2, <1>5, <1>9 DEF IsParent, R
<1>11. ASSUME NEW p \in ToSet(keys')
       PROVE  /\ children'[p] \in Seq(R)
              /\ \A x : x \in ToSet(children'[p]) <=> Chosen(x) /\ Front(x) = p
  <2>1. children'[p] = Only(nodes, Of(p))
    BY <1>3
  <2> QED BY <1>2, <1>7, <2>1, OnlyThose DEF Chosen
<1>12. DOMAIN children' = ToSet(keys')
  BY <1>3
<1> QED
  BY <1>8, <1>9, <1>10, <1>11, <1>12 DEF R

(* Without it, it takes the base elements and all fields.                  *)
LEMMA ProjectAll ==
    ASSUME Shape, Project, ~Given
    PROVE  /\ roots' \in Seq(Resolvable(ft)) /\ keys' \in Seq(Resolvable(ft))
           /\ DOMAIN children' = ToSet(keys')
           /\ \A x : x \in ToSet(roots') <=> Chosen(x) /\ Len(x) = 1
           /\ \A x : x \in ToSet(keys') <=> IsParent(x)
           /\ \A p \in ToSet(keys') :
                 /\ children'[p] \in Seq(Resolvable(ft))
                 /\ \A x : x \in ToSet(children'[p]) <=> Chosen(x) /\ Front(x) = p
<1> DEFINE R == Resolvable(ft)
<1>1. IsFeatureType(ft)
  BY DEF Shape
<1>2. /\ roots' = ElementsIncludingBase(ft) /\ keys' = AllComplexElements(ft)
      /\ children' = [p \in ToSet(keys') |-> Elements(ft, p)]
  BY DEF Project
<1>3. \A x : x \in DOMAIN ft.fields => x \in R
  BY DEF Resolvable
<1>4. \A x : x \in ToSet(BaseElements(ft)) => x \in R /\ IsPath(x) /\ Len(x) = 1 /\ Front(x) = Root
  <2>1. \A x : x \in ToSet(BaseElements(ft)) => x \in {GmlName, BoundedBy}
    BY BaseElementsOf
  <2>2. \A x \in {GmlName, BoundedBy} : IsPath(x) /\ Len(x) = 1
    BY BaseIsPath
  <2>3. \A x : x \in ToSet(BaseElements(ft)) => x \in R
    BY ResolvableKinds
  <2> QED BY <2>1, <2>2, <2>3, FrontOfOne
<1>5. BaseElements(ft) \in Seq(R)
  <2>1. BaseElements(ft) \in Seq({GmlName, BoundedBy})
    BY BaseElementsOf
  <2>2. \A i \in 1..Len(BaseElements(ft)) : BaseElements(ft)[i] \in R
    BY <1>4, <2>1 DEF ToSet
  <2> QED BY <2>1, <2>2
<1>6. \A p : /\ Elements(ft, p) \in Seq(R)
             /\ \A x : x \in ToSet(Elements(ft, p)) <=> x \in DOMAIN ft.fields /\ Front(x) = p
  BY <1>1, ElementsOf, FieldsAreResolvable DEF Children
<1> HIDE DEF R
<1>7. /\ roots' \in Seq(R)
      /\ \A x : x \in ToSet(roots')
                <=> x \in ToSet(BaseElements(ft)) \/ x \in ToSet(Elements(ft, Root))
  BY <1>2, <1>5, <1>6, ElementsOfConcat DEF ElementsIncludingBase
<1>8. \A x \in DOMAIN ft.fields : IsPath(x)
  BY <1>1, FieldIsPath
<1>9. \A x \in DOMAIN ft.fields : Front(x) = Root <=> Len(x) = 1
  BY <1>8, FrontOfOne
<1>10. \A x : x \in ToSet(roots') <=> Chosen(x) /\ Len(x) = 1
  BY <1>4, <1>6, <1>7, <1>9 DEF Chosen
<1>11. keys' \in Seq(R) /\ \A x : x \in ToSet(keys') <=> x \in Complex(ft)
  BY <1>1, <1>2, ComplexElementsOf, FieldsAreResolvable DEF R
<1>12. ASSUME NEW p \in ToSet(keys')
       PROVE  /\ children'[p] \in Seq(R)
              /\ \A x : x \in ToSet(children'[p]) <=> Chosen(x) /\ Front(x) = p
  <2>1. children'[p] = Elements(ft, p)
    BY <1>2
  <2>2. p # Root
    BY <1>8, <1>11, ComplexIsField DEF IsPath
  <2> QED BY <1>4, <1>6, <2>1, <2>2 DEF Chosen
<1>13. DOMAIN children' = ToSet(keys')
  BY <1>2
<1> QED
  BY <1>7, <1>10, <1>11, <1>12, <1>13 DEF R, IsParent

(* So the projection that __init__ builds is what Holds says.              *)
LEMMA ProjectHolds ==
    ASSUME Shape, Project
    PROVE  Holds'
<1>1. /\ roots' \in Seq(Resolvable(ft)) /\ keys' \in Seq(Resolvable(ft))
      /\ DOMAIN children' = ToSet(keys')
      /\ \A x : x \in ToSet(roots') <=> Chosen(x) /\ Len(x) = 1
      /\ \A x : x \in ToSet(keys') <=> IsParent(x)
      /\ \A p \in ToSet(keys') :
            /\ children'[p] \in Seq(Resolvable(ft))
            /\ \A x : x \in ToSet(children'[p]) <=> Chosen(x) /\ Front(x) = p
  BY ProjectGiven, ProjectAll
<1>2. UNCHANGED request /\ ft' = ft
  BY DEF Project, request
<1>3. Added' = FALSE /\ Trimmed' = FALSE
  BY DEF Project, Shape, OutcomeInv, Added, Trimmed, IsPast
<1>4. \A x : Shown(x)'
  BY <1>3 DEF Shown
<1>5. \A x : (Chosen(x)' <=> Chosen(x)) /\ (IsParent(x)' <=> IsParent(x))
  BY <1>2, RequestStays
<1>6. RootsHold'
  BY <1>1, <1>2, <1>3, <1>4, <1>5 DEF RootsHold
<1>7. KeysHold'
  BY <1>1, <1>2, <1>4, <1>5 DEF KeysHold
<1>8. ChildrenHold'
  BY <1>1, <1>2, <1>4, <1>5 DEF ChildrenHold
<1> QED
  BY <1>6, <1>7, <1>8 DEF Holds

(* add_field() adds the main geometry, if it is not there, and nothing     *)
(* else.                                                                   *)
LEMMA AddFieldHolds ==
    ASSUME Shape, AddField
    PROVE  Holds'
<1>1. phase = "add" /\ outcome = "none" /\ outcome' = "none" /\ phase' = "remove"
  BY DEF AddField, Shape, OutcomeInv
<1>2. RootsHold /\ KeysHold /\ ChildrenHold /\ IsFeatureType(ft) /\ MainGeometries(ft) # <<>>
  BY <1>1 DEF Shape, HoldsInv, Holds, BindInv, IsPast
<1>3. UNCHANGED request /\ ft' = ft /\ UNCHANGED <<keys, children>>
  BY DEF AddField, request
<1>4. ~Added /\ ~Trimmed /\ Added' /\ ~Trimmed'
  BY <1>1 DEF Added, Trimmed, IsPast
<1>5. \A x : Shown(x) /\ Shown(x)'
  BY <1>4 DEF Shown
<1>6. \A x : /\ (Chosen(x)' <=> Chosen(x)) /\ (IsParent(x)' <=> IsParent(x))
             /\ (IsExtra(x)' <=> IsExtra(x))
  BY <1>3, RequestStays
<1>7. KeysHold'
  BY <1>2, <1>3, <1>5, <1>6 DEF KeysHold
<1>8. ChildrenHold'
  BY <1>2, <1>3, <1>5, <1>6 DEF ChildrenHold
<1>9. MainGeometry(ft) \in Resolvable(ft)
  BY <1>2, MainGeometryIsField DEF Geometries, Resolvable
<1>10. roots \in Seq(Resolvable(ft)) /\ \A x : x \in ToSet(roots) <=> Chosen(x) /\ Len(x) = 1
  BY <1>2, <1>4, <1>5 DEF RootsHold
<1>11. roots' \in Seq(Resolvable(ft)) /\ \A x : x \in ToSet(roots') <=> x \in ToSet(roots) \/ IsExtra(x)
  <2>1. CASE format = "json" /\ Given /\ ~Contains(roots, MainGeometry(ft))
    <3>1. roots' = Append(roots, MainGeometry(ft))
      BY <2>1 DEF AddField
    <3>2. roots' = roots \o <<MainGeometry(ft)>> /\ <<MainGeometry(ft)>> \in Seq(Resolvable(ft))
      BY <1>9, <1>10, <3>1
    <3>3. /\ roots' \in Seq(Resolvable(ft))
          /\ \A x : x \in ToSet(roots') <=> x \in ToSet(roots) \/ x \in ToSet(<<MainGeometry(ft)>>)
      <4> DEFINE last == <<MainGeometry(ft)>>
      <4>1. last \in Seq(Resolvable(ft)) /\ roots' = roots \o last
        BY <3>2
      <4> HIDE DEF last
      <4>2. /\ roots' \in Seq(Resolvable(ft))
            /\ \A x : x \in ToSet(roots') <=> x \in ToSet(roots) \/ x \in ToSet(last)
        BY <1>10, <4>1, ElementsOfConcat
      <4> QED BY <4>2 DEF last
    <3>4. \A x : x \in ToSet(<<MainGeometry(ft)>>) <=> x = MainGeometry(ft)
      BY DEF ToSet
    <3> QED BY <2>1, <3>3, <3>4 DEF IsExtra
  <2>2. CASE ~(format = "json" /\ Given /\ ~Contains(roots, MainGeometry(ft)))
    <3>1. roots' = roots
      BY <2>2 DEF AddField
    <3>2. \A x : IsExtra(x) => x \in ToSet(roots)
      BY <1>10, <2>2, ContainsElement DEF IsExtra
    <3> QED BY <1>10, <3>1, <3>2
  <2> QED BY <2>1, <2>2
<1>12. RootsHold'
  BY <1>3, <1>4, <1>5, <1>6, <1>10, <1>11 DEF RootsHold
<1> QED
  BY <1>7, <1>8, <1>12 DEF Holds

(* The elements that are removed with the first keys.                      *)
IsRemoval(f, m) ==
    f = [k \in 0..m |-> IF k = 0 THEN {e \in ToSet(roots) : Unshown(e)}
                        ELSE f[k - 1] \union
                             (IF keys[k] \in f[k - 1] THEN {}
                              ELSE {e \in ToSet(children[keys[k]]) : Unshown(e)})]

(* The function that RemovedKeys is defined by exists.                     *)
LEMMA RemovalExists == ASSUME NEW m \in Nat PROVE \E f : IsRemoval(f, m)
<1> DEFINE First == {e \in ToSet(roots) : Unshown(e)}
           Onward(k, F) == F \union (IF keys[k] \in F THEN {}
                                     ELSE {e \in ToSet(children[keys[k]]) : Unshown(e)})
           S == {n \in Nat : \E f : f = [k \in 0..n |-> IF k = 0 THEN First ELSE Onward(k, f[k - 1])]}
<1> HIDE DEF First, Onward
<1>1. 0 \in S
  <2> DEFINE f == [k \in 0..0 |-> First]
  <2>1. \A k \in 0..0 : k = 0
    OBVIOUS
  <2>2. f = [k \in 0..0 |-> IF k = 0 THEN First ELSE Onward(k, f[k - 1])]
    BY <2>1
  <2> HIDE DEF f
  <2> QED BY <2>2
<1>2. ASSUME NEW n \in Nat, n \in S PROVE n + 1 \in S
  <2>1. PICK f : f = [k \in 0..n |-> IF k = 0 THEN First ELSE Onward(k, f[k - 1])]
    BY <1>2
  <2> DEFINE g == [k \in 0..(n + 1) |-> IF k = n + 1 THEN Onward(k, f[n]) ELSE f[k]]
  <2>2. \A k \in 0..n : f[k] = IF k = 0 THEN First ELSE Onward(k, f[k - 1])
    BY <2>1
  <2>3. ASSUME NEW k \in 0..(n + 1)
        PROVE  g[k] = IF k = 0 THEN First ELSE Onward(k, g[k - 1])
    <3>1. CASE k = n + 1
      <4>1. k # 0 /\ k - 1 = n /\ n \in 0..(n + 1) /\ n # n + 1
        BY <3>1
      <4>2. g[k - 1] = f[n] /\ g[k] = Onward(k, f[n])
        BY <3>1, <4>1
      <4> QED BY <4>1, <4>2
    <3>2. CASE k # n + 1
      <4>1. k \in 0..n /\ g[k] = f[k]
        BY <3>2
      <4>2. CASE k # 0
        <5>1. k - 1 \in 0..(n + 1) /\ k - 1 # n + 1
          BY <3>2, <4>2
        <5>2. g[k - 1] = f[k - 1]
          BY <5>1
        <5> QED BY <2>2, <4>1, <4>2, <5>2
      <4> QED BY <2>2, <4>1, <4>2
    <3> QED BY <3>1, <3>2
  <2>4. g = [k \in 0..(n + 1) |-> g[k]]
    OBVIOUS
  <2> HIDE DEF g
  <2>5. g = [k \in 0..(n + 1) |-> IF k = 0 THEN First ELSE Onward(k, g[k - 1])]
    BY <2>3, <2>4
  <2> QED BY <2>5
<1>3. Nat \subseteq S
  <2> HIDE DEF S
  <2> QED BY <1>1, <1>2, Induction
<1> QED
  BY <1>3 DEF IsRemoval, First, Onward

(* remove_fields() drops no key of an element that the format shows.       *)
LEMMA RemovedAreUnshown ==
    ASSUME Len(keys) \in Nat
    PROVE  \A e \in RemovedKeys : Unshown(e)
<1> DEFINE f == CHOOSE f : IsRemoval(f, Len(keys))
<1>1. IsRemoval(f, Len(keys))
  BY RemovalExists
<1>2. RemovedKeys = f[Len(keys)]
  BY DEF RemovedKeys, IsRemoval
<1> HIDE DEF f
<1>3. \A k \in 0..Len(keys) :
         f[k] = IF k = 0 THEN {e \in ToSet(roots) : Unshown(e)}
                ELSE f[k - 1] \union
                     (IF keys[k] \in f[k - 1] THEN {}
                      ELSE {e \in ToSet(children[keys[k]]) : Unshown(e)})
  BY <1>1 DEF IsRemoval
<1> DEFINE Fine(k) == \A e \in f[k] : Unshown(e)
           S == {k \in Nat : k <= Len(keys) => Fine(k)}
<1>4. 0 \in S
  <2>1. 0 \in 0..Len(keys)
    OBVIOUS
  <2>2. f[0] = {e \in ToSet(roots) : Unshown(e)}
    BY <1>3, <2>1
  <2> QED BY <2>2
<1>5. ASSUME NEW k \in Nat, k \in S PROVE k + 1 \in S
  <2> SUFFICES ASSUME k + 1 <= Len(keys) PROVE Fine(k + 1)
    <3> HIDE DEF Fine
    <3> QED OBVIOUS
  <2>1. Fine(k)
    <3> HIDE DEF Fine
    <3> QED BY <1>5
  <2>2. k + 1 \in 0..Len(keys) /\ k + 1 # 0 /\ (k + 1) - 1 = k
    OBVIOUS
  <2>3. f[k + 1] = f[k] \union
             (IF keys[k + 1] \in f[k] THEN {}
              ELSE {e \in ToSet(children[keys[k + 1]]) : Unshown(e)})
    BY <1>3, <2>2
  <2> QED BY <2>1, <2>3
<1>6. Nat \subseteq S
  <2> HIDE DEF S
  <2> QED BY <1>4, <1>5, Induction
<1>7. Fine(Len(keys))
  <2> HIDE DEF Fine
  <2> QED BY <1>6
<1> QED
  BY <1>2, <1>7

(* remove_fields() takes away the elements that the format cannot show.    *)
LEMMA RemoveFieldsHolds ==
    ASSUME Shape, RemoveFields
    PROVE  Holds'
<1>1. phase = "remove" /\ outcome = "none" /\ outcome' = "none" /\ phase' = "decorate"
  BY DEF RemoveFields, Shape, OutcomeInv
<1>2. RootsHold /\ KeysHold /\ ChildrenHold
  BY <1>1 DEF Shape, HoldsInv, Holds, IsPast
<1>3. UNCHANGED request /\ ft' = ft /\ format' = format
  BY DEF RemoveFields, request
<1>4. Added /\ ~Trimmed /\ Added' /\ (Trimmed' <=> format # "gml")
  BY <1>1, <1>3 DEF Added, Trimmed, IsPast
<1>5. \A x : /\ (Chosen(x)' <=> Chosen(x)) /\ (IsParent(x)' <=> IsParent(x))
             /\ (IsExtra(x)' <=> IsExtra(x)) /\ (Unshown(x)' <=> Unshown(x))
  BY <1>3, RequestStays
<1>6. \A x : Shown(x) /\ (Shown(x)' <=> (format # "gml" => ~Unshown(x)))
  BY <1>4, <1>5 DEF Shown
<1>7. /\ roots \in Seq(Resolvable(ft)) /\ keys \in Seq(Resolvable(ft))
      /\ DOMAIN children = ToSet(keys)
      /\ \A x : x \in ToSet(roots) <=> (Chosen(x) /\ Len(x) = 1) \/ IsExtra(x)
      /\ \A x : x \in ToSet(keys) <=> IsParent(x)
      /\ \A p \in ToSet(keys) :
            /\ children[p] \in Seq(Resolvable(ft))
            /\ \A x : x \in ToSet(children[p]) <=> Chosen(x) /\ Front(x) = p
  <2>1. /\ roots \in Seq(Resolvable(ft))
        /\ \A x : x \in ToSet(roots) <=> (Chosen(x) /\ Len(x) = 1) \/ IsExtra(x)
    BY <1>2, <1>4, <1>6 DEF RootsHold
  <2>2. keys \in Seq(Resolvable(ft)) /\ \A x : x \in ToSet(keys) <=> IsParent(x)
    BY <1>2, <1>6 DEF KeysHold
  <2> QED BY <1>2, <1>6, <2>1, <2>2 DEF ChildrenHold
<1> DEFINE R == Resolvable(ft)
<1>8. /\ roots' \in Seq(R)
      /\ \A x : x \in ToSet(roots') <=> x \in ToSet(roots) /\ (format # "gml" => ~Unshown(x))
  <2>1. CASE format = "gml"
    BY <1>7, <2>1 DEF RemoveFields
  <2>2. CASE format # "gml"
    <3>1. roots' = Only(roots, {e \in ToSet(roots) : ~Unshown(e)})
      BY <2>2 DEF RemoveFields, Kept
    <3> HIDE DEF R
    <3>2. roots \in Seq(R)
      BY <1>7 DEF R
    <3> QED BY <2>2, <3>1, <3>2, OnlyThose
  <2> QED BY <2>1, <2>2
<1>9. /\ keys' \in Seq(R)
      /\ \A x : x \in ToSet(keys') => x \in ToSet(keys)
      /\ \A x : x \in ToSet(keys) /\ (format # "gml" => ~Unshown(x)) => x \in ToSet(keys')
  <2>1. CASE format = "gml"
    BY <1>7, <2>1 DEF RemoveFields
  <2>2. CASE format # "gml"
    <3>1. keys' = Only(keys, ToSet(keys) \ RemovedKeys)
      BY <2>2 DEF RemoveFields
    <3>2. \A e \in RemovedKeys : Unshown(e)
      <4>1. Len(keys) \in Nat
        BY <1>7
      <4> QED BY <4>1, RemovedAreUnshown
    <3> HIDE DEF R
    <3>3. keys \in Seq(R)
      BY <1>7 DEF R
    <3>4. keys' \in Seq(R) /\ \A x : x \in ToSet(keys') <=> x \in ToSet(keys) /\ x \in ToSet(keys) \ RemovedKeys
      BY <3>1, <3>3, OnlyThose
    <3> QED BY <2>2, <3>2, <3>4
  <2> QED BY <2>1, <2>2
<1>10. DOMAIN children' = ToSet(keys')
  <2>1. CASE format = "gml"
    BY <1>7, <2>1 DEF RemoveFields
  <2>2. CASE format # "gml"
    BY <2>2 DEF RemoveFields
  <2> QED BY <2>1, <2>2
<1>11. ASSUME NEW p \in ToSet(keys')
       PROVE  /\ children'[p] \in Seq(R)
              /\ \A x : x \in ToSet(children'[p])
                        <=> x \in ToSet(children[p]) /\ (format # "gml" => ~Unshown(x))
  <2>a. children[p] \in Seq(R)
    BY <1>7, <1>9
  <2>1. CASE format = "gml"
    BY <2>a, <2>1 DEF RemoveFields
  <2>2. CASE format # "gml"
    <3>1. children'[p] = Only(children[p], {e \in ToSet(children[p]) : ~Unshown(e)})
      BY <2>2 DEF RemoveFields, Kept
    <3> HIDE DEF R
    <3> QED BY <2>a, <2>2, <3>1, OnlyThose
  <2> QED BY <2>1, <2>2
<1>12. RootsHold'
  <2>1. \A x : x \in ToSet(roots')
               <=> ((Chosen(x) /\ Len(x) = 1) \/ IsExtra(x)) /\ (format # "gml" => ~Unshown(x))
    BY <1>7, <1>8
  <2> QED BY <1>3, <1>4, <1>5, <1>6, <1>8, <2>1 DEF RootsHold
<1>13. KeysHold'
  BY <1>3, <1>5, <1>6, <1>7, <1>9 DEF KeysHold
<1>14. ChildrenHold'
  <2>1. \A p \in ToSet(keys') : \A x : x \in ToSet(children'[p])
               <=> Chosen(x) /\ Front(x) = p /\ (format # "gml" => ~Unshown(x))
    BY <1>7, <1>9, <1>11
  <2> QED BY <1>3, <1>5, <1>6, <1>10, <1>11, <2>1 DEF ChildrenHold
<1> QED
  BY <1>12, <1>13, <1>14 DEF Holds

(* What leaves the projection alone, and is neither after add_field() nor  *)
(* after remove_fields(), leaves it as it is.                              *)
LEMMA ProjectionStays ==
    ASSUME UNCHANGED <<request, roots, keys, children>>, Added' <=> Added, Trimmed' <=> Trimmed, Holds
    PROVE  Holds'
<1>1. UNCHANGED request /\ UNCHANGED <<roots, keys, children>> /\ ft' = ft
  BY DEF request
<1>2. \A x : /\ (Chosen(x)' <=> Chosen(x)) /\ (IsParent(x)' <=> IsParent(x))
             /\ (IsExtra(x)' <=> IsExtra(x)) /\ (Unshown(x)' <=> Unshown(x))
  BY <1>1, RequestStays
<1>3. \A x : Shown(x)' <=> Shown(x)
  BY <1>2 DEF Shown
<1>4. RootsHold'
  BY <1>1, <1>2, <1>3 DEF Holds, RootsHold
<1>5. KeysHold'
  BY <1>1, <1>2, <1>3 DEF Holds, KeysHold
<1>6. ChildrenHold'
  BY <1>1, <1>2, <1>3 DEF Holds, ChildrenHold
<1> QED
  BY <1>4, <1>5, <1>6 DEF Holds

RequestInv ==
    /\ MainGeometries(ft) # <<>>
    /\ Given => names # <<>> /\ \A i \in DOMAIN names : NamedElements[i] \in Resolvable(ft)

(* What was found out about the request stays true of it.                  *)
LEMMA RequestInvStays ==
    ASSUME UNCHANGED request
    PROVE  /\ IsFeatureType(ft)' <=> IsFeatureType(ft)
           /\ NamesAreListed' <=> NamesAreListed
           /\ RequestInv' <=> RequestInv
<1>1. ft' = ft /\ names' = names
  BY DEF request
<1>2. (Given' <=> Given) /\ NamedElements' = NamedElements
  BY RequestStays
<1>3. NamesAreListed' <=> NamesAreListed
  BY <1>1 DEF NamesAreListed
<1>4. RequestInv' <=> RequestInv
  BY <1>1, <1>2 DEF RequestInv
<1> QED
  BY <1>1, <1>3, <1>4

(* A request that fails leaves nothing to be shown.                        *)
LEMMA FailKeepsShape ==
    ASSUME Shape, NEW how \in {"refused", "crashed"}, Fail(how)
    PROVE  Shape'
<1>1. UNCHANGED request /\ phase' = "done" /\ outcome' = how
  BY DEF Fail
<1>2. IsFeatureType(ft)' /\ NamesAreListed'
  BY <1>1, RequestInvStays DEF Shape
<1>3. OutcomeInv' /\ BindInv' /\ ResolveInv' /\ HoldsInv'
  BY <1>1 DEF OutcomeInv, BindInv, ResolveInv, HoldsInv, IsPast
<1> QED
  BY <1>2, <1>3 DEF Shape

(* From Project on, a step that keeps the projection right keeps Shape.    *)
LEMMA StepKeepsShape ==
    ASSUME Shape, phase \in {"project", "add", "remove", "decorate", "query", "render"},
           UNCHANGED request, Holds',
           \/ /\ phase' \in {"add", "remove", "decorate", "query", "render"}
              /\ outcome' = outcome
           \/ phase' = "done" /\ outcome' = "rendered"
    PROVE  Shape'
<1>1. RequestInv
  BY DEF Shape, BindInv, ResolveInv, IsPast, RequestInv
<1>2. IsFeatureType(ft)' /\ NamesAreListed' /\ RequestInv'
  BY <1>1, RequestInvStays DEF Shape
<1>3. outcome = "none"
  BY DEF Shape, OutcomeInv
<1>4. OutcomeInv'
  BY <1>3 DEF OutcomeInv
<1>5. BindInv' /\ ResolveInv'
  BY <1>2 DEF BindInv, ResolveInv, RequestInv
<1>6. HoldsInv'
  BY DEF HoldsInv
<1> QED
  BY <1>2, <1>4, <1>5, <1>6 DEF Shape

(* After bind() there is a main geometry.                                  *)
LEMMA BindKeepsShape == Shape /\ Bind => Shape'
<1> SUFFICES ASSUME Shape, Bind PROVE Shape'
  OBVIOUS
<1>1. CASE Misconfigured
  <2>1. Fail("crashed")
    BY <1>1 DEF Bind
  <2> QED BY <2>1, FailKeepsShape
<1>2. CASE ~Misconfigured
  <2>1. /\ phase = "bind" /\ phase' = "resolve" /\ UNCHANGED request /\ outcome' = outcome
        /\ MainGeometries(ft) # <<>> /\ ft' = ft
    BY <1>2 DEF Bind, Misconfigured, request
  <2>2. outcome = "none"
    BY <2>1 DEF Shape, OutcomeInv
  <2>3. IsFeatureType(ft)' /\ NamesAreListed'
    BY <2>1, RequestInvStays DEF Shape
  <2>4. BindInv'
    BY <2>1 DEF BindInv
  <2>5. OutcomeInv' /\ ResolveInv' /\ HoldsInv'
    BY <2>1, <2>2 DEF OutcomeInv, ResolveInv, HoldsInv, IsPast
  <2> QED BY <2>3, <2>4, <2>5 DEF Shape
<1> QED
  BY <1>1, <1>2

(* After decorate_query() each property name is that of an element.        *)
LEMMA ResolveKeepsShape == Shape /\ Resolve => Shape'
<1> SUFFICES ASSUME Shape, Resolve PROVE Shape'
  OBVIOUS
<1> DEFINE faulty == {n \in ToSet(names) : NotImplementedXPath(ft, n) \/ UnknownXPath(ft, n)}
<1>1. CASE Given /\ faulty # {}
  <2>1. Fail("refused") \/ Fail("crashed")
    BY <1>1 DEF Resolve
  <2> QED BY <2>1, FailKeepsShape
<1>2. CASE ~(Given /\ faulty # {})
  <2>1. phase = "resolve" /\ phase' = "project" /\ UNCHANGED request /\ outcome' = outcome
    BY <1>2 DEF Resolve
  <2>2. outcome = "none" /\ MainGeometries(ft) # <<>>
    BY <2>1 DEF Shape, OutcomeInv, BindInv, IsPast
  <2>3. RequestInv
    <3> SUFFICES ASSUME Given
                 PROVE  names # <<>> /\ \A i \in DOMAIN names : NamedElements[i] \in Resolvable(ft)
      BY <2>2 DEF RequestInv
    <3>1. names # <<>> /\ faulty = {}
      BY <1>2 DEF Given
    <3>2. ASSUME NEW i \in DOMAIN names PROVE NamedElements[i] \in Resolvable(ft)
      <4>1. names[i] \in ToSet(names)
        BY DEF ToSet
      <4>2. ~NotImplementedXPath(ft, names[i]) /\ ~UnknownXPath(ft, names[i])
        BY <3>1, <4>1
      <4>3. Resolved(ft, names[i]) \in Resolvable(ft)
        BY <4>2 DEF NotImplementedXPath, UnknownXPath
      <4> QED BY <4>3 DEF NamedElements
    <3> QED BY <3>1, <3>2
  <2>4. IsFeatureType(ft)' /\ NamesAreListed' /\ RequestInv'
    BY <2>1, <2>3, RequestInvStays DEF Shape
  <2>5. BindInv' /\ ResolveInv'
    BY <2>4 DEF BindInv, ResolveInv, RequestInv
  <2>6. OutcomeInv' /\ HoldsInv'
    BY <2>1, <2>2 DEF OutcomeInv, HoldsInv, IsPast
  <2> QED BY <2>4, <2>5, <2>6 DEF Shape
<1> QED
  BY <1>1, <1>2

(* decorate_queryset() leaves the projection as it is.                     *)
LEMMA DecorateKeepsShape == Shape /\ Decorate => Shape'
<1> SUFFICES ASSUME Shape, Decorate PROVE Shape'
  OBVIOUS
<1>1. CASE names = <<>> \/ NoAttribute \/ WrongAttribute
  <2>1. Fail("crashed")
    BY <1>1 DEF Decorate
  <2> QED BY <2>1, FailKeepsShape
<1>2. CASE ~(names = <<>> \/ NoAttribute \/ WrongAttribute)
  <2>1. /\ phase = "decorate" /\ phase' = "query" /\ outcome' = outcome
        /\ UNCHANGED request /\ UNCHANGED <<request, roots, keys, children>>
    BY <1>2 DEF Decorate
  <2>2. (Added' <=> Added) /\ (Trimmed' <=> Trimmed) /\ Holds
    BY <2>1 DEF Added, Trimmed, IsPast, Shape, HoldsInv, request
  <2> QED BY <2>1, <2>2, ProjectionStays, StepKeepsShape
<1> QED
  BY <1>1, <1>2

(* So does the query.                                                      *)
LEMMA QueryKeepsShape == Shape /\ Query => Shape'
<1> SUFFICES ASSUME Shape, Query PROVE Shape'
  OBVIOUS
<1>1. CASE UnknownColumn \/ TooLate
  <2>1. Fail("crashed")
    BY <1>1 DEF Query
  <2> QED BY <2>1, FailKeepsShape
<1>2. CASE ~(UnknownColumn \/ TooLate)
  <2>1. /\ phase = "query" /\ phase' = "render" /\ outcome' = outcome
        /\ UNCHANGED request /\ UNCHANGED <<request, roots, keys, children>>
    BY <1>2 DEF Query, projection
  <2>2. (Added' <=> Added) /\ (Trimmed' <=> Trimmed) /\ Holds
    BY <2>1 DEF Added, Trimmed, IsPast, Shape, HoldsInv, request
  <2> QED BY <2>1, <2>2, ProjectionStays, StepKeepsShape
<1> QED
  BY <1>1, <1>2

(* So does rendering.                                                      *)
LEMMA RenderKeepsShape == Shape /\ Render => Shape'
<1> SUFFICES ASSUME Shape, Render PROVE Shape'
  OBVIOUS
<1>1. CASE RenderFails
  <2>1. Fail("crashed")
    BY <1>1 DEF Render
  <2> QED BY <2>1, FailKeepsShape
<1>2. CASE ~RenderFails
  <2>1. /\ phase = "render" /\ phase' = "done" /\ outcome' = "rendered"
        /\ UNCHANGED request /\ UNCHANGED <<request, roots, keys, children>>
    BY <1>2 DEF Render, projection
  <2>2. (Added' <=> Added) /\ (Trimmed' <=> Trimmed) /\ Holds
    BY <2>1 DEF Added, Trimmed, IsPast, Shape, HoldsInv, request
  <2> QED BY <2>1, <2>2, ProjectionStays, StepKeepsShape
<1> QED
  BY <1>1, <1>2

(* Every step keeps the shape of the projection.                           *)
LEMMA ShapeIsKept == Shape /\ [Next \/ Done]_vars => Shape'
<1> SUFFICES ASSUME Shape, [Next \/ Done]_vars PROVE Shape'
  OBVIOUS
<1>1. CASE Bind
  BY <1>1, BindKeepsShape
<1>2. CASE Resolve
  BY <1>2, ResolveKeepsShape
<1>3. CASE Project
  <2>1. /\ phase = "project" /\ phase' = "add" /\ outcome' = outcome /\ UNCHANGED request
    BY <1>3 DEF Project
  <2> QED BY <1>3, <2>1, ProjectHolds, StepKeepsShape
<1>4. CASE AddField
  <2>1. /\ phase = "add" /\ phase' = "remove" /\ outcome' = outcome /\ UNCHANGED request
    BY <1>4 DEF AddField
  <2> QED BY <1>4, <2>1, AddFieldHolds, StepKeepsShape
<1>5. CASE RemoveFields
  <2>1. /\ phase = "remove" /\ phase' = "decorate" /\ outcome' = outcome /\ UNCHANGED request
    BY <1>5 DEF RemoveFields
  <2> QED BY <1>5, <2>1, RemoveFieldsHolds, StepKeepsShape
<1>6. CASE Decorate
  BY <1>6, DecorateKeepsShape
<1>7. CASE Query
  BY <1>7, QueryKeepsShape
<1>8. CASE Render
  BY <1>8, RenderKeepsShape
<1>9. CASE UNCHANGED vars
  <2>1. UNCHANGED request /\ UNCHANGED <<request, roots, keys, children>>
        /\ phase' = phase /\ outcome' = outcome
    BY <1>9 DEF vars, projection
  <2>2. (Added' <=> Added) /\ (Trimmed' <=> Trimmed)
    BY <2>1 DEF Added, Trimmed, IsPast, request
  <2>3. IsFeatureType(ft)' /\ NamesAreListed'
    BY <2>1, RequestInvStays DEF Shape
  <2>4. HoldsInv'
    BY <2>1, <2>2, ProjectionStays DEF Shape, HoldsInv, IsPast
  <2>5. ft' = ft /\ names' = names /\ (Given' <=> Given) /\ NamedElements' = NamedElements
    BY <2>1, RequestStays DEF request
  <2>6. OutcomeInv' /\ BindInv' /\ ResolveInv'
    BY <2>1, <2>5 DEF Shape, OutcomeInv, BindInv, ResolveInv, IsPast
  <2> QED BY <2>3, <2>4, <2>6 DEF Shape
<1> QED
  BY <1>1, <1>2, <1>3, <1>4, <1>5, <1>6, <1>7, <1>8, <1>9 DEF Next, Done

(* The projection always holds the elements that were asked for, with what *)
(* add_field() of projection.py added and without what remove_fields()     *)
(* took away.                                                              *)
THEOREM ShapeAlways == Spec => []Shape
<1>1. Init => Shape
  BY ShapeAtFirst
<1>2. Shape /\ [Next \/ Done]_vars => Shape'
  BY ShapeIsKept
<1> QED
  BY <1>1, <1>2, PTL DEF Spec

(* Whatever a GML document holds of a feature, DescribeFeatureType         *)
(* describes it, when the types of one name are alike (_get_complex_types  *)
(* of xmlschema.py).                                                       *)
THEOREM SchemaIsMatched == Spec => []DocumentsMatchTheirSchema
<1>1. Shape => DocumentsMatchTheirSchema
  <2> SUFFICES ASSUME Shape, TypesAreAlike(ft), NEW e \in Visited
               PROVE  IsAttribute(e) \/ Describes(ft, e)
    BY DEF DocumentsMatchTheirSchema
  <2>1. IsFeatureType(ft) /\ e \in Resolvable(ft)
    BY DEF Shape, Visited
  <2>2. CASE e \in DOMAIN ft.fields
    BY <2>1, <2>2, EachIsDescribed
  <2>3. CASE e \in ToSet(BaseElements(ft))
    <3>1. e \in {GmlName, BoundedBy}
      BY <2>3, BaseElementsOf
    <3> QED BY <3>1, BaseIsPath DEF Describes
  <2>4. ASSUME NEW node \in {Root} \union Complex(ft), e = GmlId(node) PROVE IsAttribute(e)
    BY <2>1, <2>4, GmlIdIsPath
  <2> QED BY <2>1, <2>2, <2>3, <2>4, ResolvableKinds
<1> QED
  BY <1>1, ShapeAlways, PTL

(* What the projection holds when the answer is rendered.                  *)
LEMMA AtTheEnd ==
    ASSUME Shape, outcome = "rendered"
    PROVE  /\ IsFeatureType(ft) /\ RequestInv
           /\ \A x : Shown(x) <=> (format # "gml" => ~Unshown(x))
           /\ \A x : Contains(roots, x) <=> ((Chosen(x) /\ Len(x) = 1) \/ IsExtra(x)) /\ Shown(x)
           /\ \A p : p \in ToSet(keys) => IsParent(p)
           /\ \A p : IsParent(p) /\ Shown(p) => p \in ToSet(keys)
           /\ \A p \in ToSet(keys) :
                 \A x : Contains(children[p], x) <=> Chosen(x) /\ Front(x) = p /\ Shown(x)
<1>1. Added /\ (Trimmed <=> format # "gml") /\ Holds /\ RequestInv
  BY DEF Added, Trimmed, IsPast, Shape, HoldsInv, BindInv, ResolveInv, RequestInv
<1>2. \A x : Contains(roots, x) <=> x \in ToSet(roots)
  BY <1>1, ContainsElement DEF Holds, RootsHold
<1>3. \A p \in ToSet(keys) : \A x : Contains(children[p], x) <=> x \in ToSet(children[p])
  BY <1>1, ContainsElement DEF Holds, ChildrenHold
<1>4. \A x : Shown(x) <=> (format # "gml" => ~Unshown(x))
  BY <1>1 DEF Shown
<1>5. \A x : Contains(roots, x) <=> ((Chosen(x) /\ Len(x) = 1) \/ IsExtra(x)) /\ Shown(x)
  BY <1>1, <1>2 DEF Holds, RootsHold
<1>6. /\ \A p : p \in ToSet(keys) => IsParent(p)
      /\ \A p : IsParent(p) /\ Shown(p) => p \in ToSet(keys)
  BY <1>1 DEF Holds, KeysHold
<1>7. \A p \in ToSet(keys) :
         \A x : Contains(children[p], x) <=> Chosen(x) /\ Front(x) = p /\ Shown(x)
  BY <1>1, <1>3 DEF Holds, ChildrenHold
<1> QED
  BY <1>1, <1>4, <1>5, <1>6, <1>7 DEF Shape

(* An element that is listed was chosen, or is the geometry that was       *)
(* added; and it is shown, with what leads to it if nothing was added.     *)
LEMMA ListedWasChosen ==
    ASSUME Shape, outcome = "rendered", NEW e \in Resolvable(ft), Listed(e)
    PROVE  /\ Chosen(e) \/ IsExtra(e)
           /\ Shown(e)
           /\ format # "json" => \A i \in 1..Len(e) : Shown(Prefix(e, i))
<1>1. IsPath(e) /\ Len(e) \in Nat /\ Prefix(e, Len(e)) = e /\ Len(e) > 0
  BY AtTheEnd, ResolvableParts, PathParts
<1>2. PICK k \in 1..Len(e) :
        /\ Contains(roots, Prefix(e, k))
        /\ \A j \in (k + 1)..Len(e) :
              Prefix(e, j - 1) \in ToSet(keys) /\ Contains(children[Prefix(e, j - 1)], Prefix(e, j))
  BY DEF Listed, Prefix
<1>3. ASSUME NEW j \in (k + 1)..Len(e) PROVE Chosen(Prefix(e, j)) /\ Shown(Prefix(e, j))
  BY <1>2, AtTheEnd
<1>4. /\ (Chosen(Prefix(e, k)) /\ Len(Prefix(e, k)) = 1) \/ IsExtra(Prefix(e, k))
      /\ Shown(Prefix(e, k))
  BY <1>2, AtTheEnd
<1>5. (Chosen(e) \/ IsExtra(e)) /\ Shown(e)
  <2>1. CASE k = Len(e)
    BY <1>1, <1>4, <2>1
  <2>2. CASE k # Len(e)
    <3>1. Len(e) \in (k + 1)..Len(e)
      BY <1>1, <2>2
    <3> QED BY <1>1, <1>3, <3>1
  <2> QED BY <2>1, <2>2
<1>6. ASSUME format # "json", NEW i \in 1..Len(e) PROVE Shown(Prefix(e, i))
  <2>1. Len(Prefix(e, k)) = 1
    BY <1>4, <1>6 DEF IsExtra
  <2>2. k = 1
    BY <1>1, <2>1, PrefixParts
  <2>3. CASE i = 1
    BY <1>4, <2>2, <2>3
  <2>4. CASE i # 1
    <3>1. i \in (k + 1)..Len(e)
      BY <1>1, <2>2, <2>4
    <3> QED BY <1>3, <3>1
  <2> QED BY <2>3, <2>4
<1> QED
  BY <1>5, <1>6

(* An element is listed when all that lead to it are chosen and shown.     *)
LEMMA ChosenIsListed ==
    ASSUME Shape, outcome = "rendered", NEW e \in Resolvable(ft),
           \A i \in 1..Len(e) : Chosen(Prefix(e, i)) /\ Shown(Prefix(e, i)),
           \A i \in 1..Len(e) : i < Len(e) => IsParent(Prefix(e, i))
    PROVE  Listed(e)
<1>1. IsPath(e) /\ Len(e) \in Nat /\ Len(e) > 0
  BY AtTheEnd, ResolvableParts, PathParts
<1>2. 1 \in 1..Len(e)
  BY <1>1
<1>3. Contains(roots, Prefix(e, 1))
  <2>1. Len(Prefix(e, 1)) = 1
    BY <1>1, <1>2, PrefixParts
  <2> QED BY <1>2, <2>1, AtTheEnd
<1>4. ASSUME NEW j \in 2..Len(e)
      PROVE  Prefix(e, j - 1) \in ToSet(keys) /\ Contains(children[Prefix(e, j - 1)], Prefix(e, j))
  <2>1. j - 1 \in 1..Len(e) /\ j - 1 < Len(e) /\ j \in 1..Len(e)
    BY <1>1
  <2>2. Prefix(e, j - 1) \in ToSet(keys)
    BY <2>1, AtTheEnd
  <2>3. Front(Prefix(e, j)) = Prefix(e, j - 1)
    BY <1>1, <2>1, PrefixParts
  <2> QED BY <2>1, <2>2, <2>3, AtTheEnd
<1>5. /\ Contains(roots, SubSeq(e, 1, 1))
      /\ \A j \in (1 + 1)..Len(e) :
            SubSeq(e, 1, j - 1) \in ToSet(keys) /\ Contains(children[SubSeq(e, 1, j - 1)], SubSeq(e, 1, j))
  BY <1>3, <1>4 DEF Prefix
<1> QED
  BY <1>2, <1>5 DEF Listed

(* A leaf that was chosen was asked for.                                   *)
LEMMA ChosenWasAsked ==
    ASSUME IsFeatureType(ft), RequestInv, NEW e \in Resolvable(ft), ~IsComplex(ft, e), Chosen(e) \/ IsExtra(e)
    PROVE  e \in Asked
<1>1. CASE Given
  <2>1. CASE IsExtra(e)
    BY <1>1, <2>1 DEF IsExtra, Asked
  <2>2. CASE IsNode(e)
    <3>1. PICK i \in DOMAIN names : e \in ToSet(Nodes(NamedElements[i]))
      BY <2>2 DEF IsNode
    <3>2. NamedElements[i] \in Resolvable(ft)
      BY <1>1, <3>1 DEF RequestInv
    <3>3. PICK k \in 1..Len(NamedElements[i]) : e = Prefix(NamedElements[i], k)
      BY <3>1, <3>2, NodesOf
    <3>4. /\ k < Len(NamedElements[i]) => e \in Complex(ft)
          /\ IsPath(NamedElements[i])
      BY <3>2, <3>3, ResolvableParts
    <3>5. Len(NamedElements[i]) \in Nat /\ Prefix(NamedElements[i], Len(NamedElements[i])) = NamedElements[i]
      BY <3>4, PathParts
    <3>6. e = NamedElements[i]
      BY <3>3, <3>4, <3>5, ComplexIsField
    <3>7. e \in ToSet(NamedElements)
      <4>1. DOMAIN NamedElements = DOMAIN names
        BY DEF NamedElements
      <4> QED BY <3>6, <4>1 DEF ToSet
    <3> QED BY <1>1, <3>7 DEF Asked
  <2> QED BY <1>1, <2>1, <2>2 DEF Chosen
<1>2. CASE ~Given
  <2>1. e \in ToSet(BaseElements(ft)) \/ e \in DOMAIN ft.fields
    BY <1>2 DEF Chosen, IsExtra
  <2>2. ~IsAttribute(e)
    <3>1. CASE e \in DOMAIN ft.fields
      BY <3>1, FieldIsPath
    <3>2. CASE e \in ToSet(BaseElements(ft))
      <4>1. e \in {GmlName, BoundedBy}
        BY <3>2, BaseElementsOf
      <4> QED BY <4>1, BaseIsPath
    <3> QED BY <2>1, <3>1, <3>2
  <2> QED BY <1>2, <2>2 DEF Asked
<1> QED
  BY <1>1, <1>2

(* What an answer holds was asked for, and can be shown.                   *)
LEMMA LeavesWereAsked ==
    ASSUME Shape, outcome = "rendered", NEW e \in Leaves
    PROVE  e \in Asked /\ Showable(e)
<1>1. e \in Resolvable(ft) /\ Listed(e) /\ ~IsComplex(ft, e)
  BY DEF Leaves, Visited
<1>2. IsFeatureType(ft) /\ RequestInv
  BY AtTheEnd
<1>3. /\ Chosen(e) \/ IsExtra(e)
      /\ Shown(e)
      /\ format # "json" => \A i \in 1..Len(e) : Shown(Prefix(e, i))
  BY <1>1, ListedWasChosen
<1>4. e \in Asked
  BY <1>1, <1>2, <1>3, ChosenWasAsked
<1>5. Showable(e)
  <2>1. ASSUME format = "csv"
        PROVE  /\ e \notin {GmlName, BoundedBy}
               /\ \A p \in ToSet(Nodes(e)) : ~IsMany(ft, p) \/ IsArray(ft, p)
    <3>1. e \notin {GmlName, BoundedBy}
      BY <1>3, <2>1, AtTheEnd DEF Unshown
    <3>2. ASSUME NEW p \in ToSet(Nodes(e)) PROVE ~IsMany(ft, p) \/ IsArray(ft, p)
      <4>1. PICK i \in 1..Len(e) : p = Prefix(e, i)
        BY <1>1, <1>2, NodesOf
      <4>2. Shown(p)
        BY <1>3, <2>1, <4>1
      <4> QED BY <2>1, <4>2, AtTheEnd DEF Unshown
    <3> QED BY <3>1, <3>2
  <2>2. ASSUME format = "json" PROVE ~IsGeometry(ft, e) \/ e = MainGeometry(ft)
    BY <1>3, <2>2, AtTheEnd DEF Unshown
  <2> QED BY <1>1, <2>1, <2>2 DEF Showable
<1> QED
  BY <1>4, <1>5

(* What leads to an element is there, when no object with sub fields is    *)
(* behind a list.                                                          *)
LEMMA NothingIsHidden ==
    ASSUME NEW t, IsFeatureType(t), \A c \in Complex(t) : ~ThroughManager(t, c), NEW e \in Resolvable(t)
    PROVE  ~NeverThere(t, Front(e))
<1>1. IsPath(e) /\ \A k \in 1..Len(e) : k < Len(e) => Prefix(e, k) \in Complex(t)
  BY ResolvableParts
<1>2. Len(e) \in Nat /\ Len(e) > 0 /\ Front(e) = Prefix(e, Len(e) - 1) /\ Len(Front(e)) = Len(e) - 1
  BY <1>1, PathParts, FrontAndLast
<1> SUFFICES ASSUME NEW k \in 1..Len(Front(e)), ThroughManager(t, Prefix(Front(e), k)) PROVE FALSE
  BY DEF NeverThere, Prefix
<1>3. k \in 1..Len(e) /\ k < Len(e) /\ k \in 1..(Len(e) - 1) /\ Len(e) - 1 \in 1..Len(e)
  BY <1>2
<1>4. Prefix(Front(e), k) = Prefix(e, k)
  BY <1>1, <1>2, <1>3, PrefixParts
<1> QED
  BY <1>1, <1>3, <1>4

(* What was asked for and can be shown is in the answer.                   *)
LEMMA AskedAreLeaves ==
    ASSUME Shape, outcome = "rendered", "relations" \notin nulls, format \in Formats,
           \A c \in Complex(ft) : ~ThroughManager(ft, c),
           NEW e \in Asked, Showable(e)
    PROVE  e \in Leaves
<1>1. IsFeatureType(ft) /\ RequestInv
  BY AtTheEnd
<1>2. MainGeometry(ft) \in Resolvable(ft)
  BY <1>1, MainGeometryIsField DEF Geometries, Resolvable, RequestInv
<1>3. ~IsComplex(ft, e)
  BY DEF Showable
<1>4. CASE e \in Resolvable(ft) /\ Listed(e)
  <2>1. ~NeverThere(ft, Front(e))
    BY <1>1, <1>4, NothingIsHidden
  <2> QED BY <1>3, <1>4, <2>1 DEF Leaves, Visited
<1>5. CASE IsExtra(e)
  <2>1. e \in Resolvable(ft) /\ e = MainGeometry(ft) /\ format = "json"
    BY <1>2, <1>5 DEF IsExtra
  <2>2. Shown(e)
    BY <2>1, AtTheEnd DEF Unshown
  <2>3. Contains(roots, e)
    BY <1>5, <2>2, AtTheEnd
  <2>4. Len(e) \in 1..Len(e) /\ SubSeq(e, 1, Len(e)) = e /\ Len(e) \in Nat
    BY <1>1, <2>1, ResolvableParts, PathParts DEF Prefix
  <2>5. (Len(e) + 1)..Len(e) = {}
    BY <2>4
  <2>6. Listed(e)
    BY <2>3, <2>4, <2>5 DEF Listed
  <2> QED BY <1>4, <2>1, <2>6
<1>6. CASE ~IsExtra(e)
  <2>1. e \in Resolvable(ft)
    <3>1. CASE Given
      <4>1. e \in ToSet(NamedElements)
        BY <1>6, <3>1 DEF Asked, IsExtra
      <4>2. DOMAIN NamedElements = DOMAIN names
        BY DEF NamedElements
      <4> QED BY <1>1, <3>1, <4>1, <4>2 DEF RequestInv, ToSet
    <3>2. CASE ~Given
      BY <3>2 DEF Asked
    <3> QED BY <3>1, <3>2
  <2>2. /\ IsPath(e)
        /\ \A i \in 1..Len(e) : /\ Prefix(e, i) \in Resolvable(ft)
                                /\ i < Len(e) => Prefix(e, i) \in Complex(ft)
    BY <1>1, <2>1, ResolvableParts
  <2>3. Len(e) \in Nat /\ Prefix(e, Len(e)) = e
    BY <2>2, PathParts
  <2>4. ASSUME NEW i \in 1..Len(e) PROVE Shown(Prefix(e, i))
    <3>1. CASE format = "gml"
      BY <3>1, AtTheEnd
    <3>2. CASE format # "gml" /\ i < Len(e)
      <4>1. /\ Prefix(e, i) \in DOMAIN ft.fields /\ IsComplex(ft, Prefix(e, i))
            /\ Prefix(e, i) \notin {GmlName, BoundedBy}
        BY <1>1, <2>2, <3>2, ComplexIsField, FieldIsPath
      <4>2. ~IsGeometry(ft, Prefix(e, i))
        BY <4>1 DEF IsGeometry
      <4>3. format = "csv" => ~IsMany(ft, Prefix(e, i)) \/ IsArray(ft, Prefix(e, i))
        <5>1. Prefix(e, i) \in ToSet(Nodes(e))
          BY <1>1, <2>1, NodesOf
        <5> QED BY <5>1 DEF Showable
      <4>4. ~Unshown(Prefix(e, i))
        BY <4>1, <4>2, <4>3 DEF Unshown, Formats
      <4> QED BY <4>4, AtTheEnd
    <3>3. CASE format # "gml" /\ ~(i < Len(e))
      <4>1. Prefix(e, i) = e
        <5>1. i = Len(e)
          BY <2>3, <3>3
        <5> QED BY <2>3, <5>1
      <4>2. format = "csv" => ~IsMany(ft, e) \/ IsArray(ft, e)
        <5>1. e \in ToSet(Nodes(e))
          BY <1>1, <2>1, <4>1, NodesOf
        <5> QED BY <5>1 DEF Showable
      <4>3. ~Unshown(e)
        BY <4>2 DEF Unshown, Showable
      <4> QED BY <4>1, <4>3, AtTheEnd
    <3> QED BY <3>1, <3>2, <3>3
  <2>5. /\ \A i \in 1..Len(e) : Chosen(Prefix(e, i))
        /\ \A i \in 1..Len(e) : i < Len(e) => IsParent(Prefix(e, i))
    <3>1. CASE Given
      <4>1. e \in ToSet(NamedElements)
        BY <1>6, <3>1 DEF Asked, IsExtra
      <4>2. PICK n \in DOMAIN names : e = NamedElements[n]
        BY <4>1 DEF ToSet, NamedElements
      <4>3. ASSUME NEW i \in 1..Len(e) PROVE IsNode(Prefix(e, i))
        <5>1. Prefix(e, i) \in ToSet(Nodes(e))
          BY <1>1, <2>1, NodesOf
        <5> QED BY <4>2, <5>1 DEF IsNode
      <4>4. ASSUME NEW i \in 1..Len(e), i < Len(e) PROVE IsParent(Prefix(e, i))
        <5>1. i + 1 \in 1..Len(e) /\ (i + 1) - 1 = i
          BY <2>3, <4>4
        <5>2. Front(Prefix(e, i + 1)) = Prefix(e, i)
          BY <2>2, <5>1, PrefixParts
        <5>3. Prefix(e, i + 1) \in Resolvable(ft) /\ IsNode(Prefix(e, i + 1)) /\ IsNode(Prefix(e, i))
          BY <2>2, <4>3, <5>1
        <5> QED BY <3>1, <5>2, <5>3 DEF IsParent
      <4> QED BY <3>1, <4>3, <4>4 DEF Chosen
    <3>2. CASE ~Given
      <4>1. ~IsAttribute(e)
        BY <3>2 DEF Asked
      <4>2. e \in ToSet(BaseElements(ft)) \/ e \in DOMAIN ft.fields
        <5>1. ASSUME NEW node \in {Root} \union Complex(ft), e = GmlId(node) PROVE FALSE
          BY <1>1, <4>1, <5>1, GmlIdIsPath
        <5> QED BY <2>1, <5>1, ResolvableKinds
      <4>3. ASSUME NEW i \in 1..Len(e) PROVE Chosen(Prefix(e, i))
        <5>1. CASE i < Len(e)
          BY <2>2, <3>2, <5>1, ComplexIsField DEF Chosen
        <5>2. CASE i = Len(e)
          BY <2>3, <3>2, <4>2, <5>2 DEF Chosen
        <5> QED BY <2>3, <5>1, <5>2
      <4> QED BY <2>2, <3>2, <4>3 DEF IsParent
    <3> QED BY <3>1, <3>2
  <2>6. Listed(e)
    BY <2>1, <2>4, <2>5, ChosenIsListed
  <2> QED BY <1>4, <2>1, <2>6
<1> QED
  BY <1>5, <1>6

(* The output format stays one of the three.                               *)
LEMMA FormatStays == Spec => [](format \in Formats)
<1>1. Init => format \in Formats
  BY DEF Init
<1>2. format \in Formats /\ [Next \/ Done]_vars => (format \in Formats)'
  BY DEF Next, Done, vars, request, Bind, Resolve, Project, AddField, RemoveFields, Decorate, Query,
         Render, Fail
<1> QED
  BY <1>1, <1>2, PTL DEF Spec

(* For any feature type, PROPERTYNAME and format, the answer holds exactly *)
(* the properties that were asked for and that the format shows            *)
(* (projection.py, and get_properties, get_header and write_feature of the *)
(* renderers).                                                             *)
THEOREM AnswerIsWhatWasAsked == Spec => []AnswerHoldsWhatWasAsked
<1>1. Shape /\ format \in Formats => AnswerHoldsWhatWasAsked
  <2> SUFFICES ASSUME Shape, format \in Formats, outcome = "rendered", "relations" \notin nulls,
                      \A c \in Complex(ft) : ~ThroughManager(ft, c)
               PROVE  Leaves = {e \in Asked : Showable(e)}
    BY DEF AnswerHoldsWhatWasAsked
  <2>1. \A e \in Leaves : e \in Asked /\ Showable(e)
    BY LeavesWereAsked
  <2>2. \A e \in Asked : Showable(e) => e \in Leaves
    BY AskedAreLeaves
  <2> QED BY <2>1, <2>2
<1> QED
  BY <1>1, ShapeAlways, FormatStays, PTL

(***************************************************************************)
(* Type correctness.                                                       *)
(***************************************************************************)

(* A sequence that FlattenSeq takes together is as long as its last one.   *)
LEMMA AsLongAsTheLast ==
    ASSUME NEW T, NEW n \in Nat, n # 0, NEW ss \in [1..n -> Seq(T)]
    PROVE  FlattenSeq(ss) \in Seq(T) /\ Len(FlattenSeq(ss)) >= Len(ss[n])
<1>1. ss \in Seq(Seq(T)) /\ Len(ss) = n
  OBVIOUS
<1>2. PICK f : IsRun(f, ss, n) /\ FlattenSeq(ss) = f[n]
  <2> DEFINE run == CHOOSE f : IsRun(f, ss, n)
  <2>1. IsRun(run, ss, n)
    BY RunExists
  <2>2. FlattenSeq(ss) = run[n]
    BY <1>1 DEF FlattenSeq, IsRun
  <2> HIDE DEF run
  <2> QED BY <2>1, <2>2
<1>3. f[n] = IF n = 1 THEN ss[n] ELSE f[n - 1] \o ss[n]
  <2>1. \A i \in 1..n : f[i] = IF i = 1 THEN ss[i] ELSE f[i - 1] \o ss[i]
    BY <1>2 DEF IsRun
  <2>2. n \in 1..n
    OBVIOUS
  <2> QED BY <2>1, <2>2
<1>4. ss[n] \in Seq(T) /\ Len(ss[n]) \in Nat
  OBVIOUS
<1>5. FlattenSeq(ss) \in Seq(T)
  BY Flattening
<1>6. CASE n = 1
  <2>1. FlattenSeq(ss) = ss[n]
    BY <1>2, <1>3, <1>6
  <2>2. Len(FlattenSeq(ss)) = Len(ss[n])
    BY <2>1
  <2>3. Len(FlattenSeq(ss)) >= Len(ss[n])
    BY <1>4, <2>2
  <2> QED BY <1>5, <2>3
<1>7. CASE n # 1
  <2>1. n - 1 \in Nat /\ n - 1 # 0 /\ \A k \in 1..(n - 1) : ss[k] \in Seq(T)
    BY <1>7
  <2>2. IsRun([i \in 1..(n - 1) |-> f[i]], ss, n - 1)
    <3> DEFINE g == [i \in 1..(n - 1) |-> f[i]]
    <3>1. \A i \in 1..n : f[i] = IF i = 1 THEN ss[i] ELSE f[i - 1] \o ss[i]
      BY <1>2 DEF IsRun
    <3>2. \A i \in 1..(n - 1) : g[i] = IF i = 1 THEN ss[i] ELSE g[i - 1] \o ss[i]
      BY <2>1, <3>1
    <3>3. g = [i \in 1..(n - 1) |-> g[i]]
      OBVIOUS
    <3> HIDE DEF g
    <3>4. g = [i \in 1..(n - 1) |-> IF i = 1 THEN ss[i] ELSE g[i - 1] \o ss[i]]
      BY <3>2, <3>3
    <3>5. IsRun(g, ss, n - 1)
      BY <3>4 DEF IsRun
    <3> QED BY <3>5 DEF g
  <2>3. f[n - 1] \in Seq(T)
    <3>1. [i \in 1..(n - 1) |-> f[i]][n - 1] \in Seq(T)
      BY <2>1, <2>2, FlatteningARun
    <3> QED BY <2>1, <3>1
  <2>4. FlattenSeq(ss) = f[n - 1] \o ss[n]
    BY <1>2, <1>3, <1>7
  <2>5. Len(f[n - 1] \o ss[n]) = Len(f[n - 1]) + Len(ss[n]) /\ Len(f[n - 1]) \in Nat /\ Len(ss[n]) \in Nat
    BY <1>4, <2>3
  <2>6. Len(FlattenSeq(ss)) = Len(f[n - 1]) + Len(ss[n])
    BY <2>4, <2>5
  <2>7. Len(FlattenSeq(ss)) >= Len(ss[n])
    <3>1. PICK a \in Nat : a = Len(f[n - 1])
      BY <2>5
    <3>2. PICK b \in Nat : b = Len(ss[n])
      BY <2>5
    <3>3. a + b >= b
      OBVIOUS
    <3> QED BY <2>6, <3>1, <3>2, <3>3
  <2> QED BY <1>5, <2>7
<1> QED
  BY <1>6, <1>7

(* The attribute of an element, and the path to it from the feature.       *)
LEMMA AttributeParts ==
    ASSUME NEW t, IsFeatureType(t), NEW e \in Resolvable(t)
    PROVE  \E T : Attribute(t, e) \in Seq(T) /\ Len(Attribute(t, e)) > 0
<1>1. ASSUME NEW x PROVE \E T : <<x>> \in Seq(T) /\ Len(<<x>>) > 0
  <2> DEFINE one == <<x>>
  <2>1. one \in Seq({x}) /\ Len(one) > 0
    OBVIOUS
  <2> HIDE DEF one
  <2>2. \E T : one \in Seq(T) /\ Len(one) > 0
    BY <2>1
  <2> QED BY <2>2 DEF one
<1>a. ~IsAttribute(GmlName) /\ ~IsAttribute(BoundedBy) /\ GmlName # BoundedBy
  <2>1. GmlName # BoundedBy
    BY DEF GmlName, BoundedBy
  <2> QED BY <2>1, BaseIsPath
<1>2. CASE IsAttribute(e)
  <2>1. Attribute(t, e) = <<"id">>
    BY <1>a, <1>2 DEF Attribute
  <2> QED BY <1>1, <2>1
<1>3. CASE ~IsAttribute(e) /\ e = GmlName
  <2>1. \E x : Attribute(t, e) = <<x>>
    <3>1. Attribute(t, e) = <<IF t.display = None THEN "name" ELSE t.display>>
      BY <1>a, <1>3 DEF Attribute
    <3> DEFINE x == IF t.display = None THEN "name" ELSE t.display
    <3>2. Attribute(t, e) = <<x>>
      BY <3>1
    <3> HIDE DEF x
    <3> QED BY <3>2
  <2> QED BY <1>1, <2>1
<1>4. CASE ~IsAttribute(e) /\ e # GmlName /\ e = BoundedBy
  <2>1. Attribute(t, e) = <<"boundedBy">>
    BY <1>4 DEF Attribute
  <2> QED BY <1>1, <2>1
<1>5. CASE ~IsAttribute(e) /\ e # GmlName /\ e # BoundedBy
  <2>1. e \in DOMAIN t.fields
    <3>1. e \notin ToSet(BaseElements(t))
      BY <1>5, BaseElementsOf
    <3>2. ASSUME NEW node \in {Root} \union Complex(t), e = GmlId(node) PROVE FALSE
      BY <1>5, <3>2, GmlIdIsPath
    <3> QED BY <3>1, <3>2, ResolvableKinds
  <2>2. t.fields[e].attribute \in Seq(ToSet(t.fields[e].attribute))
    BY <2>1 DEF IsFeatureType
  <2>3. Attribute(t, e) = IF t.fields[e].attribute = <<>> THEN <<Last(e)>> ELSE t.fields[e].attribute
    BY <1>5 DEF Attribute
  <2>4. CASE t.fields[e].attribute = <<>>
    BY <1>1, <2>3, <2>4
  <2>5. CASE t.fields[e].attribute # <<>>
    <3>1. Len(t.fields[e].attribute) > 0
      BY <2>2, <2>5
    <3> QED BY <2>2, <2>3, <2>5, <3>1
  <2> QED BY <2>4, <2>5
<1> QED
  BY <1>2, <1>3, <1>4, <1>5

IsSequence(s) == s \in Seq(ToSet(s))

(* A sequence is one of its own elements.                                  *)
LEMMA SequencesAre ==
    ASSUME NEW T, NEW s \in Seq(T)
    PROVE  IsSequence(s)
<1>1. Len(s) \in Nat /\ DOMAIN s = 1..Len(s)
  OBVIOUS
<1>2. \A i \in 1..Len(s) : s[i] \in ToSet(s)
  BY <1>1 DEF ToSet
<1> QED
  BY <1>2 DEF IsSequence

(* The path to an attribute is as long as the attribute at least.          *)
LEMMA AbsoluteParts ==
    ASSUME NEW t, IsFeatureType(t), NEW e \in Resolvable(t)
    PROVE  IsSequence(Absolute(t, e)) /\ Len(Absolute(t, e)) >= Len(Attribute(t, e))
<1>1. IsPath(e) /\ Len(e) \in Nat /\ Len(e) # 0 /\ Prefix(e, Len(e)) = e
  BY ResolvableParts, PathParts
<1> DEFINE at == [k \in 1..Len(e) |-> Attribute(t, Prefix(e, k))]
           T == UNION {ToSet(at[k]) : k \in 1..Len(e)}
<1>2. ASSUME NEW k \in 1..Len(e) PROVE at[k] \in Seq(T)
  <2>1. Prefix(e, k) \in Resolvable(t)
    BY ResolvableParts
  <2>2. PICK U : at[k] \in Seq(U)
    BY <2>1, AttributeParts
  <2>3. at[k] \in Seq(ToSet(at[k]))
    <3> HIDE DEF at
    <3> QED BY <2>2, SequencesAre DEF IsSequence
  <2>4. ToSet(at[k]) \subseteq T
    OBVIOUS
  <2> HIDE DEF at, T
  <2> QED BY <2>3, <2>4
<1>3. at \in [1..Len(e) -> Seq(T)]
  <2> HIDE DEF T
  <2>1. DOMAIN at = 1..Len(e) /\ at = [k \in 1..Len(e) |-> at[k]]
    OBVIOUS
  <2> HIDE DEF at
  <2> QED BY <1>2, <2>1
<1>4. Absolute(t, e) = FlattenSeq(at)
  BY DEF Absolute, Prefix
<1>5. at[Len(e)] = Attribute(t, e)
  BY <1>1
<1> HIDE DEF at, T
<1>6. FlattenSeq(at) \in Seq(T) /\ Len(FlattenSeq(at)) >= Len(at[Len(e)])
  BY <1>1, <1>3, AsLongAsTheLast
<1> QED
  BY <1>4, <1>5, <1>6, SequencesAre

(* Where a relation is followed, it has a path.                            *)
LEMMA PathsOfRelations ==
    ASSUME NEW t, IsFeatureType(t), NEW e \in Resolvable(t)
    PROVE  /\ Absolute(t, e) # <<>>
           /\ IsFlattened(t, e) => OrmRelation(t, e) # <<>>
<1>1. /\ IsSequence(Absolute(t, e)) /\ Len(Absolute(t, e)) >= Len(Attribute(t, e))
      /\ Len(Attribute(t, e)) \in Nat /\ Len(Attribute(t, e)) > 0
  BY AbsoluteParts, AttributeParts
<1>2. Absolute(t, e) \in Seq(ToSet(Absolute(t, e))) /\ Len(Absolute(t, e)) \in Nat
  BY <1>1 DEF IsSequence
<1>3. Absolute(t, e) # <<>>
  BY <1>1, <1>2
<1>4. ASSUME IsFlattened(t, e) PROVE OrmRelation(t, e) # <<>>
  <2>1. Len(Absolute(t, e)) > 1
    BY <1>1, <1>2, <1>4 DEF IsFlattened
  <2>2. IsPath(Absolute(t, e))
    BY <1>2, <1>3 DEF IsPath, Root
  <2>3. Len(Front(Absolute(t, e))) = Len(Absolute(t, e)) - 1
    BY <2>2, FrontAndLast
  <2>4. Len(Front(Absolute(t, e))) # 0
    BY <1>2, <2>1, <2>3
  <2> QED BY <2>4 DEF OrmRelation
<1> QED
  BY <1>3, <1>4

(* The flattened elements are elements of the feature type.                *)
LEMMA FlattenedAreResolvable ==
    ASSUME IsFeatureType(ft), AllElements \in Seq(Resolvable(ft))
    PROVE  /\ AllFlattened \in Seq(Resolvable(ft))
           /\ \A x \in ToSet(AllFlattened) : IsFlattened(ft, x)
<1>1. CASE Given
  <2>1. AllFlattened = Only(AllElements, {e \in ToSet(AllElements) : IsFlattened(ft, e)})
    BY <1>1 DEF AllFlattened
  <2> QED BY <2>1, OnlyThose
<1>2. CASE ~Given
  <2> DEFINE some == Elements(ft, Root)
             those == Flattened(ft)
  <2>1. AllFlattened = Only(some, those)
    BY <1>2 DEF AllFlattened, FlattenedElements
  <2>2. some \in Seq(DOMAIN ft.fields)
    BY ElementsOf
  <2> HIDE DEF some, those
  <2>3. /\ Only(some, those) \in Seq(DOMAIN ft.fields)
        /\ \A x : x \in ToSet(Only(some, those)) => x \in those
    BY <2>2, OnlyThose
  <2>4. \A x \in those : IsFlattened(ft, x)
    BY DEF those, Flattened
  <2> QED BY <2>1, <2>3, <2>4, FieldsAreResolvable
<1> QED
  BY <1>1, <1>2

(* all_elements holds elements of the feature type, and nothing at first.  *)
LEMMA AllElementsOf ==
    ASSUME NEW R, roots \in Seq(R), keys \in Seq(R), \A p \in ToSet(keys) : children[p] \in Seq(R)
    PROVE  /\ AllElements \in Seq(R)
           /\ roots = <<>> /\ keys = <<>> => ToSet(AllElements) = {}
<1> DEFINE lists == [k \in DOMAIN keys |-> children[keys[k]]]
<1>1. Len(keys) \in Nat /\ DOMAIN keys = 1..Len(keys)
  OBVIOUS
<1>2. \A k \in 1..Len(keys) : keys[k] \in ToSet(keys) /\ lists[k] = children[keys[k]]
  BY <1>1 DEF ToSet
<1>3. lists \in [1..Len(keys) -> Seq(R)]
  BY <1>1, <1>2
<1>4. AllElements = roots \o FlattenSeq(lists)
  BY DEF AllElements
<1> HIDE DEF lists
<1>5. /\ FlattenSeq(lists) \in Seq(R)
      /\ \A x : x \in ToSet(FlattenSeq(lists)) <=> IsInOne(x, lists, Len(keys))
  BY <1>1, <1>3, Flattening
<1>6. /\ AllElements \in Seq(R)
      /\ \A x : x \in ToSet(AllElements) <=> x \in ToSet(roots) \/ x \in ToSet(FlattenSeq(lists))
  BY <1>4, <1>5, ElementsOfConcat
<1>7. ASSUME roots = <<>>, keys = <<>> PROVE ToSet(AllElements) = {}
  <2>1. ToSet(roots) = {} /\ 1..Len(keys) = {}
    BY <1>7 DEF ToSet
  <2>2. \A x : x \notin ToSet(AllElements)
    BY <1>5, <1>6, <2>1 DEF IsInOne
  <2> QED BY <2>2
<1> QED
  BY <1>6, <1>7

(* Each relation that is followed has a path.                              *)
LEMMA PathsAreNotEmpty ==
    ASSUME IsFeatureType(ft), AllElements \in Seq(Resolvable(ft)), keys \in Seq(Resolvable(ft))
    PROVE  \A k \in DOMAIN RelationPaths : RelationPaths[k] # <<>>
<1> DEFINE some == [k \in DOMAIN AllFlattened |-> OrmRelation(ft, AllFlattened[k])]
           more == [k \in DOMAIN keys |-> Absolute(ft, keys[k])]
           T == {OrmRelation(ft, e) : e \in ToSet(AllFlattened)} \union {Absolute(ft, e) : e \in ToSet(keys)}
<1>1. /\ AllFlattened \in Seq(Resolvable(ft))
      /\ \A x \in ToSet(AllFlattened) : IsFlattened(ft, x)
  BY FlattenedAreResolvable
<1>2. /\ \A k \in DOMAIN AllFlattened : AllFlattened[k] \in ToSet(AllFlattened)
      /\ \A x \in ToSet(AllFlattened) : x \in Resolvable(ft)
      /\ \A k \in DOMAIN keys : keys[k] \in ToSet(keys)
      /\ \A x \in ToSet(keys) : x \in Resolvable(ft)
  BY <1>1 DEF ToSet
<1>3. <<>> \notin T
  BY <1>1, <1>2, PathsOfRelations
<1>4. some \in Seq(T)
  <2>1. Len(AllFlattened) \in Nat /\ DOMAIN AllFlattened = 1..Len(AllFlattened)
    BY <1>1
  <2>2. \A k \in 1..Len(AllFlattened) : OrmRelation(ft, AllFlattened[k]) \in T
    BY <1>2, <2>1
  <2> HIDE DEF T
  <2> QED BY <2>1, <2>2
<1>5. more \in Seq(T)
  <2>1. Len(keys) \in Nat /\ DOMAIN keys = 1..Len(keys)
    OBVIOUS
  <2>2. \A k \in 1..Len(keys) : Absolute(ft, keys[k]) \in T
    BY <1>2, <2>1
  <2> HIDE DEF T
  <2> QED BY <2>1, <2>2
<1>6. RelationPaths = WithoutRepeats(some \o more)
  BY DEF RelationPaths
<1> HIDE DEF some, more, T
<1>7. RelationPaths \in Seq(T)
  <2>1. some \o more \in Seq(T)
    BY <1>4, <1>5
  <2> QED BY <1>6, <2>1, EachOnce
<1>8. \A k \in DOMAIN RelationPaths : RelationPaths[k] \in T
  BY <1>7
<1> QED
  BY <1>3, <1>8

ProjectionTypes ==
    /\ roots \in Seq(Resolvable(ft)) /\ keys \in Seq(Resolvable(ft))
    /\ DOMAIN children = ToSet(keys)
    /\ \A p \in ToSet(keys) :
          children[p] \in Seq(Resolvable(ft)) /\ \A e \in ToSet(children[p]) : Front(e) = p
    /\ phase = "bind" => roots = <<>> /\ keys = <<>>
RelationsTypes == \A r \in ToSet(relations) : r.path # <<>> /\ "id" \in r.loaded
ExtraTypes == Len(extra) <= 1 /\ (phase \in {"bind", "resolve", "project", "add"} => extra = <<>>)
PhaseTypes ==
    /\ phase \in {"bind", "resolve", "project", "add", "remove", "decorate", "query", "render", "done"}
    /\ outcome \in {"none", "refused", "crashed", "rendered"}
TypeInv == ProjectionTypes /\ RelationsTypes /\ ExtraTypes /\ PhaseTypes

(* The variables have their types at first.                                *)
LEMMA TypesAtFirst == Init => TypeInv
<1> SUFFICES ASSUME Init PROVE TypeInv
  OBVIOUS
<1> DEFINE none == <<>>
<1>1. /\ roots = none /\ keys = none /\ children = none /\ extra = none /\ relations = none
      /\ phase = "bind" /\ outcome = "none"
  BY DEF Init
<1>2. ToSet(none) = {} /\ DOMAIN none = {} /\ Len(none) <= 1 /\ \A R : none \in Seq(R)
  BY DEF ToSet
<1>3. ProjectionTypes
  <2> HIDE DEF none
  <2>1. DOMAIN children = ToSet(keys) /\ ToSet(keys) = {}
    BY <1>1, <1>2
  <2>2. roots \in Seq(Resolvable(ft)) /\ keys \in Seq(Resolvable(ft))
    BY <1>1, <1>2
  <2> QED BY <1>1, <2>1, <2>2 DEF ProjectionTypes, none
<1>4. RelationsTypes
  BY <1>1, <1>2 DEF RelationsTypes
<1>5. ExtraTypes
  BY <1>1, <1>2 DEF ExtraTypes
<1>6. PhaseTypes
  BY <1>1 DEF PhaseTypes
<1> QED
  BY <1>3, <1>4, <1>5, <1>6 DEF TypeInv

(* The phases and outcomes are the ones there are.                         *)
LEMMA PhasesAreKept == TypeInv /\ [Next \/ Done]_vars => PhaseTypes'
<1> SUFFICES ASSUME TypeInv, [Next \/ Done]_vars PROVE PhaseTypes'
  OBVIOUS
<1>1. PhaseTypes
  BY DEF TypeInv
<1>2. CASE Bind
  BY <1>1, <1>2 DEF Bind, Fail, PhaseTypes
<1>3. CASE Resolve
  BY <1>1, <1>3 DEF Resolve, Fail, PhaseTypes
<1>4. CASE Project \/ AddField \/ RemoveFields
  BY <1>1, <1>4 DEF Project, AddField, RemoveFields, PhaseTypes
<1>5. CASE Decorate
  BY <1>1, <1>5 DEF Decorate, Fail, PhaseTypes
<1>6. CASE Query
  BY <1>1, <1>6 DEF Query, Fail, PhaseTypes
<1>7. CASE Render
  BY <1>1, <1>7 DEF Render, Fail, PhaseTypes
<1>8. CASE UNCHANGED vars
  BY <1>1, <1>8 DEF vars, PhaseTypes
<1> QED
  BY <1>2, <1>3, <1>4, <1>5, <1>6, <1>7, <1>8 DEF Next, Done

(* One element is restored at most.                                        *)
LEMMA ExtraIsKept == TypeInv /\ [Next \/ Done]_vars => ExtraTypes'
<1> SUFFICES ASSUME TypeInv, [Next \/ Done]_vars PROVE ExtraTypes'
  OBVIOUS
<1>1. ExtraTypes
  BY DEF TypeInv
<1>2. CASE extra' = extra /\ (phase' \in {"bind", "resolve", "project", "add"}
                              => phase \in {"bind", "resolve", "project", "add"})
  BY <1>1, <1>2 DEF ExtraTypes
<1>3. CASE AddField
  <2>1. extra = <<>> /\ phase' = "remove"
    BY <1>1, <1>3 DEF AddField, ExtraTypes
  <2>2. CASE extra' = extra
    BY <1>1, <2>1, <2>2 DEF ExtraTypes
  <2>3. CASE extra' = Append(extra, MainGeometry(ft))
    <3>1. extra' = <<MainGeometry(ft)>>
      BY <2>1, <2>3
    <3>2. Len(extra') = 1
      BY <3>1
    <3> QED BY <2>1, <3>2 DEF ExtraTypes
  <2> QED BY <1>3, <2>2, <2>3 DEF AddField
<1>4. CASE Bind
  BY <1>2, <1>4 DEF Bind, Fail, projection
<1>5. CASE Resolve
  BY <1>2, <1>5 DEF Resolve, Fail, projection
<1>6. CASE Project \/ RemoveFields
  BY <1>2, <1>6 DEF Project, RemoveFields
<1>7. CASE Decorate
  BY <1>2, <1>7 DEF Decorate, Fail, projection
<1>8. CASE Query
  BY <1>2, <1>8 DEF Query, Fail, projection
<1>9. CASE Render
  BY <1>2, <1>9 DEF Render, Fail, projection
<1>10. CASE UNCHANGED vars
  BY <1>2, <1>10 DEF vars, projection
<1> QED
  BY <1>3, <1>4, <1>5, <1>6, <1>7, <1>8, <1>9, <1>10 DEF Next, Done

(* The Prefetch objects have a path and load the primary key.              *)
LEMMA RelationsAreKept == Shape /\ TypeInv /\ [Next \/ Done]_vars => RelationsTypes'
<1> SUFFICES ASSUME Shape, TypeInv, [Next \/ Done]_vars PROVE RelationsTypes'
  OBVIOUS
<1>1. RelationsTypes
  BY DEF TypeInv
<1>2. CASE relations' = relations
  BY <1>1, <1>2 DEF RelationsTypes
<1>3. CASE Decorate
  <2>1. CASE relations' = [k \in DOMAIN RelationPaths |-> PrefetchOf(RelationPaths[k])]
    <3>1. AllElements \in Seq(Resolvable(ft)) /\ keys \in Seq(Resolvable(ft))
      BY AllElementsOf DEF TypeInv, ProjectionTypes
    <3>2. \A k \in DOMAIN RelationPaths : RelationPaths[k] # <<>>
      BY <3>1, PathsAreNotEmpty DEF Shape
    <3>3. ASSUME NEW r \in ToSet(relations') PROVE r.path # <<>> /\ "id" \in r.loaded
      <4>1. PICK k \in DOMAIN RelationPaths : r = PrefetchOf(RelationPaths[k])
        BY <2>1, <3>3 DEF ToSet
      <4>2. r.path = RelationPaths[k] /\ "id" \in r.loaded
        BY <4>1 DEF PrefetchOf
      <4> QED BY <3>2, <4>2
    <3> QED BY <3>3 DEF RelationsTypes
  <2> QED BY <1>2, <1>3, <2>1 DEF Decorate, Fail, query
<1>4. CASE Bind \/ Resolve
  BY <1>2, <1>4 DEF Bind, Resolve, Fail, query
<1>5. CASE Project \/ AddField \/ RemoveFields
  BY <1>2, <1>5 DEF Project, AddField, RemoveFields, query
<1>6. CASE Query \/ Render
  BY <1>2, <1>6 DEF Query, Render, Fail, query
<1>7. CASE UNCHANGED vars
  BY <1>2, <1>7 DEF vars, query
<1> QED
  BY <1>3, <1>4, <1>5, <1>6, <1>7 DEF Next, Done

(* The children of a key are elements right below it.                      *)
LEMMA ProjectionIsKept == Shape /\ TypeInv /\ [Next \/ Done]_vars => ProjectionTypes'
<1> SUFFICES ASSUME Shape, TypeInv, [Next \/ Done]_vars PROVE ProjectionTypes'
  OBVIOUS
<1>1. ProjectionTypes
  BY DEF TypeInv
<1>2. CASE UNCHANGED <<ft, roots, keys, children>> /\ (phase' = "bind" => phase = "bind")
  BY <1>1, <1>2 DEF ProjectionTypes
<1>3. CASE Holds' /\ phase' # "bind"
  <2>1. RootsHold' /\ KeysHold' /\ ChildrenHold'
    BY <1>3 DEF Holds
  <2>2. roots' \in Seq(Resolvable(ft)') /\ keys' \in Seq(Resolvable(ft)')
    BY <2>1 DEF RootsHold, KeysHold
  <2>3. /\ DOMAIN children' = ToSet(keys')
        /\ \A p \in ToSet(keys') : /\ children'[p] \in Seq(Resolvable(ft)')
                                   /\ \A e \in ToSet(children'[p]) : Front(e) = p
    BY <2>1 DEF ChildrenHold
  <2> QED BY <1>3, <2>2, <2>3 DEF ProjectionTypes
<1>4. CASE Bind
  BY <1>2, <1>4 DEF Bind, Fail, projection, request
<1>5. CASE Resolve
  BY <1>2, <1>5 DEF Resolve, Fail, projection, request
<1>6. CASE Project
  <2>1. phase' # "bind"
    BY <1>6 DEF Project
  <2> QED BY <1>3, <1>6, <2>1, ProjectHolds
<1>7. CASE AddField
  <2>1. phase' # "bind"
    BY <1>7 DEF AddField
  <2> QED BY <1>3, <1>7, <2>1, AddFieldHolds
<1>8. CASE RemoveFields
  <2>1. phase' # "bind"
    BY <1>8 DEF RemoveFields
  <2> QED BY <1>3, <1>8, <2>1, RemoveFieldsHolds
<1>9. CASE Decorate
  BY <1>2, <1>9 DEF Decorate, Fail, projection, request
<1>10. CASE Query
  BY <1>2, <1>10 DEF Query, Fail, projection, request
<1>11. CASE Render
  BY <1>2, <1>11 DEF Render, Fail, projection, request
<1>12. CASE UNCHANGED vars
  BY <1>2, <1>12 DEF vars, projection, request
<1> QED
  BY <1>4, <1>5, <1>6, <1>7, <1>8, <1>9, <1>10, <1>11, <1>12 DEF Next, Done

(* The variables of FeatureProjection have their types.                    *)
THEOREM TypeCorrectness == Spec => []TypeOK
<1>1. Init => TypeInv
  BY TypesAtFirst
<1>2. Shape /\ TypeInv /\ [Next \/ Done]_vars => TypeInv'
  BY PhasesAreKept, ExtraIsKept, RelationsAreKept, ProjectionIsKept DEF TypeInv
<1>3. TypeInv => TypeOK
  <2> SUFFICES ASSUME TypeInv PROVE TypeOK
    OBVIOUS
  <2>1. ProjectionTypes
    BY DEF TypeInv
  <2> DEFINE R == Resolvable(ft)
  <2>2. roots \in Seq(R) /\ keys \in Seq(R) /\ \A p \in ToSet(keys) : children[p] \in Seq(R)
    BY <2>1 DEF ProjectionTypes
  <2> HIDE DEF R
  <2>3. AllElements \in Seq(R) /\ (roots = <<>> /\ keys = <<>> => ToSet(AllElements) = {})
    BY <2>2, AllElementsOf
  <2>4. ToSet(AllElements) \subseteq (IF phase = "bind" THEN {} ELSE R)
    BY <2>1, <2>3 DEF ProjectionTypes, ToSet
  <2>5. \A k \in DOMAIN keys : \A e \in ToSet(children[keys[k]]) : Front(e) = keys[k]
    BY <2>1 DEF ProjectionTypes, ToSet
  <2>6. DOMAIN children = ToSet(keys)
    BY <2>1 DEF ProjectionTypes
  <2> QED BY <2>4, <2>5, <2>6 DEF TypeInv, RelationsTypes, ExtraTypes, PhaseTypes, TypeOK, R
<1> QED
  BY <1>1, <1>2, <1>3, ShapeAlways, PTL DEF Spec

(***************************************************************************)
(* The cached matches of the projection.                                   *)
(***************************************************************************)

(* Nothing is cached or restored before __init__ is done; the property     *)
(* names stay what they were, and extra grows only where the cache is      *)
(* cleared or was never filled.                                            *)
Fresh == phase \in {"bind", "resolve", "project"} => extra = <<>> /\ cached = None
Current == NamesAreListed /\ Fresh /\ CachedIsCurrent

(* Nothing is cached at first.                                             *)
LEMMA CurrentAtFirst == Init => Current
<1> SUFFICES ASSUME Init PROVE Current
  OBVIOUS
<1>1. PICK f \in FeatureTypes : ft = Configured(f)
  BY DEF Init
<1>2. names \in PropertyNames[Configured(f).name]
  BY <1>1 DEF Init
<1>3. NamesAreListed
  BY <1>1, <1>2, PropertyNamesAssumption DEF NamesAreListed
<1> QED
  BY <1>3 DEF Init, Current, Fresh, CachedIsCurrent

(* The matches of the property names are a sequence, as the names are.     *)
LEMMA MatchesAreListed ==
    ASSUME NamesAreListed, names # None
    PROVE  NamedElements \o <<>> = NamedElements
<1> DEFINE Matched == {NamedElements[k] : k \in 1..Len(names)}
<1>1. names \in Seq(ToSet(names)) /\ Len(names) \in Nat /\ DOMAIN names = 1..Len(names)
  BY LenProperties DEF NamesAreListed
<1>2. NamedElements \in [1..Len(names) -> Matched]
  BY <1>1 DEF NamedElements
<1>3. NamedElements \in Seq(Matched)
  BY <1>1, <1>2, SeqDef
<1> QED
  BY <1>3, ConcatEmptySeq

(* Every step that changes what is projected clears the cache, or fills    *)
(* it.                                                                     *)
LEMMA CurrentIsKept == Current /\ [Next \/ Done]_vars => Current'
<1> SUFFICES ASSUME Current, [Next \/ Done]_vars PROVE Current'
  OBVIOUS
<1> USE DEF Current, NamesAreListed, Fresh, CachedIsCurrent, request
<1>0. NamedElements' = NamedElements /\ UNCHANGED names
  BY DEF NamedElements, Next, Done, vars, Bind, Resolve, Project, AddField, RemoveFields, Decorate,
         Query, Render, Fail
<1>1. CASE Bind
  BY <1>0, <1>1 DEF Bind, Fail, projection
<1>2. CASE Resolve
  BY <1>0, <1>2 DEF Resolve, Fail, projection
<1>3. CASE Project
  BY <1>0, <1>3, MatchesAreListed DEF Project, Given
<1>4. CASE AddField
  BY <1>0, <1>4 DEF AddField, Cleared
<1>5. CASE RemoveFields
  BY <1>0, <1>5 DEF RemoveFields, Cleared
<1>6. CASE Decorate
  BY <1>0, <1>6 DEF Decorate, Fail, projection, Matches
<1>7. CASE Query
  BY <1>0, <1>7 DEF Query, Fail, projection
<1>8. CASE Render
  BY <1>0, <1>8 DEF Render, Fail, projection
<1>9. CASE UNCHANGED vars
  BY <1>0, <1>9 DEF vars, projection
<1> QED
  BY <1>1, <1>2, <1>3, <1>4, <1>5, <1>6, <1>7, <1>8, <1>9 DEF Next, Done

(* Whatever fields the renderers add and remove, what is cached of a       *)
(* projection is what it holds (add_field and remove_fields of             *)
(* projection.py).                                                         *)
THEOREM CacheIsCurrent == Spec => []CachedIsCurrent
<1>1. Current => CachedIsCurrent
  BY DEF Current
<1> QED
  BY CurrentAtFirst, CurrentIsKept, <1>1, PTL DEF Spec

(***************************************************************************)
(* The order of sequences: what comes before an element.                   *)
(***************************************************************************)
IsBefore(x, s, i) == \E k \in 1..(i - 1) : s[k] = x

(* Of what FlattenSeq takes together, each element comes from one of the   *)
(* sequences, after what is before it there and in the sequences before.   *)
IsPlace(f, i, ss, m, p) ==
    /\ m \in Nat /\ m # 0 /\ p \in 1..Len(ss[m]) /\ f[i] = ss[m][p]
    /\ \A x : IsBefore(x, f, i) <=> IsBefore(x, ss[m], p) \/ IsInOne(x, ss, m - 1)

(* A run keeps what it has, and so its places.                             *)
LEMMA PlacesOfConcat ==
    ASSUME NEW T, NEW s \in Seq(T), NEW t \in Seq(T)
    PROVE  /\ \A i \in 1..Len(s) : (s \o t)[i] = s[i] /\ \A x : IsBefore(x, s \o t, i) <=> IsBefore(x, s, i)
           /\ \A i \in 1..Len(s \o t) : i \notin 1..Len(s) =>
                /\ i - Len(s) \in 1..Len(t) /\ (s \o t)[i] = t[i - Len(s)]
                /\ \A x : IsBefore(x, s \o t, i) <=> IsBefore(x, t, i - Len(s)) \/ x \in ToSet(s)
<1> DEFINE u == s \o t
<1>1. /\ u \in Seq(T) /\ Len(u) = Len(s) + Len(t)
      /\ \A i \in 1..Len(s) : u[i] = s[i]
      /\ \A i \in 1..Len(t) : u[Len(s) + i] = t[i]
  OBVIOUS
<1>2. /\ DOMAIN s = 1..Len(s) /\ Len(s) \in Nat /\ Len(t) \in Nat
  OBVIOUS
<1> HIDE DEF u
<1>3. ASSUME NEW i \in 1..Len(s), NEW x PROVE IsBefore(x, u, i) <=> IsBefore(x, s, i)
  <2>1. \A k \in 1..(i - 1) : k \in 1..Len(s) /\ u[k] = s[k]
    BY <1>1, <1>2
  <2> QED BY <2>1 DEF IsBefore
<1>4. ASSUME NEW i \in 1..Len(u), i \notin 1..Len(s)
      PROVE  /\ i - Len(s) \in 1..Len(t) /\ u[i] = t[i - Len(s)]
             /\ \A x : IsBefore(x, u, i) <=> IsBefore(x, t, i - Len(s)) \/ x \in ToSet(s)
  <2>1. i - Len(s) \in 1..Len(t) /\ i = Len(s) + (i - Len(s)) /\ i \in Nat
    BY <1>1, <1>2, <1>4
  <2>2. u[i] = t[i - Len(s)]
    BY <1>1, <2>1
  <2>3. ASSUME NEW x, IsBefore(x, u, i) PROVE IsBefore(x, t, i - Len(s)) \/ x \in ToSet(s)
    <3>1. PICK k \in 1..(i - 1) : u[k] = x
      BY <2>3 DEF IsBefore
    <3>2. CASE k \in 1..Len(s)
      BY <1>1, <1>2, <3>1, <3>2 DEF ToSet
    <3>3. CASE k \notin 1..Len(s)
      <4>1. k - Len(s) \in 1..((i - Len(s)) - 1) /\ k - Len(s) \in 1..Len(t) /\ k = Len(s) + (k - Len(s))
        BY <1>2, <2>1, <3>3
      <4>2. t[k - Len(s)] = x
        BY <1>1, <3>1, <4>1
      <4> QED BY <4>1, <4>2 DEF IsBefore
    <3> QED BY <3>2, <3>3
  <2>4. ASSUME NEW x, x \in ToSet(s) PROVE IsBefore(x, u, i)
    <3>1. PICK k \in 1..Len(s) : s[k] = x
      BY <1>2, <2>4 DEF ToSet
    <3>2. k \in 1..(i - 1) /\ u[k] = x
      BY <1>1, <1>2, <2>1, <3>1
    <3> QED BY <3>2 DEF IsBefore
  <2>5. ASSUME NEW x, IsBefore(x, t, i - Len(s)) PROVE IsBefore(x, u, i)
    <3>1. PICK k \in 1..((i - Len(s)) - 1) : t[k] = x
      BY <2>5 DEF IsBefore
    <3>2. k \in 1..Len(t) /\ Len(s) + k \in 1..(i - 1)
      BY <1>2, <2>1
    <3>3. u[Len(s) + k] = x
      BY <1>1, <3>1, <3>2
    <3> QED BY <3>2, <3>3 DEF IsBefore
  <2> QED BY <2>1, <2>2, <2>3, <2>4, <2>5
<1> QED
  BY <1>1, <1>3, <1>4 DEF u

(* A run on its first sequences is a run.                                  *)
LEMMA RunUpTo ==
    ASSUME NEW ss, NEW n \in Nat, NEW f, IsRun(f, ss, n), NEW m \in 1..n
    PROVE  /\ IsRun([i \in 1..m |-> f[i]], ss, m)
           /\ f[m] = IF m = 1 THEN ss[m] ELSE f[m - 1] \o ss[m]
<1>1. \A i \in 1..n : f[i] = IF i = 1 THEN ss[i] ELSE f[i - 1] \o ss[i]
  BY DEF IsRun
<1> DEFINE g == [i \in 1..m |-> f[i]]
<1>2. \A i \in 1..m : g[i] = IF i = 1 THEN ss[i] ELSE g[i - 1] \o ss[i]
  BY <1>1
<1>3. g = [i \in 1..m |-> g[i]]
  OBVIOUS
<1> HIDE DEF g
<1>4. g = [i \in 1..m |-> IF i = 1 THEN ss[i] ELSE g[i - 1] \o ss[i]]
  BY <1>2, <1>3
<1> QED
  BY <1>1, <1>4 DEF IsRun, g

(* The places of what FlattenSeq gives.                                    *)
LEMMA PlacesOfFlattening ==
    ASSUME NEW T, NEW n \in Nat, NEW ss \in [1..n -> Seq(T)],
           NEW i \in 1..Len(FlattenSeq(ss))
    PROVE  \E m \in 1..n : \E p \in 1..Len(ss[m]) : IsPlace(FlattenSeq(ss), i, ss, m, p)
<1>1. ss \in Seq(Seq(T)) /\ Len(ss) = n
  OBVIOUS
<1>2. CASE n = 0
  <2>1. FlattenSeq(ss) = ss
    BY <1>1, <1>2 DEF FlattenSeq
  <2> QED BY <1>1, <1>2, <2>1
<1>3. CASE n # 0
  <2>1. PICK f : IsRun(f, ss, n) /\ FlattenSeq(ss) = f[n]
    <3> DEFINE run == CHOOSE f : IsRun(f, ss, n)
    <3>1. IsRun(run, ss, n)
      BY RunExists
    <3>2. FlattenSeq(ss) = run[n]
      BY <1>1, <1>3 DEF FlattenSeq, IsRun
    <3> HIDE DEF run
    <3> QED BY <3>1, <3>2
  <2> DEFINE Placed(m, j) == \E a \in 1..m : \E p \in 1..Len(ss[a]) : IsPlace(f[m], j, ss, a, p)
             S == {m \in Nat : m \in 1..n => \A j \in 1..Len(f[m]) : Placed(m, j)}
  <2>2. \A m \in 1..n : f[m] = IF m = 1 THEN ss[m] ELSE f[m - 1] \o ss[m]
    <3> TAKE m \in 1..n
    <3> QED BY <2>1, RunUpTo
  <2>3. \A m \in 1..n : f[m] \in Seq(T) /\ \A x : x \in ToSet(f[m]) <=> IsInOne(x, ss, m)
    <3> SUFFICES ASSUME NEW m \in 1..n
                 PROVE  f[m] \in Seq(T) /\ \A x : x \in ToSet(f[m]) <=> IsInOne(x, ss, m)
      OBVIOUS
    <3> DEFINE g == [k \in 1..m |-> f[k]]
    <3>1. IsRun(g, ss, m) /\ g[m] = f[m]
      BY <2>1, RunUpTo
    <3>2. m \in Nat /\ m # 0 /\ \A k \in 1..m : ss[k] \in Seq(T)
      OBVIOUS
    <3> HIDE DEF g
    <3> QED BY <3>1, <3>2, FlatteningARun
  <2>4. 0 \in S
    <3> HIDE DEF Placed
    <3> QED OBVIOUS
  <2>5. ASSUME NEW m \in Nat, m \in S PROVE m + 1 \in S
    <3> SUFFICES ASSUME m + 1 \in 1..n, NEW j \in 1..Len(f[m + 1]) PROVE Placed(m + 1, j)
      <4> HIDE DEF Placed
      <4> QED OBVIOUS
    <3>1. CASE m = 0
      <4>1. f[m + 1] = ss[1] /\ m + 1 = 1
        BY <2>2, <3>1
      <4>2. \A x : ~IsInOne(x, ss, 1 - 1)
        BY DEF IsInOne
      <4>3. IsPlace(f[m + 1], j, ss, 1, j)
        BY <4>1, <4>2 DEF IsPlace
      <4> QED BY <4>1, <4>3
    <3>2. CASE m # 0
      <4>1. m \in 1..n /\ (m + 1) - 1 = m /\ m + 1 # 1
        BY <3>2
      <4>2. f[m + 1] = f[m] \o ss[m + 1]
        <5>1. f[m + 1] = f[(m + 1) - 1] \o ss[m + 1]
          BY <2>2, <4>1
        <5> QED BY <5>1, <4>1
      <4>3. \A k \in 1..Len(f[m]) : Placed(m, k)
        <5> HIDE DEF Placed
        <5> QED BY <2>5, <4>1
      <4>4. f[m] \in Seq(T) /\ ss[m + 1] \in Seq(T)
        BY <2>3, <4>1
      <4>5. CASE j \in 1..Len(f[m])
        <5>1. PICK a \in 1..m : \E p \in 1..Len(ss[a]) : IsPlace(f[m], j, ss, a, p)
          BY <4>3, <4>5
        <5>2. PICK p \in 1..Len(ss[a]) : IsPlace(f[m], j, ss, a, p)
          BY <5>1
        <5>3. f[m + 1][j] = f[m][j] /\ \A x : IsBefore(x, f[m + 1], j) <=> IsBefore(x, f[m], j)
          BY <4>2, <4>4, <4>5, PlacesOfConcat
        <5>4. IsPlace(f[m + 1], j, ss, a, p)
          BY <5>2, <5>3 DEF IsPlace
        <5>5. a \in 1..(m + 1)
          OBVIOUS
        <5> QED BY <5>4, <5>5
      <4>6. CASE j \notin 1..Len(f[m])
        <5>0. /\ j - Len(f[m]) \in 1..Len(ss[m + 1]) /\ f[m + 1][j] = ss[m + 1][j - Len(f[m])]
              /\ \A x : IsBefore(x, f[m + 1], j)
                        <=> IsBefore(x, ss[m + 1], j - Len(f[m])) \/ x \in ToSet(f[m])
          <6>1. j \in 1..Len(f[m] \o ss[m + 1])
            BY <4>2
          <6>2. /\ j - Len(f[m]) \in 1..Len(ss[m + 1])
                /\ (f[m] \o ss[m + 1])[j] = ss[m + 1][j - Len(f[m])]
                /\ \A x : IsBefore(x, f[m] \o ss[m + 1], j)
                          <=> IsBefore(x, ss[m + 1], j - Len(f[m])) \/ x \in ToSet(f[m])
            <7> DEFINE s == f[m]
                       t == ss[m + 1]
            <7>1. s \in Seq(T) /\ t \in Seq(T) /\ j \in 1..Len(s \o t) /\ j \notin 1..Len(s)
              BY <4>4, <4>6, <6>1
            <7> HIDE DEF s, t
            <7>2. /\ j - Len(s) \in 1..Len(t)
                  /\ (s \o t)[j] = t[j - Len(s)]
                  /\ \A x : IsBefore(x, s \o t, j) <=> IsBefore(x, t, j - Len(s)) \/ x \in ToSet(s)
              BY <7>1, PlacesOfConcat
            <7> QED BY <7>2 DEF s, t
          <6> QED BY <4>2, <6>2
        <5>1. PICK p : /\ p \in 1..Len(ss[m + 1]) /\ f[m + 1][j] = ss[m + 1][p]
              /\ \A x : IsBefore(x, f[m + 1], j) <=> IsBefore(x, ss[m + 1], p) \/ x \in ToSet(f[m])
          BY <5>0
        <5>2. \A x : x \in ToSet(f[m]) <=> IsInOne(x, ss, (m + 1) - 1)
          BY <2>3, <4>1
        <5>3. IsPlace(f[m + 1], j, ss, m + 1, p)
          BY <5>1, <5>2 DEF IsPlace
        <5>4. m + 1 \in 1..(m + 1)
          OBVIOUS
        <5> QED BY <5>1, <5>3, <5>4
      <4> QED BY <4>5, <4>6
    <3> QED BY <3>1, <3>2
  <2>6. Nat \subseteq S
    <3> HIDE DEF S
    <3> QED BY <2>4, <2>5, Induction
  <2>7. n \in S /\ n \in 1..n
    <3> HIDE DEF S
    <3> QED BY <1>3, <2>6
  <2>8. i \in 1..Len(f[n])
    BY <2>1
  <2>9. Placed(n, i)
    <3> HIDE DEF Placed
    <3> QED BY <2>7, <2>8
  <2> QED BY <2>1, <2>9
<1> QED
  BY <1>2, <1>3

(* What leads to an element comes before it, if it is there at all.        *)
ParentsFirst(s) ==
    \A i \in 1..Len(s) : \A x \in ToSet(s) : IsStrictPrefix(x, s[i]) => IsBefore(x, s, i)

(* What is before a place is in the sequence.                              *)
LEMMA BeforeIsIn ==
    ASSUME NEW T, NEW s \in Seq(T), NEW i \in 1..Len(s), NEW x
    PROVE  /\ s[i] \in ToSet(s)
           /\ IsBefore(x, s, i) => x \in ToSet(s)
           /\ IsBefore(x, s, i) <=> \E k \in 1..Len(s) : k < i /\ s[k] = x
<1>1. Len(s) \in Nat /\ DOMAIN s = 1..Len(s)
  OBVIOUS
<1>2. \A k \in 1..(i - 1) : k \in 1..Len(s) /\ k < i
  BY <1>1
<1>3. \A k \in 1..Len(s) : k < i => k \in 1..(i - 1)
  BY <1>1
<1> QED
  BY <1>1, <1>2, <1>3 DEF IsBefore, ToSet

(* Only takes the elements one by one.                                     *)
LEMMA PlacesOfOnly ==
    ASSUME NEW T, NEW s \in Seq(T), NEW S, NEW i \in 1..Len(Only(s, S))
    PROVE  \E m \in 1..Len(s) :
              /\ s[m] \in S /\ Only(s, S)[i] = s[m]
              /\ \A x \in S : IsBefore(x, s, m) => IsBefore(x, Only(s, S), i)
<1> DEFINE ss == [k \in DOMAIN s |-> IF s[k] \in S THEN <<s[k]>> ELSE <<>>]
           o == Only(s, S)
<1>1. Len(s) \in Nat /\ DOMAIN s = 1..Len(s)
  OBVIOUS
<1>2. ss \in [1..Len(s) -> Seq(T)]
  <2>1. \A k \in DOMAIN s : <<s[k]>> \in Seq(T) /\ <<>> \in Seq(T)
    OBVIOUS
  <2> QED BY <1>1, <2>1
<1>3. \A k \in 1..Len(s) : /\ s[k] \in S => ss[k] = <<s[k]>>
                           /\ s[k] \notin S => ss[k] = <<>>
  BY <1>1
<1>4. o = FlattenSeq(ss)
  BY DEF Only
<1> HIDE DEF ss, o
<1>5. PICK m \in 1..Len(s) : \E p \in 1..Len(ss[m]) : IsPlace(o, i, ss, m, p)
  <2>1. i \in 1..Len(FlattenSeq(ss))
    BY <1>4 DEF o
  <2> QED BY <1>1, <1>2, <1>4, <2>1, PlacesOfFlattening
<1>6. PICK p \in 1..Len(ss[m]) : IsPlace(o, i, ss, m, p)
  BY <1>5
<1>7. s[m] \in S /\ p = 1 /\ ss[m][1] = s[m]
  <2>1. CASE s[m] \in S
    BY <1>3, <2>1
  <2>2. CASE s[m] \notin S
    <3>1. Len(ss[m]) = 0
      BY <1>3, <2>2
    <3> QED BY <3>1
  <2> QED BY <2>1, <2>2
<1>8. o[i] = s[m]
  BY <1>6, <1>7 DEF IsPlace
<1>9. ASSUME NEW x \in S, IsBefore(x, s, m) PROVE IsBefore(x, o, i)
  <2>1. PICK k \in 1..(m - 1) : s[k] = x
    BY <1>9 DEF IsBefore
  <2>2. k \in 1..Len(s) /\ ss[k] = <<x>>
    BY <1>1, <1>3, <2>1
  <2>3. x \in ToSet(ss[k])
    BY <2>2 DEF ToSet
  <2>4. IsInOne(x, ss, m - 1)
    BY <2>3 DEF IsInOne
  <2> QED BY <1>6, <2>4 DEF IsPlace
<1> QED
  BY <1>7, <1>8, <1>9 DEF o

(* Leaving elements out does not change their order.                       *)
LEMMA OnlyKeepsOrder ==
    ASSUME NEW T, NEW s \in Seq(T), ParentsFirst(s), NEW S
    PROVE  ParentsFirst(Only(s, S))
<1> SUFFICES ASSUME NEW i \in 1..Len(Only(s, S)), NEW x \in ToSet(Only(s, S)),
                    IsStrictPrefix(x, Only(s, S)[i])
             PROVE  IsBefore(x, Only(s, S), i)
  BY DEF ParentsFirst
<1>1. PICK m \in 1..Len(s) :
              /\ s[m] \in S /\ Only(s, S)[i] = s[m]
              /\ \A y \in S : IsBefore(y, s, m) => IsBefore(y, Only(s, S), i)
  BY PlacesOfOnly
<1>2. x \in ToSet(s) /\ x \in S
  BY OnlyThose
<1>3. IsBefore(x, s, m)
  BY <1>1, <1>2 DEF ParentsFirst
<1> QED
  BY <1>1, <1>2, <1>3

(* Something in a sequence is there for a first time.                      *)
LEMMA FirstTime ==
    ASSUME NEW T, NEW s \in Seq(T), NEW i \in 1..Len(s)
    PROVE  \E k \in 1..i : s[k] = s[i] /\ ~IsBefore(s[i], s, k)
<1> DEFINE same == {k \in 1..i : s[k] = s[i]}
<1>1. same \subseteq Nat /\ same # {} /\ i \in Nat
  OBVIOUS
<1>2. PICK k \in same : \A j \in same : <<j, k>> \notin IsBelow
  <2> HIDE DEF same
  <2> QED BY <1>1, BelowIsWellFounded, WFMin
<1>3. ASSUME NEW j \in 1..(k - 1), s[j] = s[i] PROVE FALSE
  <2>1. j \in same /\ j < k /\ j \in Nat /\ k \in Nat
    BY <1>1, <1>2, <1>3
  <2> QED BY <1>2, <2>1 DEF IsBelow
<1> QED
  BY <1>2, <1>3 DEF IsBefore

(* WithoutRepeats takes what was not there before.                         *)
LEMMA PlacesWithoutRepeats ==
    ASSUME NEW T, NEW s \in Seq(T), NEW i \in 1..Len(WithoutRepeats(s))
    PROVE  \E m \in 1..Len(s) :
              /\ WithoutRepeats(s)[i] = s[m] /\ ~IsBefore(s[m], s, m)
              /\ \A x : IsBefore(x, s, m) <=> IsBefore(x, WithoutRepeats(s), i)
<1> DEFINE Seen(k) == \E j \in 1 .. k - 1 : s[j] = s[k]
           ss == [k \in DOMAIN s |-> IF \E j \in 1 .. k - 1 : s[j] = s[k] THEN <<>> ELSE <<s[k]>>]
           o == WithoutRepeats(s)
<1>1. Len(s) \in Nat /\ DOMAIN s = 1..Len(s)
  OBVIOUS
<1>2. ss \in [1..Len(s) -> Seq(T)]
  <2>1. \A k \in DOMAIN s : <<s[k]>> \in Seq(T) /\ <<>> \in Seq(T)
    OBVIOUS
  <2> QED BY <1>1, <2>1
<1>3. \A k \in 1..Len(s) : /\ ~Seen(k) => ss[k] = <<s[k]>>
                           /\ Seen(k) => ss[k] = <<>>
  BY <1>1
<1>a. \A k \in 1..Len(s) : Seen(k) <=> IsBefore(s[k], s, k)
  BY DEF IsBefore
<1>4. o = FlattenSeq(ss)
  BY DEF WithoutRepeats
<1> HIDE DEF ss, o, Seen
<1>5. PICK m \in 1..Len(s) : \E p \in 1..Len(ss[m]) : IsPlace(o, i, ss, m, p)
  <2>1. i \in 1..Len(FlattenSeq(ss))
    BY <1>4 DEF o
  <2> QED BY <1>1, <1>2, <1>4, <2>1, PlacesOfFlattening
<1>6. PICK p \in 1..Len(ss[m]) : IsPlace(o, i, ss, m, p)
  BY <1>5
<1>7. ~Seen(m) /\ p = 1 /\ ss[m][1] = s[m]
  <2>1. CASE ~Seen(m)
    <3>1. ss[m] = <<s[m]>>
      BY <1>3, <2>1
    <3>2. Len(ss[m]) = 1 /\ ss[m][1] = s[m]
      BY <3>1
    <3>3. p = 1
      BY <3>2
    <3> QED BY <2>1, <3>2, <3>3
  <2>2. CASE Seen(m)
    <3>1. Len(ss[m]) = 0
      BY <1>3, <2>2
    <3> QED BY <3>1
  <2> QED BY <2>1, <2>2
<1>8. o[i] = s[m]
  BY <1>6, <1>7 DEF IsPlace
<1>b. \A x : IsBefore(x, o, i) <=> IsBefore(x, ss[m], 1) \/ IsInOne(x, ss, m - 1)
  BY <1>6, <1>7 DEF IsPlace
<1>c. \A x : ~IsBefore(x, ss[m], 1)
  BY DEF IsBefore
<1>9. ASSUME NEW x, IsBefore(x, s, m) PROVE IsBefore(x, o, i)
  <2>1. PICK k \in 1..(m - 1) : s[k] = x
    BY <1>9 DEF IsBefore
  <2>2. PICK l \in 1..k : s[l] = s[k] /\ ~IsBefore(s[k], s, l)
    <3>1. k \in 1..Len(s)
      BY <1>1
    <3> QED BY <3>1, FirstTime
  <2>3. l \in 1..(m - 1) /\ l \in 1..Len(s)
    BY <1>1
  <2>4. ss[l] = <<x>>
    BY <1>3, <1>a, <2>1, <2>2, <2>3
  <2>5. x \in ToSet(ss[l])
    BY <2>4 DEF ToSet
  <2>6. IsInOne(x, ss, m - 1)
    BY <2>3, <2>5 DEF IsInOne
  <2> QED BY <1>b, <2>6
<1>10. ASSUME NEW x, IsBefore(x, o, i) PROVE IsBefore(x, s, m)
  <2>1. PICK k \in 1..(m - 1) : x \in ToSet(ss[k])
    BY <1>b, <1>c, <1>10 DEF IsInOne
  <2>2. k \in 1..Len(s)
    BY <1>1
  <2>3. CASE ~Seen(k)
    <3>1. ss[k] = <<s[k]>>
      BY <1>3, <2>2, <2>3
    <3>2. x = s[k]
      BY <2>1, <3>1 DEF ToSet
    <3> QED BY <3>2 DEF IsBefore
  <2>4. CASE Seen(k)
    <3>1. ss[k] = <<>>
      BY <1>3, <2>2, <2>4
    <3> QED BY <2>1, <3>1 DEF ToSet
  <2> QED BY <2>3, <2>4
<1> QED
  BY <1>7, <1>8, <1>9, <1>10, <1>a DEF o

(* Leaving out repeats does not change the order either.                   *)
LEMMA EachOnceKeepsOrder ==
    ASSUME NEW T, NEW s \in Seq(T), ParentsFirst(s)
    PROVE  /\ ParentsFirst(WithoutRepeats(s))
           /\ \A i \in 1..Len(WithoutRepeats(s)) : ~IsBefore(WithoutRepeats(s)[i], WithoutRepeats(s), i)
<1>1. ASSUME NEW i \in 1..Len(WithoutRepeats(s)), NEW x \in ToSet(WithoutRepeats(s)),
             IsStrictPrefix(x, WithoutRepeats(s)[i])
      PROVE  IsBefore(x, WithoutRepeats(s), i)
  <2>1. PICK m \in 1..Len(s) :
              /\ WithoutRepeats(s)[i] = s[m] /\ ~IsBefore(s[m], s, m)
              /\ \A y : IsBefore(y, s, m) <=> IsBefore(y, WithoutRepeats(s), i)
    BY PlacesWithoutRepeats
  <2>2. x \in ToSet(s)
    BY <1>1, EachOnce
  <2>3. IsBefore(x, s, m)
    BY <1>1, <2>1, <2>2 DEF ParentsFirst
  <2> QED BY <2>1, <2>3
<1>2. ASSUME NEW i \in 1..Len(WithoutRepeats(s))
      PROVE  ~IsBefore(WithoutRepeats(s)[i], WithoutRepeats(s), i)
  <2>1. PICK m \in 1..Len(s) :
              /\ WithoutRepeats(s)[i] = s[m] /\ ~IsBefore(s[m], s, m)
              /\ \A y : IsBefore(y, s, m) <=> IsBefore(y, WithoutRepeats(s), i)
    BY PlacesWithoutRepeats
  <2> QED BY <2>1
<1> QED
  BY <1>1, <1>2 DEF ParentsFirst

(* In such an order nothing is too late.                                   *)
LEMMA NothingComesTooLate ==
    ASSUME NEW T, NEW s \in Seq(T), ParentsFirst(WithoutRepeats(s)),
           \A i \in 1..Len(WithoutRepeats(s)) : ~IsBefore(WithoutRepeats(s)[i], WithoutRepeats(s), i),
           NEW i \in 1..Len(WithoutRepeats(s)), NEW j \in 1..Len(WithoutRepeats(s)), j < i
    PROVE  ~IsStrictPrefix(WithoutRepeats(s)[i], WithoutRepeats(s)[j])
<1> DEFINE w == WithoutRepeats(s)
<1> SUFFICES ASSUME IsStrictPrefix(w[i], w[j]) PROVE FALSE
  OBVIOUS
<1>1. w \in Seq(T)
  BY EachOnce
<1>2. w[i] \in ToSet(w)
  <2> HIDE DEF w
  <2> QED BY <1>1, BeforeIsIn DEF w
<1>3. IsBefore(w[i], w, j)
  BY <1>2 DEF ParentsFirst
<1>4. PICK k \in 1..(j - 1) : w[k] = w[i]
  BY <1>3 DEF IsBefore
<1>5. k \in 1..(i - 1)
  OBVIOUS
<1>6. IsBefore(w[i], w, i)
  BY <1>4, <1>5 DEF IsBefore
<1> QED
  BY <1>6

(* A strict prefix that is a path is a prefix of some length.              *)
LEMMA StrictPrefixes ==
    ASSUME NEW x, IsPath(x), NEW e, IsPath(e), IsStrictPrefix(x, e)
    PROVE  Len(x) \in 1..(Len(e) - 1) /\ x = Prefix(e, Len(x))
<1>1. /\ Len(x) \in Nat /\ Len(x) > 0 /\ Len(e) \in Nat
      /\ Prefix(x, Len(x)) = x /\ Prefix(e, Len(e)) = e
  BY PathParts
<1>2. Len(x) <= Len(e) /\ Prefix(x, Len(x)) = Prefix(e, Len(x)) /\ x # e
  BY DEF IsStrictPrefix, IsPrefix, Prefix
<1>3. Len(x) # Len(e)
  BY <1>1, <1>2
<1>4. Len(x) \in 1..(Len(e) - 1)
  <2> DEFINE a == Len(x)
             b == Len(e)
  <2>1. a \in Nat /\ a > 0 /\ b \in Nat /\ a <= b /\ a # b
    BY <1>1, <1>2, <1>3
  <2> HIDE DEF a, b
  <2>2. a \in 1..(b - 1)
    BY <2>1
  <2> QED BY <2>2 DEF a, b
<1> QED
  BY <1>1, <1>2, <1>4

(* The fields of a feature type come after what contains them.             *)
LEMMA FieldsComeAfterParents ==
    ASSUME NEW t, IsFeatureType(t)
    PROVE  ParentsFirst(t.order)
<1> DEFINE o == t.order
           D == DOMAIN t.fields
           Above(d) == \A j \in 1..Len(o) : d >= 1 /\ Len(o[j]) - d >= 1
                            => IsBefore(Prefix(o[j], Len(o[j]) - d), o, j)
           S == {d \in Nat : Above(d)}
<1>1. o \in Seq(D) /\ Len(o) \in Nat /\ DOMAIN o = 1..Len(o)
  BY OrderHasFields
<1>2. \A j \in 1..Len(o) : o[j] \in D /\ IsPath(o[j])
  BY <1>1, FieldIsPath
<1>3. 0 \in S
  OBVIOUS
<1>4. ASSUME NEW d \in Nat, d \in S PROVE d + 1 \in S
  <2> SUFFICES ASSUME NEW j \in 1..Len(o), Len(o[j]) - (d + 1) >= 1
               PROVE  IsBefore(Prefix(o[j], Len(o[j]) - (d + 1)), o, j)
    OBVIOUS
  <2> DEFINE e == o[j]
  <2>1. IsPath(e) /\ Len(e) \in Nat /\ Len(e) > 1 /\ Front(e) = Prefix(e, Len(e) - 1)
    BY <1>2, PathParts
  <2>2. PICK k \in 1 .. j - 1 : o[k] = Front(e)
    BY <1>1, <2>1 DEF IsFeatureType
  <2>3. k \in 1..Len(o) /\ k < j
    BY <1>1
  <2>4. CASE d = 0
    <3>1. Prefix(e, Len(e) - (d + 1)) = o[k]
      BY <2>1, <2>2, <2>4
    <3> QED BY <3>1 DEF IsBefore
  <2>5. CASE d # 0
    <3> DEFINE n == Len(e) - (d + 1)
    <3>1. Len(o[k]) = Len(e) - 1 /\ \A m \in 1..(Len(e) - 1) : Prefix(o[k], m) = Prefix(e, m)
      <4>1. Len(e) - 1 \in 1..Len(e)
        BY <2>1
      <4> HIDE DEF e, o
      <4>2. Len(Prefix(e, Len(e) - 1)) = Len(e) - 1
        BY <2>1, <4>1, PrefixParts
      <4>3. \A m \in 1..(Len(e) - 1) : Prefix(Prefix(e, Len(e) - 1), m) = Prefix(e, m)
        BY <2>1, <4>1, PrefixParts
      <4> QED BY <2>1, <2>2, <4>2, <4>3
    <3>2. d >= 1 /\ Len(o[k]) - d >= 1 /\ Len(o[k]) - d = n /\ n \in 1..(Len(e) - 1)
      <4>1. PICK a \in Nat : a = Len(e)
        BY <2>1
      <4>2. Len(o[k]) = a - 1 /\ a - (d + 1) >= 1 /\ n = a - (d + 1)
        BY <3>1, <4>1
      <4> HIDE DEF n, e, o
      <4>3. (a - 1) - d >= 1 /\ (a - 1) - d = n /\ n \in 1..(a - 1) /\ d >= 1
        BY <2>5, <4>2
      <4> QED BY <4>1, <4>2, <4>3
    <3>3. IsBefore(Prefix(o[k], n), o, k)
      BY <1>4, <2>3, <3>2
    <3>4. Prefix(o[k], n) = Prefix(e, n)
      BY <3>1, <3>2
    <3> HIDE DEF n, e, o
    <3>5. PICK m \in 1..(k - 1) : o[m] = Prefix(e, n)
      BY <3>3, <3>4 DEF IsBefore
    <3>6. m \in 1..(j - 1)
      BY <2>3
    <3>7. IsBefore(Prefix(e, n), o, j)
      BY <3>5, <3>6 DEF IsBefore
    <3> QED BY <3>7 DEF n, e
  <2> QED BY <2>4, <2>5
<1>5. Nat \subseteq S
  <2> HIDE DEF S
  <2> QED BY <1>3, <1>4, Induction
<1> SUFFICES ASSUME NEW i \in 1..Len(o), NEW x \in ToSet(o), IsStrictPrefix(x, o[i])
             PROVE  IsBefore(x, o, i)
  BY DEF ParentsFirst
<1>6. IsPath(x) /\ IsPath(o[i])
  BY <1>1, <1>2 DEF ToSet
<1>7. Len(x) \in 1..(Len(o[i]) - 1) /\ x = Prefix(o[i], Len(x)) /\ Len(o[i]) \in Nat
  BY <1>6, StrictPrefixes, PathParts
<1>8. PICK d \in Nat : d = Len(o[i]) - Len(x)
  BY <1>7
<1>9. d \in S /\ d >= 1 /\ Len(o[i]) - d >= 1 /\ Len(o[i]) - d = Len(x)
  <2> HIDE DEF S
  <2> QED BY <1>5, <1>7, <1>8
<1>10. IsBefore(Prefix(o[i], Len(o[i]) - d), o, i)
  <2> HIDE DEF o
  <2> QED BY <1>9
<1> QED
  BY <1>7, <1>9, <1>10

(* The nodes of an element are found from its first name to its last.      *)
LEMMA NodesComeAfterParents ==
    ASSUME NEW t, IsFeatureType(t), NEW e \in Resolvable(t), NEW p \in 1..Len(Nodes(e)),
           NEW x, IsPath(x), IsStrictPrefix(x, Nodes(e)[p])
    PROVE  IsBefore(x, Nodes(e), p)
<1>1. IsPath(e) /\ Len(e) \in Nat
  BY ResolvableParts, PathParts
<1>2. Nodes(e) = [k \in 1..Len(e) |-> Prefix(e, k)]
  BY DEF Nodes, Prefix
<1>3. p \in 1..Len(e) /\ Nodes(e)[p] = Prefix(e, p)
  BY <1>1, <1>2
<1>4. /\ IsPath(Prefix(e, p)) /\ Len(Prefix(e, p)) = p
      /\ \A i \in 1..p : Prefix(Prefix(e, p), i) = Prefix(e, i)
  BY <1>1, <1>3, PrefixParts
<1>5. Len(x) \in 1..(p - 1) /\ x = Prefix(Prefix(e, p), Len(x))
  BY <1>3, <1>4, StrictPrefixes
<1>6. Len(x) \in 1..p /\ Len(x) \in 1..Len(e)
  BY <1>1, <1>3, <1>5
<1>7. Nodes(e)[Len(x)] = x
  BY <1>2, <1>4, <1>5, <1>6
<1> QED
  BY <1>5, <1>7 DEF IsBefore

(* With PROPERTYNAME, the keys come after what contains them.              *)
LEMMA NamedComeAfterParents ==
    ASSUME NamesAreListed, Given, IsFeatureType(ft),
           \A i \in DOMAIN names : NamedElements[i] \in Resolvable(ft)
    PROVE  LET nodes == WithoutRepeats(FlattenSeq(
                            [k \in DOMAIN NamedElements |-> Nodes(NamedElements[k])]))
           IN  nodes \in Seq(Resolvable(ft)) /\ ParentsFirst(nodes)
<1> DEFINE lists == [k \in DOMAIN NamedElements |-> Nodes(NamedElements[k])]
           R == Resolvable(ft)
           all == FlattenSeq(lists)
<1>1. names \in Seq(ToSet(names)) /\ Len(names) \in Nat /\ DOMAIN names = 1..Len(names)
  <2>1. names # None
    BY DEF Given
  <2>2. names \in Seq(ToSet(names))
    BY <2>1 DEF NamesAreListed
  <2> QED BY <2>2
<1>2. DOMAIN NamedElements = 1..Len(names)
  BY <1>1 DEF NamedElements
<1>3. \A k \in 1..Len(names) : lists[k] = Nodes(NamedElements[k]) /\ lists[k] \in Seq(R)
                               /\ NamedElements[k] \in R
  BY <1>1, <1>2, NodesOf
<1>4. lists \in [1..Len(names) -> Seq(R)]
  BY <1>2, <1>3
<1> HIDE DEF lists, all
<1>5. all \in Seq(R)
  BY <1>1, <1>4, Flattening DEF all
<1>6. ParentsFirst(all)
  <2> SUFFICES ASSUME NEW i \in 1..Len(all), NEW x \in ToSet(all), IsStrictPrefix(x, all[i])
               PROVE  IsBefore(x, all, i)
    BY DEF ParentsFirst
  <2>1. x \in R
    BY <1>5 DEF ToSet
  <2>2. IsPath(x)
    BY <2>1, ResolvableParts
  <2>3. PICK m \in 1..Len(names) : \E p \in 1..Len(lists[m]) : IsPlace(all, i, lists, m, p)
    <3> HIDE DEF R
    <3>1. i \in 1..Len(FlattenSeq(lists))
      BY DEF all
    <3>2. \E m \in 1..Len(names) : \E p \in 1..Len(lists[m]) : IsPlace(FlattenSeq(lists), i, lists, m, p)
      BY <1>1, <1>4, <3>1, PlacesOfFlattening
    <3> QED BY <3>2 DEF all
  <2>4. PICK p \in 1..Len(lists[m]) : IsPlace(all, i, lists, m, p)
    BY <2>3
  <2>5. all[i] = lists[m][p] /\ lists[m] = Nodes(NamedElements[m])
    BY <1>3, <2>4 DEF IsPlace
  <2>6. IsBefore(x, lists[m], p)
    <3>1. IsStrictPrefix(x, Nodes(NamedElements[m])[p]) /\ p \in 1..Len(Nodes(NamedElements[m]))
      BY <2>5
    <3>2. NamedElements[m] \in Resolvable(ft)
      BY <1>3
    <3>3. IsBefore(x, Nodes(NamedElements[m]), p)
      BY <2>2, <3>1, <3>2, NodesComeAfterParents
    <3> QED BY <2>5, <3>3
  <2> QED BY <2>4, <2>6 DEF IsPlace
<1>7. WithoutRepeats(all) \in Seq(R) /\ ParentsFirst(WithoutRepeats(all))
  BY <1>5, <1>6, EachOnce, EachOnceKeepsOrder
<1> QED
  BY <1>7 DEF all, lists

(* The keys of the projection come after what contains them.               *)
Ordered == IsPast({"add", "remove", "decorate", "query", "render"}) => ParentsFirst(keys)

(* __init__() lists the keys in that order.                                *)
LEMMA ProjectOrders == Shape /\ Project => ParentsFirst(keys')
<1> SUFFICES ASSUME Shape, Project PROVE ParentsFirst(keys')
  OBVIOUS
<1>1. IsFeatureType(ft) /\ NamesAreListed
  BY DEF Shape
<1>2. CASE Given
  <2> DEFINE nodes == WithoutRepeats(FlattenSeq(
                            [k \in DOMAIN NamedElements |-> Nodes(NamedElements[k])]))
             S == {Front(e) : e \in ToSet(nodes)}
  <2>1. keys' = Only(nodes, S)
    BY <1>2 DEF Project
  <2>2. \A i \in DOMAIN names : NamedElements[i] \in Resolvable(ft)
    BY <1>2 DEF Shape, ResolveInv, IsPast, Project
  <2>2a. names # None
    BY <1>2 DEF Given
  <2>3. nodes \in Seq(Resolvable(ft)) /\ ParentsFirst(nodes)
    BY <1>1, <1>2, <2>2, NamedComeAfterParents
  <2> HIDE DEF nodes, S
  <2> QED BY <2>1, <2>3, OnlyKeepsOrder
<1>3. CASE ~Given
  <2>1. keys' = Only(ft.order, Complex(ft))
    BY <1>3 DEF Project, AllComplexElements
  <2>2. ft.order \in Seq(DOMAIN ft.fields) /\ ParentsFirst(ft.order)
    BY <1>1, OrderHasFields, FieldsComeAfterParents
  <2> QED BY <2>1, <2>2, OnlyKeepsOrder
<1> QED
  BY <1>2, <1>3

(* Every step keeps that order.                                            *)
LEMMA OrderIsKept == Shape /\ Ordered /\ [Next \/ Done]_vars => Ordered'
<1> SUFFICES ASSUME Shape, Ordered, [Next \/ Done]_vars, IsPast({"add", "remove", "decorate", "query", "render"})'
             PROVE  ParentsFirst(keys')
  BY DEF Ordered
<1>1. ASSUME keys' = keys, IsPast({"add", "remove", "decorate", "query", "render"})
      PROVE  ParentsFirst(keys')
  BY <1>1 DEF Ordered
<1>2. CASE Bind
  BY <1>1, <1>2 DEF Bind, Fail, IsPast, Shape, OutcomeInv, projection
<1>3. CASE Resolve
  BY <1>1, <1>3 DEF Resolve, Fail, IsPast, Shape, OutcomeInv, projection
<1>4. CASE Project
  BY <1>4, ProjectOrders
<1>5. CASE AddField
  BY <1>1, <1>5 DEF AddField, IsPast
<1>6. CASE RemoveFields
  <2>1. ParentsFirst(keys) /\ keys \in Seq(Resolvable(ft))
    BY <1>6 DEF RemoveFields, IsPast, Ordered, Shape, HoldsInv, Holds, KeysHold
  <2>2. CASE keys' = keys
    BY <2>1, <2>2
  <2>3. CASE keys' = Only(keys, ToSet(keys) \ RemovedKeys)
    BY <2>1, <2>3, OnlyKeepsOrder
  <2> QED BY <1>6, <2>2, <2>3 DEF RemoveFields
<1>7. CASE Decorate
  BY <1>1, <1>7 DEF Decorate, Fail, IsPast, projection
<1>8. CASE Query
  BY <1>1, <1>8 DEF Query, Fail, IsPast, projection
<1>9. CASE Render
  BY <1>1, <1>9 DEF Render, Fail, IsPast, projection
<1>10. CASE UNCHANGED vars
  BY <1>1, <1>10 DEF vars, IsPast, projection
<1> QED
  BY <1>2, <1>3, <1>4, <1>5, <1>6, <1>7, <1>8, <1>9, <1>10 DEF Next, Done

(***************************************************************************)
(* The way along an attribute, model by model.                             *)
(***************************************************************************)
ModelAfter(at, name) ==
    IF at # None /\ name \in DOMAIN Model[at] THEN Model[at][name].to ELSE None
IsAlong(f, model, attribute, m) ==
    f = [k \in 0..m |-> IF k = 0 THEN model
                        ELSE IF f[k - 1] # None /\ attribute[k] \in DOMAIN Model[f[k - 1]]
                        THEN Model[f[k - 1]][attribute[k]].to ELSE None]

(* The function that ModelsAlong is defined by exists.                     *)
LEMMA AlongExists ==
    ASSUME NEW model, NEW attribute, NEW m \in Nat
    PROVE  \E f : IsAlong(f, model, attribute, m)
<1> DEFINE Onward(k, at) == IF at # None /\ attribute[k] \in DOMAIN Model[at]
                            THEN Model[at][attribute[k]].to ELSE None
           S == {n \in Nat : \E f : f = [k \in 0..n |-> IF k = 0 THEN model ELSE Onward(k, f[k - 1])]}
<1> HIDE DEF Onward
<1>1. 0 \in S
  <2> DEFINE f == [k \in 0..0 |-> model]
  <2>1. \A k \in 0..0 : k = 0
    OBVIOUS
  <2>2. f = [k \in 0..0 |-> IF k = 0 THEN model ELSE Onward(k, f[k - 1])]
    BY <2>1
  <2> HIDE DEF f
  <2> QED BY <2>2
<1>2. ASSUME NEW n \in Nat, n \in S PROVE n + 1 \in S
  <2>1. PICK f : f = [k \in 0..n |-> IF k = 0 THEN model ELSE Onward(k, f[k - 1])]
    BY <1>2
  <2> DEFINE g == [k \in 0..(n + 1) |-> IF k = n + 1 THEN Onward(k, f[n]) ELSE f[k]]
  <2>2. \A k \in 0..n : f[k] = IF k = 0 THEN model ELSE Onward(k, f[k - 1])
    BY <2>1
  <2>3. ASSUME NEW k \in 0..(n + 1)
        PROVE  g[k] = IF k = 0 THEN model ELSE Onward(k, g[k - 1])
    <3>1. CASE k = n + 1
      <4>1. k # 0 /\ k - 1 = n /\ n \in 0..(n + 1) /\ n # n + 1
        BY <3>1
      <4>2. g[k - 1] = f[n] /\ g[k] = Onward(k, f[n])
        BY <3>1, <4>1
      <4> QED BY <4>1, <4>2
    <3>2. CASE k # n + 1
      <4>1. k \in 0..n /\ g[k] = f[k]
        BY <3>2
      <4>2. CASE k # 0
        <5>1. k - 1 \in 0..(n + 1) /\ k - 1 # n + 1
          BY <3>2, <4>2
        <5>2. g[k - 1] = f[k - 1]
          BY <5>1
        <5> QED BY <2>2, <4>1, <4>2, <5>2
      <4> QED BY <2>2, <4>1, <4>2
    <3> QED BY <3>1, <3>2
  <2>4. g = [k \in 0..(n + 1) |-> g[k]]
    OBVIOUS
  <2> HIDE DEF g
  <2>5. g = [k \in 0..(n + 1) |-> IF k = 0 THEN model ELSE Onward(k, g[k - 1])]
    BY <2>3, <2>4
  <2> QED BY <2>5
<1>3. Nat \subseteq S
  <2> HIDE DEF S
  <2> QED BY <1>1, <1>2, Induction
<1> QED
  BY <1>3 DEF IsAlong, Onward

(* It goes from model to model.                                            *)
LEMMA AlongStep ==
    ASSUME NEW model, NEW attribute, Len(attribute) \in Nat
    PROVE  /\ ModelsAlong(model, attribute)[0] = model
           /\ \A k \in 1..Len(attribute) :
                 ModelsAlong(model, attribute)[k]
                     = ModelAfter(ModelsAlong(model, attribute)[k - 1], attribute[k])
<1> DEFINE n == Len(attribute)
           at == CHOOSE f : IsAlong(f, model, attribute, n)
<1>1. IsAlong(at, model, attribute, n)
  BY AlongExists
<1>2. ModelsAlong(model, attribute) = at
  BY DEF ModelsAlong, IsAlong
<1> HIDE DEF at, n
<1>3. \A k \in 0..n : at[k] = IF k = 0 THEN model
                        ELSE IF at[k - 1] # None /\ attribute[k] \in DOMAIN Model[at[k - 1]]
                        THEN Model[at[k - 1]][attribute[k]].to ELSE None
  BY <1>1 DEF IsAlong
<1>4. n \in Nat /\ 0 \in 0..n /\ \A k \in 1..n : k \in 0..n /\ k # 0
  BY DEF n
<1>5. at[0] = model
  BY <1>3, <1>4
<1>6. \A k \in 1..n : at[k] = ModelAfter(at[k - 1], attribute[k])
  BY <1>3, <1>4 DEF ModelAfter
<1> QED
  BY <1>2, <1>5, <1>6 DEF n

(* It goes the same way along two attributes that begin alike.             *)
LEMMA AlongPrefix ==
    ASSUME NEW model, NEW a, Len(a) \in Nat, NEW p, Len(p) \in Nat, NEW m \in Nat,
           m <= Len(a), m <= Len(p), \A k \in 1..m : p[k] = a[k]
    PROVE  \A k \in 0..m : ModelsAlong(model, p)[k] = ModelsAlong(model, a)[k]
<1> DEFINE S == {k \in Nat : k <= m => ModelsAlong(model, p)[k] = ModelsAlong(model, a)[k]}
<1>1. 0 \in S
  BY AlongStep
<1>2. ASSUME NEW n \in Nat, n \in S PROVE n + 1 \in S
  <2> SUFFICES ASSUME n + 1 <= m
               PROVE  ModelsAlong(model, p)[n + 1] = ModelsAlong(model, a)[n + 1]
    OBVIOUS
  <2>1. n + 1 \in 1..m /\ n + 1 \in 1..Len(a) /\ n + 1 \in 1..Len(p) /\ (n + 1) - 1 = n /\ n <= m
    OBVIOUS
  <2>2. ModelsAlong(model, p)[n] = ModelsAlong(model, a)[n] /\ p[n + 1] = a[n + 1]
    BY <1>2, <2>1
  <2>3. ModelsAlong(model, p)[n + 1] = ModelAfter(ModelsAlong(model, p)[(n + 1) - 1], p[n + 1])
    BY <2>1, AlongStep
  <2>4. ModelsAlong(model, a)[n + 1] = ModelAfter(ModelsAlong(model, a)[(n + 1) - 1], a[n + 1])
    BY <2>1, AlongStep
  <2> QED BY <2>1, <2>2, <2>3, <2>4
<1>3. Nat \subseteq S
  <2> HIDE DEF S
  <2> QED BY <1>1, <1>2, Induction
<1> QED
  BY <1>3

(* What is reached is a model, or nothing.                                 *)
LEMMA AlongModels ==
    ASSUME NEW model \in DOMAIN Model, NEW a, Len(a) \in Nat
    PROVE  \A k \in 0..Len(a) : ModelsAlong(model, a)[k] \in DOMAIN Model \union {None}
<1> DEFINE at == ModelsAlong(model, a)
           S == {k \in Nat : k <= Len(a) => at[k] \in DOMAIN Model \union {None}}
<1>1. 0 \in S
  BY AlongStep
<1>2. ASSUME NEW n \in Nat, n \in S PROVE n + 1 \in S
  <2> SUFFICES ASSUME n + 1 <= Len(a)
               PROVE  at[n + 1] \in DOMAIN Model \union {None}
    OBVIOUS
  <2>1. n + 1 \in 1..Len(a) /\ (n + 1) - 1 = n /\ n <= Len(a)
    OBVIOUS
  <2>2. at[n] \in DOMAIN Model \union {None}
    BY <1>2, <2>1
  <2>3. at[n + 1] = ModelAfter(at[(n + 1) - 1], a[n + 1])
    BY <2>1, AlongStep
  <2>4. at[n + 1] = ModelAfter(at[n], a[n + 1])
    BY <2>1, <2>3
  <2> HIDE DEF at
  <2>5. CASE at[n] # None /\ a[n + 1] \in DOMAIN Model[at[n]]
    <3>1. at[n] \in DOMAIN Model /\ at[n + 1] = Model[at[n]][a[n + 1]].to
      BY <2>2, <2>4, <2>5 DEF ModelAfter
    <3> QED BY <2>5, <3>1, ModelAssumption
  <2>6. CASE ~(at[n] # None /\ a[n + 1] \in DOMAIN Model[at[n]])
    BY <2>4, <2>6 DEF ModelAfter
  <2> QED BY <2>5, <2>6
<1>3. Nat \subseteq S
  <2> HIDE DEF S
  <2> QED BY <1>1, <1>2, Induction
<1> QED
  BY <1>3

(* Where an attribute leads, each of its names but the last is a relation. *)
Between(a, k) == ModelsAlong(ft.model, a)[k]
(* Each of the names of an attribute is a field of the model before it.     *)
LEMMA LeadsStep ==
    ASSUME ft.model \in DOMAIN Model, NEW a, Len(a) \in Nat, Leads(ft.model, a)
    PROVE  \A k \in 1..Len(a) :
              /\ Between(a, k - 1) \in DOMAIN Model
              /\ a[k] \in DOMAIN Model[Between(a, k - 1)]
              /\ Between(a, k) = Model[Between(a, k - 1)][a[k]].to
              /\ k < Len(a) => IsRelation(Model[Between(a, k - 1)][a[k]])
<1> DEFINE at(k) == Between(a, k)
           n == Len(a)
           Good(k) == at(k - 1) \in DOMAIN Model /\ a[k] \in DOMAIN Model[at(k - 1)]
           S == {d \in Nat : d < n => Good(n - d)}
<1>1. \A k \in 1..n : at(k) = ModelAfter(at(k - 1), a[k])
  BY AlongStep DEF Between
<1>2. \A k \in 0..n : at(k) \in DOMAIN Model \union {None}
  BY AlongModels DEF Between
<1>3. at(n - 1) # None /\ a[n] \in DOMAIN Model[at(n - 1)]
  BY DEF Leads, Last, Between
<1> HIDE DEF at, n
<1>n. n \in Nat
  BY DEF n
<1>4. 0 \in S
  <2> SUFFICES ASSUME 0 < n PROVE Good(n - 0)
    OBVIOUS
  <2>1. n - 0 = n /\ n - 1 \in 0..n
    BY <1>n
  <2> QED BY <1>2, <1>3, <2>1
<1>5. ASSUME NEW d \in Nat, d \in S PROVE d + 1 \in S
  <2> SUFFICES ASSUME d + 1 < n PROVE Good(n - (d + 1))
    OBVIOUS
  <2>1. PICK k \in Nat : k = n - (d + 1)
    BY <1>n
  <2>2. k \in 1..n /\ k - 1 \in 0..n /\ n - d = k + 1 /\ (k + 1) - 1 = k /\ d < n
    BY <1>n, <2>1
  <2>3. at(k) \in DOMAIN Model
    <3>1. Good(n - d)
      <4> HIDE DEF Good
      <4> QED BY <1>5, <2>2
    <3>2. Good(k + 1)
      <4> HIDE DEF Good
      <4> QED BY <2>2, <3>1
    <3> QED BY <2>2, <3>2
  <2>4. at(k) # None
    BY <2>3, ModelAssumption
  <2>5. at(k - 1) # None /\ a[k] \in DOMAIN Model[at(k - 1)]
    BY <1>1, <2>2, <2>4 DEF ModelAfter
  <2>6. Good(k)
    BY <1>2, <2>2, <2>5
  <2> QED BY <2>1, <2>6
<1>6. Nat \subseteq S
  <2> HIDE DEF S
  <2> QED BY <1>4, <1>5, Induction
<1>7. \A k \in 1..n : Good(k)
  <2> TAKE k \in 1..n
  <2>1. n - k \in Nat /\ n - k < n /\ n - (n - k) = k
    BY <1>n
  <2>2. n - k \in S
    <3> HIDE DEF S
    <3> QED BY <1>6, <2>1
  <2>3. Good(n - (n - k))
    <3> HIDE DEF Good
    <3> QED BY <2>1, <2>2
  <2> HIDE DEF Good
  <2> QED BY <2>1, <2>3
<1>8. ASSUME NEW k \in 1..n
      PROVE  /\ at(k) = Model[at(k - 1)][a[k]].to
             /\ k < n => IsRelation(Model[at(k - 1)][a[k]])
  <2>0. at(k - 1) \in DOMAIN Model /\ a[k] \in DOMAIN Model[at(k - 1)]
    BY <1>7
  <2>1. at(k - 1) # None
    BY <2>0, ModelAssumption
  <2>2. at(k) = Model[at(k - 1)][a[k]].to
    BY <1>1, <2>0, <2>1 DEF ModelAfter
  <2>3. ASSUME k < n PROVE IsRelation(Model[at(k - 1)][a[k]])
    <3>1. k + 1 \in 1..n /\ (k + 1) - 1 = k
      BY <1>n, <2>3
    <3>2. Good(k + 1)
      <4> HIDE DEF Good
      <4> QED BY <1>7, <3>1
    <3>3. at(k) \in DOMAIN Model
      BY <3>1, <3>2
    <3>4. at(k) # None
      BY <3>3, ModelAssumption
    <3> QED BY <2>0, <2>2, <3>4, ModelAssumption
  <2> QED BY <2>2, <2>3
<1> QED
  BY <1>7, <1>8 DEF at, n

(***************************************************************************)
(* The attributes of a feature type whose relations are each followed by   *)
(* one element.                                                            *)
(***************************************************************************)

(* What FlattenSeq makes of sequences of one element.                      *)
LEMMA FlatteningOnes ==
    ASSUME NEW T, NEW n \in Nat, NEW ss \in [1..n -> Seq(T)], \A k \in 1..n : Len(ss[k]) = 1
    PROVE  Len(FlattenSeq(ss)) = n /\ \A k \in 1..n : FlattenSeq(ss)[k] = ss[k][1]
<1>1. ss \in Seq(Seq(T)) /\ Len(ss) = n
  OBVIOUS
<1>2. CASE n = 0
  <2>1. FlattenSeq(ss) = ss
    BY <1>1, <1>2 DEF FlattenSeq
  <2> QED BY <1>1, <1>2, <2>1
<1>3. CASE n # 0
  <2>1. PICK f : IsRun(f, ss, n) /\ FlattenSeq(ss) = f[n]
    <3> DEFINE run == CHOOSE f : IsRun(f, ss, n)
    <3>1. IsRun(run, ss, n)
      BY RunExists
    <3>2. FlattenSeq(ss) = run[n]
      BY <1>1, <1>3 DEF FlattenSeq, IsRun
    <3> HIDE DEF run
    <3> QED BY <3>1, <3>2
  <2> DEFINE Flat(m) == f[m] \in Seq(T) /\ Len(f[m]) = m /\ \A k \in 1..m : f[m][k] = ss[k][1]
             S == {m \in Nat : m \in 1..n => Flat(m)}
  <2>2. ASSUME NEW m \in 1..n PROVE f[m] = IF m = 1 THEN ss[m] ELSE f[m - 1] \o ss[m]
    BY <2>1, RunUpTo
  <2>3. 0 \in S
    <3> HIDE DEF Flat
    <3> QED OBVIOUS
  <2>4. ASSUME NEW m \in Nat, m \in S PROVE m + 1 \in S
    <3> SUFFICES ASSUME m + 1 \in 1..n PROVE Flat(m + 1)
      <4> HIDE DEF Flat
      <4> QED OBVIOUS
    <3>0. ss[m + 1] \in Seq(T) /\ Len(ss[m + 1]) = 1
      OBVIOUS
    <3>1. CASE m = 0
      <4>1. f[m + 1] = ss[1] /\ m + 1 = 1
        BY <2>2, <3>1
      <4>2. \A k \in 1..1 : k = 1
        OBVIOUS
      <4>3. f[1] \in Seq(T) /\ Len(f[1]) = 1
        BY <3>0, <4>1
      <4>4. \A k \in 1..1 : f[1][k] = ss[k][1]
        BY <4>1, <4>2
      <4> QED BY <4>1, <4>3, <4>4
    <3>2. CASE m # 0
      <4>1. m \in 1..n /\ (m + 1) - 1 = m /\ m + 1 # 1
        BY <3>2
      <4>2. f[m + 1] = f[m] \o ss[m + 1]
        <5>1. f[m + 1] = f[(m + 1) - 1] \o ss[m + 1]
          BY <2>2, <4>1
        <5> QED BY <5>1, <4>1
      <4>3. Flat(m)
        <5> HIDE DEF Flat
        <5> QED BY <2>4, <4>1
      <4> DEFINE s == f[m]
                 t == ss[m + 1]
                 u == f[m + 1]
      <4>4. s \in Seq(T) /\ t \in Seq(T) /\ Len(s) = m /\ Len(t) = 1 /\ u = s \o t
        BY <3>0, <4>2, <4>3
      <4>5. \A k \in 1..m : s[k] = ss[k][1]
        BY <4>3
      <4> HIDE DEF s, t, u
      <4>6. u \in Seq(T) /\ Len(u) = m + 1 /\ (\A k \in 1..m : u[k] = s[k]) /\ u[m + 1] = t[1]
        <5>0. /\ s \o t \in Seq(T) /\ Len(s \o t) = Len(s) + Len(t)
              /\ \A i \in 1 .. Len(s) + Len(t) : (s \o t)[i] =
                     IF i <= Len(s) THEN s[i] ELSE t[i - Len(s)]
          <6>1. s \in Seq(T) /\ t \in Seq(T)
            BY <4>4
          <6> QED BY <6>1, ConcatProperties
        <5>1. s \o t \in Seq(T) /\ Len(s \o t) = Len(s) + Len(t)
          BY <5>0
        <5>2. \A k \in 1..m : (s \o t)[k] = s[k]
          BY <4>4, <5>0
        <5>3. (s \o t)[m + 1] = t[1]
          <6>1. m + 1 \in 1..(m + 1) /\ ~(m + 1 <= m) /\ (m + 1) - m = 1
            OBVIOUS
          <6> QED BY <4>4, <5>0, <6>1
        <5> QED BY <4>4, <5>1, <5>2, <5>3
      <4>7. \A k \in 1..(m + 1) : k \in 1..m \/ k = m + 1
        OBVIOUS
      <4>8. \A k \in 1..(m + 1) : u[k] = ss[k][1]
        BY <4>5, <4>6, <4>7 DEF t
      <4> QED BY <4>6, <4>8 DEF u
    <3> QED BY <3>1, <3>2
  <2>5. Nat \subseteq S
    <3> HIDE DEF S
    <3> QED BY <2>3, <2>4, Induction
  <2>6. n \in S /\ n \in 1..n
    <3> HIDE DEF S
    <3> QED BY <1>3, <2>5
  <2>7. Flat(n)
    <3> HIDE DEF Flat
    <3> QED BY <2>6
  <2> QED BY <2>1, <2>7
<1> QED
  BY <1>2, <1>3

(* What FlattenSeq makes of one sequence.                                  *)
LEMMA FlatteningOne ==
    ASSUME NEW T, NEW ss \in [1..1 -> Seq(T)]
    PROVE  FlattenSeq(ss) = ss[1]
<1>0. 1 \in Nat
  OBVIOUS
<1>1. ss \in Seq(Seq(T)) /\ Len(ss) = 1
  <2> DEFINE U == Seq(T)
  <2>1. ss \in [1..1 -> U]
    OBVIOUS
  <2> HIDE DEF U
  <2>2. ss \in Seq(U) /\ Len(ss) = 1
    <3>1. 1 \in Nat /\ \E n \in Nat : ss \in [1..n -> U]
      BY <2>1
    <3>2. ss \in Seq(U)
      BY <3>1, SeqDef
    <3>3. DOMAIN ss = 1..1
      BY <2>1
    <3> QED BY <3>2, <3>3, LenProperties
  <2> QED BY <2>2 DEF U
<1>2. PICK f : IsRun(f, ss, 1) /\ FlattenSeq(ss) = f[1]
  <2> DEFINE run == CHOOSE f : IsRun(f, ss, 1)
  <2>1. IsRun(run, ss, 1)
    BY RunExists
  <2>2. FlattenSeq(ss) = run[1]
    BY <1>1 DEF FlattenSeq, IsRun
  <2> HIDE DEF run
  <2> QED BY <2>1, <2>2
<1>3. f[1] = ss[1]
  <2>1. f = [i \in 1..1 |-> IF i = 1 THEN ss[i] ELSE f[i - 1] \o ss[i]]
    BY <1>2 DEF IsRun
  <2>2. 1 \in 1..1
    OBVIOUS
  <2>3. f[1] = IF 1 = 1 THEN ss[1] ELSE f[1 - 1] \o ss[1]
    BY <2>1, <2>2, Zenon
  <2> QED BY <2>3
<1> QED
  BY <1>2, <1>3

(* The elements of GML itself have attributes of one name.                 *)
LEMMA AttributesOfOthers ==
    ASSUME NEW t, IsFeatureType(t), NEW e \in Resolvable(t), e \notin DOMAIN t.fields
    PROVE  ~IsFlattened(t, e) /\ e \notin Complex(t) /\ ~IsMany(t, e) /\ (IsGeometry(t, e) => e = BoundedBy)
<1>1. ASSUME NEW x PROVE Len(<<x>>) = 1
  OBVIOUS
<1>2. e \notin Complex(t) /\ ~IsMany(t, e) /\ (IsGeometry(t, e) => e = BoundedBy)
  BY DEF Complex, IsMany, IsGeometry
<1>a. ~IsAttribute(GmlName) /\ ~IsAttribute(BoundedBy) /\ GmlName # BoundedBy
  <2>1. GmlName # BoundedBy
    BY DEF GmlName, BoundedBy
  <2> QED BY <2>1, BaseIsPath
<1>3. CASE IsAttribute(e)
  <2>1. Attribute(t, e) = <<"id">>
    BY <1>a, <1>3 DEF Attribute
  <2> QED BY <1>1, <1>2, <2>1 DEF IsFlattened
<1>4. CASE ~IsAttribute(e) /\ e = GmlName
  <2>1. Attribute(t, e) = <<IF t.display = None THEN "name" ELSE t.display>>
    BY <1>a, <1>4 DEF Attribute
  <2> DEFINE x == IF t.display = None THEN "name" ELSE t.display
  <2>2. Attribute(t, e) = <<x>>
    BY <2>1
  <2> HIDE DEF x
  <2> QED BY <1>1, <1>2, <2>2 DEF IsFlattened
<1>5. CASE ~IsAttribute(e) /\ e # GmlName /\ e = BoundedBy
  <2>1. Attribute(t, e) = <<"boundedBy">>
    BY <1>5 DEF Attribute
  <2> QED BY <1>1, <1>2, <2>1 DEF IsFlattened
<1>6. CASE ~IsAttribute(e) /\ e # GmlName /\ e # BoundedBy
  <2>1. e \notin ToSet(BaseElements(t))
    BY <1>6, BaseElementsOf
  <2>2. ASSUME NEW node \in {Root} \union Complex(t), e = GmlId(node) PROVE FALSE
    BY <1>6, <2>2, GmlIdIsPath
  <2> QED BY <2>1, <2>2, ResolvableKinds
<1> QED
  BY <1>3, <1>4, <1>5, <1>6

(* A dotted attribute is that of an element of the feature itself.         *)
LEMMA DottedElements ==
    ASSUME IsFeatureType(ft), FollowedOnce, NEW e \in Resolvable(ft), IsFlattened(ft, e)
    PROVE  /\ e \in Flattened(ft) /\ e \in DOMAIN ft.fields /\ Len(e) = 1
           /\ ~IsGeometry(ft, e) /\ e \notin Complex(ft)
           /\ Absolute(ft, e) = Attribute(ft, e)
<1>1. e \in DOMAIN ft.fields
  BY AttributesOfOthers
<1>2. e \in Flattened(ft) /\ Len(e) = 1 /\ ~IsGeometry(ft, e) /\ e \notin Complex(ft)
  BY <1>1 DEF FollowedOnce, Flattened, Complex
<1>3. IsPath(e) /\ Prefix(e, 1) = e
  BY <1>2, ResolvableParts, PathParts
<1> DEFINE at == [k \in 1..Len(e) |-> Attribute(ft, SubSeq(e, 1, k))]
<1>4. PICK T : Attribute(ft, e) \in Seq(T)
  BY AttributeParts
<1>5. at = [k \in 1..1 |-> Attribute(ft, e)]
  <2>1. \A k \in 1..1 : SubSeq(e, 1, k) = e
    <3>1. \A k \in 1..1 : k = 1
      OBVIOUS
    <3> QED BY <1>3, <3>1 DEF Prefix
  <2> QED BY <1>2, <2>1
<1>6. at \in [1..1 -> Seq(T)] /\ at[1] = Attribute(ft, e)
  BY <1>4, <1>5
<1>7. Absolute(ft, e) = FlattenSeq(at)
  BY DEF Absolute
<1> HIDE DEF at
<1>8. FlattenSeq(at) = at[1]
  BY <1>6, FlatteningOne
<1> QED
  BY <1>1, <1>2, <1>6, <1>7, <1>8

(* The path to another attribute has a name for each name of the element.  *)
LEMMA PlainElements ==
    ASSUME IsFeatureType(ft), FollowedOnce, NEW e \in Resolvable(ft), ~IsFlattened(ft, e)
    PROVE  /\ \A k \in 1..Len(e) : Len(Attribute(ft, Prefix(e, k))) = 1
           /\ Len(Absolute(ft, e)) = Len(e)
           /\ \A k \in 1..Len(e) : Absolute(ft, e)[k] = Attribute(ft, Prefix(e, k))[1]
<1>1. IsPath(e) /\ Len(e) \in Nat /\ Prefix(e, Len(e)) = e
  BY ResolvableParts, PathParts
<1>2. ASSUME NEW k \in 1..Len(e)
      PROVE  Len(Attribute(ft, Prefix(e, k))) = 1 /\ \E T : Attribute(ft, Prefix(e, k)) \in Seq(T)
  <2>1. Prefix(e, k) \in Resolvable(ft) /\ (k < Len(e) => Prefix(e, k) \in Complex(ft))
    BY ResolvableParts
  <2>2. PICK T : Attribute(ft, Prefix(e, k)) \in Seq(T) /\ Len(Attribute(ft, Prefix(e, k))) > 0
    BY <2>1, AttributeParts
  <2>3. ~IsFlattened(ft, Prefix(e, k))
    <3>1. CASE k < Len(e)
      BY <2>1, <3>1, DottedElements
    <3>2. CASE k = Len(e)
      BY <1>1, <3>2
    <3> QED BY <1>1, <3>1, <3>2
  <2> DEFINE a == Attribute(ft, Prefix(e, k))
  <2>4. a \in Seq(T) /\ Len(a) > 0 /\ ~(Len(a) > 1)
    BY <2>2, <2>3 DEF IsFlattened
  <2> HIDE DEF a
  <2>5. Len(a) = 1
    <3>1. PICK n \in Nat : n = Len(a)
      BY <2>4
    <3> QED BY <2>4, <3>1
  <2> QED BY <2>4, <2>5 DEF a
<1> DEFINE at == [k \in 1..Len(e) |-> Attribute(ft, Prefix(e, k))]
           U == UNION {ToSet(at[k]) : k \in 1..Len(e)}
<1>3. ASSUME NEW k \in 1..Len(e) PROVE at[k] \in Seq(U)
  <2>1. PICK T : at[k] \in Seq(T)
    BY <1>2
  <2>2. at[k] \in Seq(ToSet(at[k]))
    <3> HIDE DEF at
    <3> QED BY <2>1, SequencesAre DEF IsSequence
  <2>3. ToSet(at[k]) \subseteq U
    OBVIOUS
  <2> HIDE DEF at, U
  <2> QED BY <2>2, <2>3
<1>4. at \in [1..Len(e) -> Seq(U)]
  <2> HIDE DEF U
  <2>1. DOMAIN at = 1..Len(e) /\ at = [k \in 1..Len(e) |-> at[k]]
    OBVIOUS
  <2> HIDE DEF at
  <2> QED BY <1>3, <2>1
<1>5. Absolute(ft, e) = FlattenSeq(at)
  BY DEF Absolute, Prefix
<1>6. \A k \in 1..Len(e) : Len(at[k]) = 1 /\ at[k] = Attribute(ft, Prefix(e, k))
  BY <1>2
<1> HIDE DEF at, U
<1>7. Len(FlattenSeq(at)) = Len(e) /\ \A k \in 1..Len(e) : FlattenSeq(at)[k] = at[k][1]
  BY <1>1, <1>4, <1>6, FlatteningOnes
<1> QED
  BY <1>2, <1>5, <1>6, <1>7

(* Such a path begins with the path to what leads to the element.          *)
LEMMA PlainPrefixes ==
    ASSUME IsFeatureType(ft), FollowedOnce, NEW e \in Resolvable(ft), ~IsFlattened(ft, e),
           NEW k \in 1..Len(e)
    PROVE  /\ Prefix(e, k) \in Resolvable(ft) /\ ~IsFlattened(ft, Prefix(e, k))
           /\ Absolute(ft, Prefix(e, k)) = Prefix(Absolute(ft, e), k)
           /\ IsPath(Absolute(ft, e)) /\ Len(Absolute(ft, e)) = Len(e)
<1>1. IsPath(e) /\ Len(e) \in Nat /\ Prefix(e, Len(e)) = e
  BY ResolvableParts, PathParts
<1> DEFINE p == Prefix(e, k)
           a == Absolute(ft, e)
           b == Absolute(ft, p)
<1>2. p \in Resolvable(ft) /\ (k < Len(e) => p \in Complex(ft))
  BY ResolvableParts
<1>3. ~IsFlattened(ft, p)
  <2>1. CASE k < Len(e)
    BY <1>2, <2>1, DottedElements
  <2>2. CASE k = Len(e)
    BY <1>1, <2>2
  <2> QED BY <1>1, <2>1, <2>2
<1>4. Len(p) = k /\ \A i \in 1..k : Prefix(p, i) = Prefix(e, i)
  BY <1>1, PrefixParts
<1>5. Len(b) = k /\ \A i \in 1..k : b[i] = Attribute(ft, Prefix(e, i))[1]
  BY <1>2, <1>3, <1>4, PlainElements
<1>6. Len(a) = Len(e) /\ \A i \in 1..Len(e) : a[i] = Attribute(ft, Prefix(e, i))[1]
  BY PlainElements
<1>7. a \in Seq(ToSet(a)) /\ b \in Seq(ToSet(b)) /\ a # <<>>
  BY <1>2, AbsoluteParts, PathsOfRelations DEF IsSequence
<1> HIDE DEF a, b, p
<1>8. IsPath(a)
  BY <1>7 DEF IsPath, Root
<1>9. b = Prefix(a, k)
  <2>1. /\ IsPath(Prefix(a, k)) /\ Len(Prefix(a, k)) = k /\ \A i \in 1..k : Prefix(a, k)[i] = a[i]
    BY <1>6, <1>8, PrefixParts
  <2>2. Prefix(a, k) \in Seq(ToSet(Prefix(a, k)))
    BY <2>1 DEF IsPath
  <2>3. \A i \in 1..k : b[i] = Prefix(a, k)[i]
    <3>1. \A i \in 1..k : i \in 1..Len(e)
      BY <1>1
    <3> QED BY <1>5, <1>6, <2>1, <3>1
  <2>4. b = [i \in 1..k |-> b[i]] /\ Prefix(a, k) = [i \in 1..k |-> Prefix(a, k)[i]]
    BY <1>5, <1>7, <2>1, <2>2
  <2> QED BY <2>3, <2>4
<1> QED
  BY <1>2, <1>3, <1>6, <1>8, <1>9 DEF a, b, p

(***************************************************************************)
(* The projection that a query is made of.                                 *)
(***************************************************************************)
InQuery == phase \in {"decorate", "query", "render"}
Bound ==
    /\ IsFeatureType(ft) /\ ft.model \in DOMAIN Model /\ MainGeometries(ft) # <<>>
    /\ \A e \in DOMAIN ft.fields : Bindable(ft, e)

(* What a key is, and what the projection holds, as sets.                  *)
LEMMA QueryParts ==
    ASSUME Shape, InQuery
    PROVE  /\ IsFeatureType(ft) /\ RequestInv
           /\ \A x : Shown(x) <=> (format # "gml" => ~Unshown(x))
           /\ roots \in Seq(Resolvable(ft)) /\ keys \in Seq(Resolvable(ft))
           /\ \A x : x \in ToSet(roots) <=> ((Chosen(x) /\ Len(x) = 1) \/ IsExtra(x)) /\ Shown(x)
           /\ \A p : p \in ToSet(keys) => IsParent(p)
           /\ \A p : IsParent(p) /\ Shown(p) => p \in ToSet(keys)
           /\ DOMAIN children = ToSet(keys)
           /\ \A p \in ToSet(keys) :
                 /\ children[p] \in Seq(Resolvable(ft))
                 /\ \A x : x \in ToSet(children[p]) <=> Chosen(x) /\ Front(x) = p /\ Shown(x)
<1>1. Added /\ (Trimmed <=> format # "gml") /\ Holds /\ RequestInv
  BY DEF InQuery, Added, Trimmed, IsPast, Shape, HoldsInv, BindInv, ResolveInv, RequestInv
<1>2. \A x : Shown(x) <=> (format # "gml" => ~Unshown(x))
  BY <1>1 DEF Shown
<1>3. RootsHold /\ KeysHold /\ ChildrenHold
  BY <1>1 DEF Holds
<1> QED
  BY <1>1, <1>2, <1>3 DEF Shape, RootsHold, KeysHold, ChildrenHold

(* What was chosen is an element of the feature type.                      *)
LEMMA ChosenAreElements ==
    ASSUME IsFeatureType(ft), RequestInv, NEW x, Chosen(x)
    PROVE  /\ x \in Resolvable(ft)
           /\ \A k \in 1..Len(x) : Chosen(Prefix(x, k)) /\ (k < Len(x) => IsParent(Prefix(x, k)))
<1>1. CASE Given
  <2>1. IsNode(x) /\ \A i \in DOMAIN names : NamedElements[i] \in Resolvable(ft)
    BY <1>1 DEF Chosen, RequestInv
  <2>2. x \in Resolvable(ft) /\ \A k \in 1..Len(x) : IsNode(Prefix(x, k))
    BY <2>1, NodeParts
  <2>3. ASSUME NEW k \in 1..Len(x), k < Len(x) PROVE IsParent(Prefix(x, k))
    <3>1. IsPath(x) /\ Len(x) \in Nat
      BY <2>2, ResolvableParts, PathParts
    <3>2. k + 1 \in 1..Len(x) /\ (k + 1) - 1 = k
      BY <2>3, <3>1
    <3>3. Front(Prefix(x, k + 1)) = Prefix(x, k)
      BY <3>1, <3>2, PrefixParts
    <3>4. Prefix(x, k + 1) \in Resolvable(ft) /\ IsNode(Prefix(x, k + 1)) /\ IsNode(Prefix(x, k))
      BY <2>2, <3>2, ResolvableParts
    <3> QED BY <1>1, <3>3, <3>4 DEF IsParent
  <2> QED BY <1>1, <2>2, <2>3 DEF Chosen
<1>2. CASE ~Given
  <2>1. x \in ToSet(BaseElements(ft)) \/ x \in DOMAIN ft.fields
    BY <1>2 DEF Chosen
  <2>2. x \in Resolvable(ft)
    BY <2>1, ResolvableKinds
  <2>3. IsPath(x) /\ Len(x) \in Nat /\ Len(x) > 0 /\ Prefix(x, Len(x)) = x
    BY <2>2, ResolvableParts, PathParts
  <2>4. ASSUME NEW k \in 1..Len(x)
        PROVE  Chosen(Prefix(x, k)) /\ (k < Len(x) => IsParent(Prefix(x, k)))
    <3>1. CASE k < Len(x)
      <4>1. Prefix(x, k) \in Complex(ft)
        BY <2>2, <3>1, ResolvableParts
      <4> QED BY <1>2, <3>1, <4>1, ComplexIsField DEF Chosen, IsParent
    <3>2. CASE k = Len(x)
      BY <2>3, <3>2
    <3> QED BY <2>3, <3>1, <3>2
  <2> QED BY <2>2, <2>4
<1> QED
  BY <1>1, <1>2

(* A parent is complex.                                                    *)
LEMMA ParentsHaveFields ==
    ASSUME IsFeatureType(ft), RequestInv, NEW p, IsParent(p)
    PROVE  p \in Complex(ft) /\ p \in DOMAIN ft.fields /\ IsPath(p) /\ p \in Resolvable(ft) /\ Chosen(p)
<1>1. p \in Complex(ft) /\ Chosen(p)
  <2>1. CASE Given
    <3>1. IsNode(p) /\ \A i \in DOMAIN names : NamedElements[i] \in Resolvable(ft)
      BY <2>1 DEF IsParent, RequestInv
    <3>2. PICK x \in Resolvable(ft) : Front(x) = p
      BY <2>1 DEF IsParent
    <3>3. p \in Resolvable(ft) /\ IsPath(p)
      BY <3>1, NodeParts, ResolvableParts
    <3>4. IsPath(x) /\ Len(x) \in Nat /\ Len(x) > 0 /\ Front(x) = Prefix(x, Len(x) - 1)
      BY <3>2, ResolvableParts, PathParts
    <3>5. Len(x) # 1
      BY <3>2, <3>3, <3>4, FrontOfOne DEF IsPath
    <3>6. Len(x) - 1 \in 1..Len(x) /\ Len(x) - 1 < Len(x)
      BY <3>4, <3>5
    <3>7. p \in Complex(ft)
      BY <3>2, <3>4, <3>6, ResolvableParts
    <3> QED BY <2>1, <3>1, <3>7 DEF Chosen
  <2>2. CASE ~Given
    BY <2>2, ComplexIsField DEF IsParent, Chosen
  <2> QED BY <2>1, <2>2
<1> QED
  BY <1>1, ComplexIsField, FieldIsPath, ResolvableKinds

(* What the projection shows of the feature type.                          *)
LEMMA AllElementsAre ==
    ASSUME Shape, InQuery
    PROVE  /\ AllElements \in Seq(Resolvable(ft))
           /\ \A x : x \in ToSet(AllElements) =>
                x \in Resolvable(ft) /\ (Chosen(x) \/ IsExtra(x)) /\ Shown(x)
           /\ \A x : x \in ToSet(roots) => x \in ToSet(AllElements)
           /\ \A p \in ToSet(keys) : \A x : x \in ToSet(children[p]) => x \in ToSet(AllElements)
<1> DEFINE lists == [k \in DOMAIN keys |-> children[keys[k]]]
           R == Resolvable(ft)
<1>0. /\ roots \in Seq(R) /\ keys \in Seq(R)
      /\ \A p \in ToSet(keys) : /\ children[p] \in Seq(R)
                                /\ \A x : x \in ToSet(children[p]) => Chosen(x) /\ Shown(x)
      /\ \A x : x \in ToSet(roots) => (Chosen(x) \/ IsExtra(x)) /\ Shown(x)
  BY QueryParts
<1> HIDE DEF R
<1>1. Len(keys) \in Nat /\ DOMAIN keys = 1..Len(keys)
  BY <1>0
<1>2. \A k \in 1..Len(keys) : keys[k] \in ToSet(keys) /\ lists[k] = children[keys[k]]
  BY <1>1 DEF ToSet
<1>3. lists \in [1..Len(keys) -> Seq(R)]
  BY <1>0, <1>1, <1>2
<1>4. AllElements = roots \o FlattenSeq(lists)
  BY DEF AllElements
<1> HIDE DEF lists
<1>5. /\ FlattenSeq(lists) \in Seq(R)
      /\ \A x : x \in ToSet(FlattenSeq(lists)) <=> IsInOne(x, lists, Len(keys))
  BY <1>1, <1>3, Flattening
<1>6. /\ AllElements \in Seq(R)
      /\ \A x : x \in ToSet(AllElements) <=> x \in ToSet(roots) \/ x \in ToSet(FlattenSeq(lists))
  BY <1>0, <1>4, <1>5, ElementsOfConcat
<1>7. ASSUME NEW x \in ToSet(AllElements) PROVE x \in R /\ (Chosen(x) \/ IsExtra(x)) /\ Shown(x)
  <2>1. x \in R
    BY <1>6 DEF ToSet
  <2>2. CASE x \in ToSet(roots)
    BY <1>0, <2>1, <2>2
  <2>3. CASE IsInOne(x, lists, Len(keys))
    <3>1. PICK k \in 1..Len(keys) : x \in ToSet(lists[k])
      BY <2>3 DEF IsInOne
    <3>2. keys[k] \in ToSet(keys) /\ x \in ToSet(children[keys[k]])
      BY <1>2, <3>1
    <3> QED BY <1>0, <2>1, <3>2
  <2> QED BY <1>5, <1>6, <2>2, <2>3
<1>8. ASSUME NEW p \in ToSet(keys), NEW x \in ToSet(children[p]) PROVE x \in ToSet(AllElements)
  <2>1. PICK k \in 1..Len(keys) : keys[k] = p
    BY <1>1 DEF ToSet
  <2>2. IsInOne(x, lists, Len(keys))
    BY <1>2, <2>1 DEF IsInOne
  <2> QED BY <1>5, <1>6, <2>2
<1> QED
  BY <1>6, <1>7, <1>8 DEF R

(* The elements whose relations are dotted.                                *)
LEMMA FlattenedAre ==
    ASSUME Shape, InQuery
    PROVE  /\ AllFlattened \in Seq(Resolvable(ft))
           /\ \A x \in ToSet(AllFlattened) : x \in Resolvable(ft) /\ IsFlattened(ft, x)
           /\ Given => \A x \in ToSet(AllElements) : IsFlattened(ft, x) => x \in ToSet(AllFlattened)
           /\ ~Given => \A x \in Children(ft, Root) : IsFlattened(ft, x) => x \in ToSet(AllFlattened)
<1>1. IsFeatureType(ft) /\ AllElements \in Seq(Resolvable(ft))
  BY AllElementsAre DEF Shape
<1>2. /\ AllFlattened \in Seq(Resolvable(ft))
      /\ \A x \in ToSet(AllFlattened) : IsFlattened(ft, x)
  BY <1>1, FlattenedAreResolvable
<1>3. ASSUME Given, NEW x \in ToSet(AllElements), IsFlattened(ft, x) PROVE x \in ToSet(AllFlattened)
  <2> DEFINE S == {e \in ToSet(AllElements) : IsFlattened(ft, e)}
  <2>1. AllFlattened = Only(AllElements, S)
    BY <1>3 DEF AllFlattened
  <2>2. x \in S
    BY <1>3
  <2> HIDE DEF S
  <2> QED BY <1>1, <2>1, <2>2, OnlyThose
<1>4. ASSUME ~Given, NEW x \in Children(ft, Root), IsFlattened(ft, x) PROVE x \in ToSet(AllFlattened)
  <2> DEFINE some == Elements(ft, Root)
             those == Flattened(ft)
  <2>1. AllFlattened = Only(some, those)
    BY <1>4 DEF AllFlattened, FlattenedElements
  <2>2. some \in Seq(DOMAIN ft.fields) /\ x \in ToSet(some)
    BY <1>1, ElementsOf
  <2>3. x \in those
    BY <1>4 DEF Flattened, Children
  <2> HIDE DEF some, those
  <2> QED BY <2>1, <2>2, <2>3, OnlyThose
<1>5. \A x \in ToSet(AllFlattened) : x \in Resolvable(ft)
  BY <1>2 DEF ToSet
<1> QED
  BY <1>2, <1>3, <1>4, <1>5

(* The relations that are followed.                                        *)
Relations1 == [k \in DOMAIN AllFlattened |-> OrmRelation(ft, AllFlattened[k])]
Relations2 == [k \in DOMAIN keys |-> Absolute(ft, keys[k])]
(* They hold where each shown element and each key leads to, once.          *)
LEMMA RelationPathsAre ==
    ASSUME Shape, InQuery
    PROVE  /\ RelationPaths = WithoutRepeats(Relations1 \o Relations2)
           /\ \E T : Relations1 \in Seq(T) /\ Relations2 \in Seq(T) /\ RelationPaths \in Seq(T)
           /\ Len(Relations1) = Len(AllFlattened) /\ Len(Relations2) = Len(keys)
           /\ \A r : r \in ToSet(RelationPaths) <=>
                 \/ \E e \in ToSet(AllFlattened) : r = OrmRelation(ft, e)
                 \/ \E p \in ToSet(keys) : r = Absolute(ft, p)
<1> DEFINE T == {OrmRelation(ft, e) : e \in ToSet(AllFlattened)} \union {Absolute(ft, e) : e \in ToSet(keys)}
<1>1. AllFlattened \in Seq(Resolvable(ft)) /\ keys \in Seq(Resolvable(ft))
  BY FlattenedAre, QueryParts
<1>2. /\ Len(AllFlattened) \in Nat /\ DOMAIN AllFlattened = 1..Len(AllFlattened)
      /\ Len(keys) \in Nat /\ DOMAIN keys = 1..Len(keys)
  BY <1>1
<1>3. /\ \A k \in 1..Len(AllFlattened) : OrmRelation(ft, AllFlattened[k]) \in T
      /\ \A k \in 1..Len(keys) : Absolute(ft, keys[k]) \in T
  BY <1>2 DEF ToSet
<1>4. \A r : r \in T <=> \/ \E e \in ToSet(AllFlattened) : r = OrmRelation(ft, e)
                         \/ \E p \in ToSet(keys) : r = Absolute(ft, p)
  OBVIOUS
<1> HIDE DEF T
<1>5. Relations1 \in Seq(T) /\ Len(Relations1) = Len(AllFlattened)
  BY <1>2, <1>3 DEF Relations1
<1>6. Relations2 \in Seq(T) /\ Len(Relations2) = Len(keys)
  BY <1>2, <1>3 DEF Relations2
<1>7. RelationPaths = WithoutRepeats(Relations1 \o Relations2)
  BY DEF RelationPaths, Relations1, Relations2
<1>8. /\ Relations1 \o Relations2 \in Seq(T)
      /\ \A x : x \in ToSet(Relations1 \o Relations2) <=> x \in ToSet(Relations1) \/ x \in ToSet(Relations2)
  BY <1>5, <1>6, ElementsOfConcat
<1>9. RelationPaths \in Seq(T) /\ ToSet(RelationPaths) = ToSet(Relations1 \o Relations2)
  BY <1>7, <1>8, EachOnce
<1>10. \A r : r \in ToSet(Relations1) <=> \E e \in ToSet(AllFlattened) : r = OrmRelation(ft, e)
  BY <1>2 DEF Relations1, ToSet
<1>11. \A r : r \in ToSet(Relations2) <=> \E e \in ToSet(keys) : r = Absolute(ft, e)
  BY <1>2 DEF Relations2, ToSet
<1> QED
  BY <1>5, <1>6, <1>7, <1>8, <1>9, <1>10, <1>11

(* No two elements follow a relation.                                      *)
LEMMA OneForARelation ==
    ASSUME IsFeatureType(ft), FollowedOnce
    PROVE  /\ \A d, e \in Complex(ft) : Absolute(ft, d) = Absolute(ft, e) => d = e
           /\ \A e \in Flattened(ft) :
                /\ \A d \in Complex(ft) : /\ ~IsPrefix(Absolute(ft, d), OrmRelation(ft, e))
                                          /\ ~IsPrefix(OrmRelation(ft, e), Absolute(ft, d))
                /\ \A d \in Flattened(ft) : ~IsStrictPrefix(OrmRelation(ft, d), OrmRelation(ft, e))
<1>1. \A x : x \in ToSet(AllComplexElements(ft)) <=> x \in Complex(ft)
  BY ComplexElementsOf
<1> QED
  BY <1>1 DEF FollowedOnce, Flattened

(* No dotted attribute ends in the other side of a foreign key.            *)
LEMMA NoneEndsInManager ==
    ASSUME Shape, InQuery, FollowedOnce
    PROVE  \A e \in ToSet(AllFlattened) : Source(ft, e).kind # "reverse"
<1> SUFFICES ASSUME NEW e \in ToSet(AllFlattened) PROVE Source(ft, e).kind # "reverse"
  OBVIOUS
<1>1. IsFeatureType(ft)
  BY QueryParts
<1>2. e \in Resolvable(ft) /\ IsFlattened(ft, e)
  BY FlattenedAre
<1>3. e \in DOMAIN ft.fields
  BY <1>1, <1>2, DottedElements
<1> QED
  BY <1>2, <1>3 DEF FollowedOnce

(* What is loaded for a complex element.                                   *)
LEMMA FieldsOfKey ==
    ASSUME Shape, InQuery, FollowedOnce, NEW p \in ToSet(keys)
    PROVE  /\ p \in Complex(ft) /\ p \in DOMAIN ft.fields /\ p \in Resolvable(ft) /\ IsPath(p)
           /\ FieldsAt(Absolute(ft, p)) = SubFields(p)
           /\ BackLinks(Absolute(ft, p)) =
                  IF Source(ft, p).kind = "reverse" THEN {Source(ft, p).back} ELSE {}
<1> DEFINE path == Absolute(ft, p)
           S == {q \in ToSet(keys) : Absolute(ft, q) = path}
           c == Only(keys, S)
<1>1. IsFeatureType(ft) /\ RequestInv /\ keys \in Seq(Resolvable(ft)) /\ \A q \in ToSet(keys) : IsParent(q)
  BY QueryParts
<1>2. \A q \in ToSet(keys) : q \in Complex(ft) /\ q \in DOMAIN ft.fields /\ IsPath(q) /\ q \in Resolvable(ft)
  BY <1>1, ParentsHaveFields
<1>3. S = {p}
  <2>1. \A q \in S : q = p
    BY <1>1, <1>2, OneForARelation
  <2> QED BY <2>1
<1>4. ComplexAt(path) = c
  BY DEF ComplexAt
<1> HIDE DEF S, c
<1>5. c \in Seq(Resolvable(ft)) /\ \A x : x \in ToSet(c) <=> x = p
  BY <1>1, <1>3, OnlyThose DEF c
<1>6. Len(c) \in Nat /\ DOMAIN c = 1..Len(c) /\ Len(c) # 0
  <2>1. Len(c) \in Nat /\ DOMAIN c = 1..Len(c)
    BY <1>5
  <2>2. p \in ToSet(c)
    BY <1>5
  <2>3. PICK k \in 1..Len(c) : c[k] = p
    BY <2>1, <2>2 DEF ToSet
  <2> QED BY <2>1, <2>3
<1>7. c # <<>> /\ Last(c) = p
  <2>1. Len(c) \in 1..Len(c)
    BY <1>6
  <2>2. c[Len(c)] \in ToSet(c)
    BY <1>6, <2>1 DEF ToSet
  <2> QED BY <1>5, <1>6, <2>2 DEF Last
<1>8. FieldsAt(path) = SubFields(p)
  BY <1>4, <1>7 DEF FieldsAt
<1>9. ToSet(c) = {p}
  BY <1>5
<1>10. \A e \in ToSet(AllFlattened) : Source(ft, e).kind # "reverse"
  BY <1>1, NoneEndsInManager
<1>11. {f \in ElementsAt(path) : Source(ft, f).kind = "reverse"} = IF Source(ft, p).kind = "reverse" THEN {p} ELSE {}
  BY <1>4, <1>9, <1>10 DEF ElementsAt
<1>12. BackLinks(path) = IF Source(ft, p).kind = "reverse" THEN {Source(ft, p).back} ELSE {}
  BY <1>11 DEF BackLinks
<1> QED
  BY <1>2, <1>8, <1>12

(* What is loaded for the relation of a dotted attribute.                  *)
LEMMA FieldsOfDotted ==
    ASSUME Shape, InQuery, FollowedOnce, NEW e \in ToSet(AllFlattened)
    PROVE  /\ e \in Flattened(ft) /\ e \in DOMAIN ft.fields
           /\ FieldsAt(OrmRelation(ft, e)) = {f \in ToSet(AllFlattened) : OrmRelation(ft, f) = OrmRelation(ft, e)}
           /\ BackLinks(OrmRelation(ft, e)) = {}
<1> DEFINE path == OrmRelation(ft, e)
           S == {q \in ToSet(keys) : Absolute(ft, q) = path}
           c == Only(keys, S)
<1>1. IsFeatureType(ft) /\ RequestInv /\ keys \in Seq(Resolvable(ft)) /\ \A q \in ToSet(keys) : IsParent(q)
  BY QueryParts
<1>2. e \in Flattened(ft) /\ e \in DOMAIN ft.fields
  BY <1>1, FlattenedAre, DottedElements
<1>3. S = {}
  <2> SUFFICES ASSUME NEW q \in S PROVE FALSE
    OBVIOUS
  <2>1. q \in Complex(ft) /\ q \in Resolvable(ft)
    BY <1>1, ParentsHaveFields
  <2>2. Len(Absolute(ft, q)) \in Nat
    BY <1>1, <2>1, AbsoluteParts DEF IsSequence
  <2>3. IsPrefix(path, path)
    BY <2>2 DEF IsPrefix
  <2> QED BY <1>1, <1>2, <2>1, <2>3, OneForARelation
<1>4. ComplexAt(path) = c
  BY DEF ComplexAt
<1> HIDE DEF S, c
<1>5. c \in Seq(Resolvable(ft)) /\ \A x : x \notin ToSet(c)
  BY <1>1, <1>3, OnlyThose DEF c
<1>6. c = <<>>
  <2>1. Len(c) \in Nat /\ DOMAIN c = 1..Len(c)
    BY <1>5
  <2>2. Len(c) = 0
    <3> SUFFICES ASSUME Len(c) # 0 PROVE FALSE
      OBVIOUS
    <3>1. 1 \in 1..Len(c)
      BY <2>1
    <3> QED BY <1>5, <2>1, <3>1 DEF ToSet
  <2> QED BY <1>5, <2>2
<1>7. FieldsAt(path) = {f \in ToSet(AllFlattened) : OrmRelation(ft, f) = path}
  BY <1>4, <1>6 DEF FieldsAt
<1>8. ToSet(c) = {}
  BY <1>5
<1>9. BackLinks(path) = {}
  <2>1. {f \in ElementsAt(path) : Source(ft, f).kind = "reverse"} = {}
    BY <1>4, <1>8, NoneEndsInManager DEF ElementsAt
  <2> QED BY <2>1 DEF BackLinks
<1> QED
  BY <1>2, <1>7, <1>9

(* A complex element leads to a model, the one its relation is to.         *)
LEMMA KeyModel ==
    ASSUME Bound, FollowedOnce, NEW p \in Complex(ft)
    PROVE  /\ Len(Absolute(ft, p)) = Len(p) /\ Len(p) \in Nat /\ Len(p) > 0
           /\ IsRelation(Source(ft, p))
           /\ ModelBehind(ft.model, Absolute(ft, p)) = Source(ft, p).to
           /\ ModelBehind(ft.model, Absolute(ft, p)) \in DOMAIN Model
           /\ "id" \in DOMAIN Model[ModelBehind(ft.model, Absolute(ft, p))]
           /\ Source(ft, p).kind = "reverse" =>
                 /\ Source(ft, p).back \in DOMAIN Model[ModelBehind(ft.model, Absolute(ft, p))]
                 /\ Model[ModelBehind(ft.model, Absolute(ft, p))][Source(ft, p).back].kind = "fk"
<1> DEFINE a == Absolute(ft, p)
           n == Len(a)
<1>1. p \in DOMAIN ft.fields /\ IsComplex(ft, p) /\ p \in Resolvable(ft)
  BY ComplexIsField, ResolvableKinds
<1>2. Leads(ft.model, a) /\ IsRelation(Source(ft, p))
  BY <1>1 DEF Bound, Bindable
<1>3. ~IsFlattened(ft, p)
  BY <1>1, DottedElements DEF Bound
<1>4. IsPath(p) /\ Len(p) \in Nat /\ Len(p) > 0 /\ n = Len(p)
  BY <1>1, <1>3, PlainElements, ResolvableParts, PathParts DEF Bound
<1>5. n \in 1..n
  BY <1>4
<1>6. /\ Between(a, n - 1) \in DOMAIN Model
      /\ a[n] \in DOMAIN Model[Between(a, n - 1)]
      /\ Between(a, n) = Model[Between(a, n - 1)][a[n]].to
  <2> HIDE DEF a
  <2>1. Len(a) \in Nat
    BY <1>4
  <2> QED BY <1>2, <1>5, <2>1, LeadsStep DEF Bound
<1>7. Source(ft, p) = Model[Between(a, n - 1)][a[n]]
  BY DEF Source, FieldAt, Last, Between
<1>8. ModelBehind(ft.model, a) = Between(a, n)
  BY DEF ModelBehind, Between
<1> HIDE DEF a, n
<1>9. ModelBehind(ft.model, a) = Source(ft, p).to
  BY <1>6, <1>7, <1>8
<1>10. Source(ft, p).to \in DOMAIN Model
  BY <1>2, <1>6, <1>7, ModelAssumption
<1>11. Source(ft, p).kind = "reverse" =>
          /\ Source(ft, p).back \in DOMAIN Model[Source(ft, p).to]
          /\ Model[Source(ft, p).to][Source(ft, p).back].kind = "fk"
  BY <1>6, <1>7, ModelAssumption
<1>12. "id" \in DOMAIN Model[Source(ft, p).to]
  BY <1>10, ModelAssumption
<1> QED
  BY <1>2, <1>4, <1>9, <1>10, <1>11, <1>12 DEF a, n

(* The name of a child of a complex element is one of that model.          *)
LEMMA ChildName ==
    ASSUME Bound, FollowedOnce, NEW p \in Complex(ft), NEW e \in Resolvable(ft), Front(e) = p
    PROVE  /\ ~IsFlattened(ft, e) /\ Len(e) = Len(p) + 1 /\ Prefix(e, Len(p)) = p
           /\ e \notin ToSet(BaseElements(ft)) /\ e # BoundedBy
           /\ Len(Attribute(ft, e)) = 1 /\ Last(Absolute(ft, e)) = Attribute(ft, e)[1]
           /\ Last(Absolute(ft, e)) \in DOMAIN Model[ModelBehind(ft.model, Absolute(ft, p))]
           /\ e \in DOMAIN ft.fields =>
                Source(ft, e) = Model[ModelBehind(ft.model, Absolute(ft, p))][Last(Absolute(ft, e))]
<1> DEFINE a == Absolute(ft, e)
           b == Absolute(ft, p)
           n == Len(e)
<1>1. IsFeatureType(ft)
  BY DEF Bound
<1>2. p \in DOMAIN ft.fields /\ p \in Resolvable(ft) /\ IsPath(p) /\ Len(p) \in Nat /\ Len(p) > 0
  BY <1>1, ComplexIsField, ResolvableKinds, FieldIsPath, PathParts
<1>3. IsPath(e) /\ n \in Nat /\ n = Len(p) + 1 /\ Prefix(e, Len(p)) = p /\ Prefix(e, n) = e
  <2>1. IsPath(e) /\ n \in Nat /\ Front(e) = Prefix(e, n - 1) /\ Len(Front(e)) = n - 1 /\ Prefix(e, n) = e
    BY <1>1, ResolvableParts, PathParts, FrontAndLast
  <2>2. n = Len(p) + 1 /\ n - 1 = Len(p)
    BY <1>2, <2>1
  <2> QED BY <2>1, <2>2
<1>4. ~IsFlattened(ft, e)
  <2>1. n # 1
    BY <1>2, <1>3
  <2> QED BY <1>1, <2>1, DottedElements
<1>5. e \notin ToSet(BaseElements(ft)) /\ e # BoundedBy
  <2>1. n # 1
    BY <1>2, <1>3
  <2>2. e \notin {GmlName, BoundedBy}
    BY <2>1, BaseIsPath
  <2> QED BY <2>2, BaseElementsOf
<1>6. /\ Len(a) = n /\ n \in 1..n /\ Len(Attribute(ft, e)) = 1 /\ a[n] = Attribute(ft, e)[1]
      /\ Len(p) \in 1..n
  <2>1. n \in 1..n /\ Len(p) \in 1..n
    BY <1>2, <1>3
  <2>2. Len(a) = Len(e) /\ Len(Attribute(ft, Prefix(e, n))) = 1 /\ a[n] = Attribute(ft, Prefix(e, n))[1]
    BY <1>1, <1>4, <2>1, PlainElements
  <2> QED BY <1>3, <2>1, <2>2
<1>7. b = Prefix(a, Len(p)) /\ IsPath(a)
  BY <1>1, <1>3, <1>4, <1>6, PlainPrefixes
<1>8. Last(a) = a[n]
  BY <1>6 DEF Last
<1>9. Len(b) = Len(p) /\ \A i \in 1..Len(p) : b[i] = a[i]
  <2> HIDE DEF a
  <2> QED BY <1>6, <1>7, PrefixParts
<1>10. Between(a, n - 1) = ModelBehind(ft.model, b)
  <2>1. Len(p) <= Len(a) /\ Len(a) \in Nat /\ Len(p) \in 0..Len(p) /\ n - 1 = Len(p)
    BY <1>2, <1>3, <1>6
  <2> HIDE DEF a, b, n
  <2>2. ModelsAlong(ft.model, b)[Len(p)] = ModelsAlong(ft.model, a)[Len(p)]
    <3>1. Len(p) <= Len(b) /\ Len(b) \in Nat /\ Len(p) \in Nat
      BY <1>2, <1>9
    <3> QED BY <1>9, <2>1, <3>1, AlongPrefix
  <2> QED BY <1>9, <2>1, <2>2 DEF Between, ModelBehind
<1>11. CASE e \in DOMAIN ft.fields
  <2>1. Leads(ft.model, a)
    BY <1>11 DEF Bound, Bindable
  <2>2. a[n] \in DOMAIN Model[Between(a, n - 1)]
    <3>1. Len(a) \in Nat /\ n \in 1..Len(a)
      BY <1>3, <1>6
    <3> HIDE DEF a, n
    <3> QED BY <2>1, <3>1, LeadsStep DEF Bound
  <2>3. Source(ft, e) = Model[Between(a, n - 1)][Last(a)]
    <3>1. Source(ft, e) = Model[ModelsAlong(ft.model, a)[Len(a) - 1]][Last(a)]
      BY DEF Source, FieldAt
    <3> QED BY <1>6, <3>1 DEF Between
  <2> QED BY <1>3, <1>4, <1>5, <1>6, <1>8, <1>10, <2>2, <2>3
<1>12. CASE e \notin DOMAIN ft.fields
  <2>1. PICK node \in {Root} \union Complex(ft) : e = GmlId(node)
    BY <1>5, <1>12, ResolvableKinds
  <2>2. Attribute(ft, e) = <<"id">>
    <3>1. IsAttribute(e)
      BY <1>1, <2>1, GmlIdIsPath
    <3>2. ~IsAttribute(GmlName) /\ ~IsAttribute(BoundedBy)
      BY BaseIsPath
    <3> QED BY <3>1, <3>2 DEF Attribute
  <2>3. a[n] = "id"
    BY <1>6, <2>2
  <2> QED BY <1>3, <1>4, <1>5, <1>6, <1>8, <1>12, <2>3, KeyModel
<1> QED
  BY <1>11, <1>12

(* A dotted attribute is one of the model that its relation leads to.      *)
LEMMA DottedName ==
    ASSUME Bound, FollowedOnce, NEW e \in Flattened(ft)
    PROVE  LET a == Absolute(ft, e)
           IN  /\ a = Attribute(ft, e) /\ IsPath(a) /\ Len(a) > 1 /\ Len(e) = 1 /\ ~IsGeometry(ft, e)
               /\ OrmRelation(ft, e) = Prefix(a, Len(a) - 1) /\ Len(OrmRelation(ft, e)) = Len(a) - 1
               /\ ModelBehind(ft.model, OrmRelation(ft, e)) = Between(a, Len(a) - 1)
               /\ ModelBehind(ft.model, OrmRelation(ft, e)) \in DOMAIN Model
               /\ Last(a) \in DOMAIN Model[ModelBehind(ft.model, OrmRelation(ft, e))]
               /\ "id" \in DOMAIN Model[ModelBehind(ft.model, OrmRelation(ft, e))]
               /\ Source(ft, e) = Model[ModelBehind(ft.model, OrmRelation(ft, e))][Last(a)]
<1> DEFINE a == Absolute(ft, e)
           n == Len(a)
<1>1. IsFeatureType(ft) /\ e \in DOMAIN ft.fields /\ IsFlattened(ft, e) /\ e \in Resolvable(ft)
  BY ResolvableKinds DEF Bound, Flattened
<1>2. a = Attribute(ft, e) /\ Len(e) = 1 /\ ~IsGeometry(ft, e)
  BY <1>1, DottedElements
<1>3. a \in Seq(ToSet(a)) /\ a # <<>> /\ n > 1
  BY <1>1, <1>2, AbsoluteParts, PathsOfRelations DEF IsSequence, IsFlattened
<1>4. IsPath(a)
  BY <1>3 DEF IsPath, Root
<1>5. n \in Nat /\ Front(a) = Prefix(a, n - 1) /\ Len(Front(a)) = n - 1 /\ Last(a) = a[n]
  <2> HIDE DEF a
  <2> QED BY <1>4, PathParts, FrontAndLast
<1>6. Leads(ft.model, a)
  BY <1>1 DEF Bound, Bindable
<1>7. OrmRelation(ft, e) = Front(a)
  BY DEF OrmRelation
<1>8. Source(ft, e) = Model[Between(a, n - 1)][Last(a)]
  BY DEF Source, FieldAt, Between
<1> HIDE DEF a, n
<1>9. Between(a, n - 1) \in DOMAIN Model /\ a[n] \in DOMAIN Model[Between(a, n - 1)]
  <2>1. Len(a) \in Nat /\ n \in 1..Len(a)
    BY <1>3, <1>5 DEF n
  <2> QED BY <1>6, <2>1, LeadsStep DEF Bound
<1>10. ModelBehind(ft.model, Front(a)) = Between(a, n - 1)
  <2> DEFINE m == n - 1
             b == Front(a)
  <2>1. m \in Nat /\ m <= Len(a) /\ Len(a) \in Nat /\ Len(b) = m /\ m <= Len(b) /\ m \in 0..m /\ m \in 1..Len(a)
    BY <1>3, <1>5 DEF n
  <2>2. \A k \in 1..m : b[k] = a[k]
    <3> HIDE DEF m
    <3> QED BY <1>4, <1>5, <2>1, PrefixParts DEF m
  <2> HIDE DEF m, b
  <2>3. ModelsAlong(ft.model, b)[m] = ModelsAlong(ft.model, a)[m]
    <3>1. \A k \in 0..m : ModelsAlong(ft.model, b)[k] = ModelsAlong(ft.model, a)[k]
      BY <2>1, <2>2, AlongPrefix
    <3> QED BY <2>1, <3>1
  <2> QED BY <2>1, <2>3 DEF ModelBehind, Between, b, m
<1> QED
  BY <1>2, <1>3, <1>4, <1>5, <1>7, <1>8, <1>9, <1>10, ModelAssumption DEF a, n

(* A column that is loaded for a relation is one of its model.             *)
Known(path) == DOMAIN Model[ModelBehind(ft.model, path)]
(* What is loaded for a relation belongs to the model behind it.            *)
LEMMA LoadedAreKnown ==
    ASSUME Shape, InQuery, Bound, FollowedOnce, NEW path \in ToSet(RelationPaths)
    PROVE  PrefetchOf(path).loaded \subseteq Known(path) /\ ModelBehind(ft.model, path) \in DOMAIN Model
<1>1. PrefetchOf(path).loaded \subseteq {"id"} \union LocalNames(path)
  BY DEF PrefetchOf
<1>2. CASE \E p \in ToSet(keys) : path = Absolute(ft, p)
  <2>1. PICK p \in ToSet(keys) : path = Absolute(ft, p)
    BY <1>2
  <2>2. p \in Complex(ft) /\ FieldsAt(path) = SubFields(p)
        /\ BackLinks(path) = IF Source(ft, p).kind = "reverse" THEN {Source(ft, p).back} ELSE {}
    BY <2>1, FieldsOfKey
  <2>3. /\ "id" \in Known(path) /\ ModelBehind(ft.model, path) \in DOMAIN Model
        /\ Source(ft, p).kind = "reverse" => Source(ft, p).back \in Known(path)
    BY <2>1, <2>2, KeyModel DEF Known
  <2>4. ASSUME NEW e \in FieldsAt(path) PROVE Last(Absolute(ft, e)) \in Known(path)
    <3>1. e \in ToSet(children[p])
      BY <2>2, <2>4 DEF SubFields
    <3>2. e \in Resolvable(ft) /\ Front(e) = p
      <4>1. children[p] \in Seq(Resolvable(ft)) /\ Front(e) = p
        BY <3>1, QueryParts
      <4> QED BY <3>1, <4>1 DEF ToSet
    <3> QED BY <2>1, <2>2, <3>2, ChildName DEF Known
  <2>5. LocalNames(path) \subseteq Known(path)
    BY <2>2, <2>3, <2>4 DEF LocalNames
  <2> QED BY <1>1, <2>3, <2>5
<1>3. CASE \E e \in ToSet(AllFlattened) : path = OrmRelation(ft, e)
  <2>1. PICK e \in ToSet(AllFlattened) : path = OrmRelation(ft, e)
    BY <1>3
  <2>2. /\ e \in Flattened(ft) /\ BackLinks(path) = {}
        /\ FieldsAt(path) = {f \in ToSet(AllFlattened) : OrmRelation(ft, f) = path}
    BY <2>1, FieldsOfDotted
  <2>3. "id" \in Known(path) /\ ModelBehind(ft.model, path) \in DOMAIN Model
    BY <2>1, <2>2, DottedName DEF Known
  <2>4. ASSUME NEW f \in FieldsAt(path) PROVE Last(Absolute(ft, f)) \in Known(path)
    <3>1. f \in ToSet(AllFlattened) /\ OrmRelation(ft, f) = path
      BY <2>2, <2>4
    <3>2. f \in Flattened(ft)
      BY <3>1, FieldsOfDotted
    <3> QED BY <3>1, <3>2, DottedName DEF Known
  <2>5. LocalNames(path) \subseteq Known(path)
    BY <2>2, <2>4 DEF LocalNames
  <2> QED BY <1>1, <2>3, <2>5
<1> QED
  BY <1>2, <1>3, RelationPathsAre

(* Geometries are only rendered for complex elements, by their own name.   *)
LEMMA RenderedAre ==
    ASSUME Shape, InQuery, Bound, FollowedOnce, NEW path \in ToSet(RelationPaths), NEW a \in Rendered(path)
    PROVE  \E p \in ToSet(keys) : \E e \in ToSet(children[p]) :
              /\ path = Absolute(ft, p) /\ e \in DOMAIN ft.fields /\ e \in Resolvable(ft)
              /\ Front(e) = p /\ IsGeometry(ft, e) /\ a = Attribute(ft, e)
<1>1. PICK e \in FieldsAt(path) : IsGeometry(ft, e) /\ a = Attribute(ft, e)
  BY DEF Rendered, GeometriesAt
<1>2. CASE \E p \in ToSet(keys) : path = Absolute(ft, p)
  <2>1. PICK p \in ToSet(keys) : path = Absolute(ft, p)
    BY <1>2
  <2>2. p \in Complex(ft) /\ e \in ToSet(children[p])
    BY <1>1, <2>1, FieldsOfKey DEF SubFields
  <2>3. e \in Resolvable(ft) /\ Front(e) = p
    <3>1. children[p] \in Seq(Resolvable(ft)) /\ Front(e) = p
      BY <2>2, QueryParts
    <3> QED BY <2>2, <3>1 DEF ToSet
  <2>4. e # BoundedBy
    BY <2>2, <2>3, ChildName
  <2>5. e \in DOMAIN ft.fields
    BY <1>1, <2>4 DEF IsGeometry
  <2> QED BY <1>1, <2>1, <2>2, <2>3, <2>5
<1>3. CASE \E f \in ToSet(AllFlattened) : path = OrmRelation(ft, f)
  <2>1. PICK f \in ToSet(AllFlattened) : path = OrmRelation(ft, f)
    BY <1>3
  <2>2. e \in ToSet(AllFlattened)
    BY <1>1, <2>1, FieldsOfDotted
  <2>3. e \in Flattened(ft)
    BY <2>2, FieldsOfDotted
  <2> QED BY <1>1, <2>3, DottedName
<1> QED
  BY <1>2, <1>3, RelationPathsAre

(* annotate() finds what it is to render.                                  *)
LEMMA AttributesAreRight ==
    ASSUME Shape, InQuery, Bound, FollowedOnce
    PROVE  ~WrongAttribute
<1> SUFFICES ASSUME NEW path \in ToSet(RelationPaths), NEW a \in Rendered(path)
             PROVE  Leads(ModelBehind(ft.model, path), a)
  BY DEF WrongAttribute
<1>0. PICK p \in ToSet(keys) : \E e \in ToSet(children[p]) :
              /\ path = Absolute(ft, p) /\ e \in DOMAIN ft.fields /\ e \in Resolvable(ft)
              /\ Front(e) = p /\ IsGeometry(ft, e) /\ a = Attribute(ft, e)
  BY RenderedAre
<1>1. PICK e \in ToSet(children[p]) :
              /\ path = Absolute(ft, p) /\ e \in DOMAIN ft.fields /\ e \in Resolvable(ft)
              /\ Front(e) = p /\ IsGeometry(ft, e) /\ a = Attribute(ft, e)
  BY <1>0
<1>2. p \in Complex(ft)
  BY FieldsOfKey
<1> DEFINE m == ModelBehind(ft.model, path)
<1>3. m \in DOMAIN Model
  BY <1>1, <1>2, KeyModel
<1>4. Len(a) = 1 /\ a[1] \in DOMAIN Model[m]
  BY <1>1, <1>2, ChildName
<1> HIDE DEF m
<1>5. ModelsAlong(m, a)[0] = m
  BY <1>4, AlongStep
<1>6. a # <<>>
  <2> SUFFICES ASSUME a = <<>> PROVE FALSE
    OBVIOUS
  <2>1. Len(a) = 0
    OBVIOUS
  <2> QED BY <1>4, <2>1
<1>7. m # None
  BY <1>3, ModelAssumption
<1> QED
  BY <1>4, <1>5, <1>6, <1>7 DEF Leads, Last, m

(***************************************************************************)
(* Nothing goes wrong in the query.                                        *)
(***************************************************************************)
(* What was chosen by names was named, or contains what was named.         *)
LEMMA ChosenByName ==
    ASSUME IsFeatureType(ft), RequestInv, Given, NEW x, Chosen(x)
    PROVE  x \in ToSet(NamedElements) \/ (x \in Complex(ft) /\ IsParent(x))
<1>1. PICK i \in DOMAIN names : x \in ToSet(Nodes(NamedElements[i]))
  BY DEF Chosen, IsNode
<1> DEFINE e == NamedElements[i]
<1>2. e \in Resolvable(ft) /\ i \in DOMAIN NamedElements
  BY DEF RequestInv, NamedElements
<1>3. PICK k \in 1..Len(e) : x = Prefix(e, k)
  BY <1>1, <1>2, NodesOf
<1>4. IsPath(e) /\ Len(e) \in Nat /\ Prefix(e, Len(e)) = e
  BY <1>2, ResolvableParts, PathParts
<1>5. CASE k = Len(e)
  BY <1>2, <1>3, <1>4, <1>5 DEF ToSet
<1>6. CASE k # Len(e)
  <2>1. k < Len(e)
    BY <1>4, <1>6
  <2>2. x \in Complex(ft)
    BY <1>2, <1>3, <2>1, ResolvableParts
  <2>3. Len(e) \in 1..Len(e)
    BY <1>4, <2>1
  <2>4. e \in ToSet(Nodes(e))
    BY <1>2, <1>4, <2>3, NodesOf
  <2>5. Chosen(e)
    BY <2>4 DEF Chosen, IsNode
  <2>6. IsParent(x)
    BY <1>2, <1>3, <2>1, <2>5, ChosenAreElements
  <2> QED BY <2>2, <2>6
<1> QED
  BY <1>5, <1>6

(* gml:boundedBy is not there when it was not asked for.                   *)
LEMMA BoundedByIsNotNamed ==
    ASSUME IsFeatureType(ft), RequestInv, Answerable, Given
    PROVE  ~Chosen(BoundedBy) /\ ~IsExtra(BoundedBy)
<1>1. ASSUME Chosen(BoundedBy) PROVE FALSE
  <2>1. BoundedBy \in ToSet(NamedElements) \/ BoundedBy \in Complex(ft)
    BY <1>1, ChosenByName
  <2>2. BoundedBy \notin ToSet(NamedElements)
    BY DEF Answerable
  <2>3. BoundedBy \notin Complex(ft)
    BY ComplexIsField, FieldIsPath
  <2> QED BY <2>1, <2>2, <2>3
<1>2. ASSUME IsExtra(BoundedBy) PROVE FALSE
  <2>1. BoundedBy \in DOMAIN ft.fields
    BY <1>2, MainGeometryIsField DEF IsExtra, RequestInv, Geometries
  <2> QED BY <2>1, FieldIsPath
<1> QED
  BY <1>1, <1>2

(* An answerable request asks for no element that has no attribute.         *)
LEMMA EachHasAnAttribute ==
    ASSUME Shape, InQuery, Answerable
    PROVE  ~NoAttribute
<1> SUFFICES ASSUME Given, Contains(AllElements, BoundedBy) PROVE FALSE
  BY DEF NoAttribute
<1>1. BoundedBy \in ToSet(AllElements)
  BY AllElementsAre, ContainsElement
<1>2. Chosen(BoundedBy) \/ IsExtra(BoundedBy)
  BY <1>1, AllElementsAre
<1> QED
  BY <1>2, BoundedByIsNotNamed, QueryParts

(* The elements that were added are the main geometry.                     *)
ExtraInv == extra \in {<<>>, <<MainGeometry(ft)>>}
(* Only add_field() adds to them, and it runs once.                         *)
LEMMA ExtraStays == TypeInv /\ ExtraInv /\ [Next \/ Done]_vars => ExtraInv'
<1> SUFFICES ASSUME TypeInv, ExtraInv, [Next \/ Done]_vars PROVE ExtraInv'
  OBVIOUS
<1>1. ft' = ft
  BY DEF Next, Done, vars, request, Bind, Resolve, Project, AddField, RemoveFields, Decorate, Query, Render, Fail
<1>2. CASE AddField
  <2>1. extra = <<>>
    BY <1>2 DEF AddField, TypeInv, ExtraTypes
  <2>2. Append(extra, MainGeometry(ft)) = <<MainGeometry(ft)>>
    BY <2>1
  <2>3. extra' = Append(extra, MainGeometry(ft)) \/ extra' = extra
    BY <1>2 DEF AddField
  <2> QED BY <1>1, <2>2, <2>3 DEF ExtraInv
<1>3. CASE ~AddField
  <2>1. extra' = extra
    BY <1>3 DEF Next, Done, vars, projection, Bind, Resolve, Project, RemoveFields, Decorate, Query, Render, Fail
  <2> QED BY <1>1, <2>1 DEF ExtraInv
<1> QED
  BY <1>2, <1>3

(* xpath_matches holds what was named and what was added.                  *)
LEMMA MatchesHold ==
    ASSUME Current, ExtraInv, Given
    PROVE  \A x : x \in ToSet(Matches) <=> x \in ToSet(NamedElements) \/ x \in ToSet(extra)
<1>1. Matches = NamedElements \o extra
  BY DEF Matches, Current, CachedIsCurrent
<1>2. names # None /\ names \in Seq(ToSet(names))
  BY DEF Given, Current, NamesAreListed
<1> DEFINE N == ToSet(NamedElements) \union {MainGeometry(ft)}
<1>3. NamedElements \in Seq(N) /\ extra \in Seq(N)
  <2>1. Len(names) \in Nat /\ DOMAIN names = 1..Len(names)
    BY <1>2
  <2>2. \A k \in 1..Len(names) : NamedElements[k] \in ToSet(NamedElements)
    BY <2>1 DEF NamedElements, ToSet
  <2>3. NamedElements \in Seq(N)
    BY <2>1, <2>2 DEF NamedElements
  <2>4. <<>> \in Seq(N)
    OBVIOUS
  <2>5. <<MainGeometry(ft)>> \in Seq(N)
    OBVIOUS
  <2> HIDE DEF N
  <2> QED BY <2>3, <2>4, <2>5 DEF ExtraInv
<1> HIDE DEF N
<1> QED
  BY <1>1, <1>3, ElementsOfConcat

(* What only() names are columns of the model.                             *)
LEMMA ColumnsAreKnown ==
    ASSUME Shape, Current, ExtraInv, InQuery, Bound, Answerable, NEW a \in OnlyFields
    PROVE  Leads(ft.model, a)
<1>0. IsFeatureType(ft) /\ RequestInv
  BY QueryParts
<1>1. CASE Given
  <2>1. PICK e \in ToSet(Matches) : a = Absolute(ft, e)
    BY <1>1 DEF OnlyFields
  <2>5. e \in ToSet(NamedElements) \/ e \in ToSet(extra)
    BY <1>1, <2>1, MatchesHold
  <2>6. CASE e \in ToSet(NamedElements)
    BY <1>1, <2>1, <2>6 DEF Answerable
  <2>7. CASE e \in ToSet(extra)
    <3>1. e = MainGeometry(ft)
      BY <2>7 DEF ExtraInv, ToSet
    <3>2. e \in DOMAIN ft.fields
      BY <1>0, <3>1, MainGeometryIsField DEF RequestInv, Geometries
    <3> QED BY <2>1, <3>2 DEF Bound, Bindable
  <2> QED BY <2>5, <2>6, <2>7
<1>2. CASE ~Given
  <2>1. PICK e \in ToSet(Elements(ft, Root)) : a = Absolute(ft, e)
    BY <1>2 DEF OnlyFields
  <2>2. e \in DOMAIN ft.fields
    BY <1>0, <2>1, ElementsOf DEF Children
  <2> QED BY <2>1, <2>2 DEF Bound, Bindable
<1> QED
  BY <1>1, <1>2

(* What a complex element leads through was followed before it.            *)
LEMMA RelationsComeInOrder ==
    ASSUME Shape, Ordered, InQuery, FollowedOnce
    PROVE  ParentsFirst(Relations1 \o Relations2)
<1> DEFINE both == Relations1 \o Relations2
           n == Len(Relations1)
<1>1. PICK T : Relations1 \in Seq(T) /\ Relations2 \in Seq(T)
  BY RelationPathsAre
<1>2. /\ n = Len(AllFlattened) /\ n \in Nat
      /\ Len(Relations2) = Len(keys) /\ Len(keys) \in Nat
  BY <1>1, RelationPathsAre
<1>3. /\ IsFeatureType(ft) /\ RequestInv
      /\ AllFlattened \in Seq(Resolvable(ft)) /\ keys \in Seq(Resolvable(ft)) /\ ParentsFirst(keys)
      /\ \A e \in ToSet(AllFlattened) : e \in Flattened(ft)
      /\ \A p \in ToSet(keys) : p \in Complex(ft) /\ p \in Resolvable(ft) /\ IsPath(p)
  <2>1. ParentsFirst(keys)
    BY DEF InQuery, Ordered, IsPast
  <2>2. IsFeatureType(ft) /\ RequestInv /\ keys \in Seq(Resolvable(ft)) /\ \A q \in ToSet(keys) : IsParent(q)
    BY QueryParts
  <2> QED BY <2>1, <2>2, ParentsHaveFields, FlattenedAre, FieldsOfDotted
<1>4. /\ \A k \in 1..n : AllFlattened[k] \in ToSet(AllFlattened) /\ Relations1[k] = OrmRelation(ft, AllFlattened[k])
      /\ \A k \in 1..Len(keys) : keys[k] \in ToSet(keys) /\ Relations2[k] = Absolute(ft, keys[k])
  <2>1. DOMAIN AllFlattened = 1..n /\ DOMAIN keys = 1..Len(keys)
    BY <1>2, <1>3
  <2> QED BY <2>1 DEF Relations1, Relations2, ToSet
<1>5. /\ \A i \in 1..n : both[i] = Relations1[i] /\ \A x : IsBefore(x, both, i) <=> IsBefore(x, Relations1, i)
      /\ \A i \in 1..Len(both) : i \notin 1..n =>
           /\ i - n \in 1..Len(Relations2) /\ both[i] = Relations2[i - n]
           /\ \A x : IsBefore(x, both, i) <=> IsBefore(x, Relations2, i - n) \/ x \in ToSet(Relations1)
  BY <1>1, PlacesOfConcat
<1>6. \A x : x \in ToSet(both) <=> x \in ToSet(Relations1) \/ x \in ToSet(Relations2)
  BY <1>1, ElementsOfConcat
<1>7. \A x \in ToSet(Relations1) : \E k \in 1..n : x = Relations1[k]
  <2>1. DOMAIN Relations1 = 1..n
    BY <1>1
  <2> QED BY <2>1 DEF ToSet
<1>8. \A x \in ToSet(Relations2) : \E k \in 1..Len(keys) : x = Relations2[k]
  <2>1. DOMAIN Relations2 = 1..Len(keys)
    BY <1>1, <1>2
  <2> QED BY <2>1 DEF ToSet
<1> HIDE DEF both
<1> SUFFICES ASSUME NEW i \in 1..Len(both), NEW x \in ToSet(both), IsStrictPrefix(x, both[i])
             PROVE  IsBefore(x, both, i)
  BY DEF ParentsFirst, both
<1>9. IsPrefix(x, both[i])
  BY DEF IsStrictPrefix
<1>10. CASE i \in 1..n
  <2>1. AllFlattened[i] \in Flattened(ft) /\ both[i] = OrmRelation(ft, AllFlattened[i])
    BY <1>3, <1>4, <1>5, <1>10
  <2>2. CASE x \in ToSet(Relations1)
    <3>1. PICK k \in 1..n : x = Relations1[k]
      BY <1>7, <2>2
    <3>2. AllFlattened[k] \in Flattened(ft) /\ x = OrmRelation(ft, AllFlattened[k])
      BY <1>3, <1>4, <3>1
    <3> QED BY <1>3, <2>1, <3>2, OneForARelation
  <2>3. CASE x \in ToSet(Relations2)
    <3>1. PICK k \in 1..Len(keys) : x = Relations2[k]
      BY <1>8, <2>3
    <3>2. keys[k] \in Complex(ft) /\ x = Absolute(ft, keys[k])
      BY <1>3, <1>4, <3>1
    <3> QED BY <1>3, <1>9, <2>1, <3>2, OneForARelation
  <2> QED BY <1>6, <2>2, <2>3
<1>11. CASE i \notin 1..n
  <2>1. CASE x \in ToSet(Relations1)
    BY <1>5, <1>11, <2>1
  <2>2. CASE x \in ToSet(Relations2)
    <3>1. PICK k \in 1..Len(keys) : x = Relations2[k]
      BY <1>8, <2>2
    <3>2. PICK j \in Nat : j = i - n
      <4>1. i - n \in 1..Len(Relations2) /\ Len(Relations2) \in Nat
        BY <1>2, <1>5, <1>11
      <4>2. i - n \in Nat
        BY <4>1
      <4> QED BY <4>2
    <3>3. j \in 1..Len(keys) /\ both[i] = Relations2[j]
      BY <1>2, <1>5, <1>11, <3>2
    <3> DEFINE d == keys[k]
               p == keys[j]
    <3>4. /\ d \in Complex(ft) /\ d \in Resolvable(ft) /\ IsPath(d) /\ x = Absolute(ft, d) /\ d \in ToSet(keys)
          /\ p \in Complex(ft) /\ p \in Resolvable(ft) /\ IsPath(p) /\ both[i] = Absolute(ft, p)
      BY <1>3, <1>4, <3>1, <3>3
    <3>5. ~IsFlattened(ft, d) /\ ~IsFlattened(ft, p)
      BY <1>3, <3>4, DottedElements
    <3>6. /\ IsPath(Absolute(ft, d)) /\ Len(Absolute(ft, d)) = Len(d) /\ Len(d) \in Nat /\ Len(d) >= 1
          /\ IsPath(Absolute(ft, p)) /\ Len(Absolute(ft, p)) = Len(p) /\ Len(p) \in Nat /\ Len(p) >= 1
      <4>1. Len(d) \in Nat /\ Len(d) > 0 /\ Len(p) \in Nat /\ Len(p) > 0
        BY <3>4, PathParts
      <4>2. 1 \in 1..Len(d) /\ 1 \in 1..Len(p)
        BY <4>1
      <4> QED BY <1>3, <3>4, <3>5, <4>1, <4>2, PlainPrefixes
    <3>7. Len(d) \in 1..(Len(p) - 1) /\ Absolute(ft, d) = Prefix(Absolute(ft, p), Len(d))
      <4>1. IsStrictPrefix(Absolute(ft, d), Absolute(ft, p))
        BY <3>4
      <4> QED BY <3>6, <4>1, StrictPrefixes
    <3>8. Len(d) \in 1..Len(p) /\ Len(d) < Len(p)
      BY <3>6, <3>7
    <3>9. Prefix(p, Len(d)) \in Complex(ft) /\ Absolute(ft, Prefix(p, Len(d))) = Absolute(ft, d)
      <4>1. Absolute(ft, Prefix(p, Len(d))) = Prefix(Absolute(ft, p), Len(d))
        BY <1>3, <3>4, <3>5, <3>8, PlainPrefixes
      <4>2. Prefix(p, Len(d)) \in Complex(ft)
        BY <1>3, <3>4, <3>8, ResolvableParts
      <4> QED BY <3>7, <4>1, <4>2
    <3>10. d = Prefix(p, Len(d))
      BY <1>3, <3>4, <3>9, OneForARelation
    <3>11. IsStrictPrefix(d, p)
      <4>1. IsPrefix(d, p)
        BY <3>8, <3>10 DEF IsPrefix, Prefix
      <4> QED BY <3>8, <4>1 DEF IsStrictPrefix
    <3>12. IsBefore(d, keys, j)
      BY <1>3, <3>3, <3>4, <3>11 DEF ParentsFirst
    <3>13. IsBefore(x, Relations2, j)
      <4>1. PICK m \in 1..(j - 1) : keys[m] = d
        BY <3>12 DEF IsBefore
      <4>2. m \in 1..Len(keys)
        BY <1>2, <3>3
      <4>3. Relations2[m] = x
        BY <1>4, <3>4, <4>1, <4>2
      <4> QED BY <4>1, <4>3 DEF IsBefore
    <3> QED BY <1>5, <1>11, <3>2, <3>13
  <2> QED BY <1>6, <2>1, <2>2
<1> QED
  BY <1>10, <1>11

(* A relation is prefetched after the ones that lead to it.                 *)
LEMMA NoneIsTooLate ==
    ASSUME Shape, Ordered, InQuery, FollowedOnce,
           relations = [k \in DOMAIN RelationPaths |-> PrefetchOf(RelationPaths[k])]
    PROVE  ~TooLate
<1>1. PICK T : Relations1 \in Seq(T) /\ Relations2 \in Seq(T) /\ RelationPaths \in Seq(T)
  BY RelationPathsAre
<1>2. Relations1 \o Relations2 \in Seq(T)
  BY <1>1, ElementsOfConcat
<1>3. RelationPaths = WithoutRepeats(Relations1 \o Relations2)
  BY RelationPathsAre
<1> DEFINE both == Relations1 \o Relations2
<1>4. /\ ParentsFirst(WithoutRepeats(both))
      /\ \A i \in 1..Len(WithoutRepeats(both)) : ~IsBefore(WithoutRepeats(both)[i], WithoutRepeats(both), i)
  <2>1. ParentsFirst(both)
    BY RelationsComeInOrder
  <2> HIDE DEF both
  <2> QED BY <1>2, <2>1, EachOnceKeepsOrder DEF both
<1> SUFFICES ASSUME NEW i \in DOMAIN relations, NEW j \in DOMAIN relations, j < i,
                    IsStrictPrefix(relations[i].path, relations[j].path)
             PROVE  FALSE
  BY DEF TooLate
<1>5. DOMAIN RelationPaths = 1..Len(RelationPaths)
  BY <1>1
<1>6. /\ i \in 1..Len(RelationPaths) /\ relations[i].path = RelationPaths[i]
      /\ j \in 1..Len(RelationPaths) /\ relations[j].path = RelationPaths[j]
  BY <1>5 DEF PrefetchOf
<1> HIDE DEF both
<1>7. i \in 1..Len(WithoutRepeats(both)) /\ j \in 1..Len(WithoutRepeats(both))
  BY <1>3, <1>6 DEF both
<1>8. ~IsStrictPrefix(WithoutRepeats(both)[i], WithoutRepeats(both)[j])
  BY <1>2, <1>4, <1>7, NothingComesTooLate DEF both
<1> QED
  BY <1>3, <1>6, <1>8 DEF both

(* The query loads what decorate_queryset() found that it has to.          *)
RelationsToLoad == [k \in DOMAIN RelationPaths |-> PrefetchOf(RelationPaths[k])]
ColumnsToLoad == {"id"} \union {Head(a) : a \in OnlyFields \ Replaced}
LoadedInv ==
    phase \in {"query", "render"} =>
        /\ relations = RelationsToLoad /\ columns = ColumnsToLoad
        /\ annotated = Replaced
        /\ ~NoAttribute /\ ~WrongAttribute /\ names # <<>>

(* What is loaded is found out from the request and the projection.        *)
LEMMA QueryStays ==
    ASSUME UNCHANGED <<request, roots, keys, children>>
    PROVE  /\ AllElements' = AllElements /\ AllFlattened' = AllFlattened
           /\ RelationPaths' = RelationPaths /\ Replaced' = Replaced
           /\ RelationsToLoad' = RelationsToLoad
           /\ NoAttribute' <=> NoAttribute
           /\ WrongAttribute' <=> WrongAttribute
           /\ Matches' = Matches => ColumnsToLoad' = ColumnsToLoad
<1>1. Given' <=> Given
  BY DEF Given, request
<1>2. /\ ft' = ft /\ format' = format /\ db' = db /\ names' = names
      /\ roots' = roots /\ keys' = keys /\ children' = children
  BY DEF request
<1>3. AllElements' = AllElements
  BY <1>2 DEF AllElements
<1>4. AllFlattened' = AllFlattened
  BY <1>1, <1>2, <1>3 DEF AllFlattened
<1>5. RelationPaths' = RelationPaths
  BY <1>2, <1>4 DEF RelationPaths
<1>6. \A path : FieldsAt(path)' = FieldsAt(path) /\ BackLinks(path)' = BackLinks(path)
  BY <1>2, <1>4 DEF FieldsAt, BackLinks, ElementsAt, ComplexAt, SubFields
<1>7. \A path : Rendered(path)' = Rendered(path) /\ LocalNames(path)' = LocalNames(path)
  BY <1>2, <1>6 DEF Rendered, RendersGeometries, GeometriesAt, LocalNames
<1>8. RelationsToLoad' = RelationsToLoad
  <2>1. \A k : /\ FieldsAt(RelationPaths[k])' = FieldsAt(RelationPaths[k])
               /\ BackLinks(RelationPaths[k])' = BackLinks(RelationPaths[k])
    BY <1>2, <1>4, <1>5 DEF FieldsAt, BackLinks, ElementsAt, ComplexAt, SubFields
  <2>2. \A k : /\ Rendered(RelationPaths[k])' = Rendered(RelationPaths[k])
               /\ LocalNames(RelationPaths[k])' = LocalNames(RelationPaths[k])
    BY <1>2, <2>1 DEF Rendered, RendersGeometries, GeometriesAt, LocalNames
  <2>3. \A k : PrefetchOf(RelationPaths[k])' = PrefetchOf(RelationPaths[k])
    BY <1>5, <2>2 DEF PrefetchOf
  <2> QED BY <1>5, <2>3 DEF RelationsToLoad
<1>9. NoAttribute' <=> NoAttribute
  BY <1>1, <1>3 DEF NoAttribute
<1>10. WrongAttribute' <=> WrongAttribute
  BY <1>2, <1>5, <1>7 DEF WrongAttribute
<1>11. Replaced' = Replaced
  BY <1>2 DEF Replaced, RendersGeometries
<1>12. Matches' = Matches => ColumnsToLoad' = ColumnsToLoad
  <2>1. Matches' = Matches => OnlyFields' = OnlyFields
    BY <1>1, <1>2 DEF OnlyFields
  <2> QED BY <1>11, <2>1 DEF ColumnsToLoad
<1> QED
  BY <1>3, <1>4, <1>5, <1>8, <1>9, <1>10, <1>11, <1>12

(* What was loaded stays as decorating the query left it.                   *)
LEMMA LoadedIsKept == LoadedInv /\ [Next \/ Done]_vars => LoadedInv'
<1> SUFFICES ASSUME LoadedInv, [Next \/ Done]_vars, phase' \in {"query", "render"} PROVE
        /\ relations' = RelationsToLoad' /\ columns' = ColumnsToLoad'
        /\ annotated' = Replaced'
        /\ ~NoAttribute' /\ ~WrongAttribute' /\ names' # <<>>
  BY DEF LoadedInv
<1>1. CASE Decorate
  <2>1. ~(names = <<>> \/ NoAttribute \/ WrongAttribute)
    BY <1>1 DEF Decorate, Fail
  <2>2. /\ relations' = RelationsToLoad /\ columns' = ColumnsToLoad
        /\ annotated' = Replaced
        /\ UNCHANGED <<request, roots, keys, children, extra>>
        /\ cached' = IF Given THEN Matches ELSE cached
    BY <1>1, <2>1 DEF Decorate, RelationsToLoad, ColumnsToLoad
  <2>3. names' = names
    BY <2>2 DEF request
  <2>4. Matches' = Matches
    <3>1. Matches' = IF cached' = None THEN NamedElements' \o extra' ELSE cached'
      BY DEF Matches
    <3>2. NamedElements' = NamedElements /\ extra' = extra
      BY <2>2, RequestStays
    <3> QED BY <2>2, <3>1, <3>2 DEF Matches
  <2> QED BY <2>1, <2>2, <2>3, <2>4, QueryStays
<1>2. CASE ~Decorate
  <2>1. phase \in {"query", "render"} /\ UNCHANGED <<request, projection, query>>
    BY <1>2 DEF Next, Done, vars, Bind, Resolve, Project, AddField, RemoveFields, Query, Render, Fail
  <2>2. UNCHANGED <<request, roots, keys, children>> /\ extra' = extra /\ cached' = cached
    BY <2>1 DEF projection
  <2>3. relations' = relations /\ columns' = columns /\ annotated' = annotated /\ names' = names
    BY <2>1 DEF query, request
  <2>4. Matches' = Matches
    BY <2>2, RequestStays DEF Matches
  <2> QED BY <2>1, <2>2, <2>3, <2>4, QueryStays DEF LoadedInv
<1> QED
  BY <1>1, <1>2

(* The query is one that Django makes.                                     *)
LEMMA TheQueryIsMade ==
    ASSUME Shape, Current, ExtraInv, Ordered, LoadedInv, Bound, Answerable, phase = "query"
    PROVE  ~UnknownColumn /\ ~TooLate
<1>1. InQuery /\ FollowedOnce
  BY DEF InQuery, Answerable
<1>2. relations = [k \in DOMAIN RelationPaths |-> PrefetchOf(RelationPaths[k])]
  BY DEF LoadedInv, RelationsToLoad
<1>3. ASSUME NEW r \in ToSet(relations)
      PROVE  r.loaded \subseteq DOMAIN Model[ModelBehind(ft.model, r.path)]
  <2>1. PICK k \in DOMAIN RelationPaths : r = PrefetchOf(RelationPaths[k])
    BY <1>2, <1>3 DEF ToSet
  <2>2. RelationPaths[k] \in ToSet(RelationPaths) /\ r.path = RelationPaths[k]
    BY <2>1 DEF ToSet, PrefetchOf
  <2> QED BY <1>1, <2>1, <2>2, LoadedAreKnown DEF Known
<1>4. \A a \in OnlyFields : Leads(ft.model, a)
  BY <1>1, ColumnsAreKnown
<1> QED
  BY <1>1, <1>2, <1>3, <1>4, NoneIsTooLate DEF UnknownColumn

(***************************************************************************)
(* Nothing goes wrong in the rendering.                                    *)
(***************************************************************************)
(* An element that is listed was chosen, or is the geometry that was       *)
(* added; it is a root element, or one of the child nodes of a key.        *)
LEMMA ListedIsThere ==
    ASSUME Shape, InQuery, NEW e \in Resolvable(ft), Listed(e)
    PROVE  /\ (Chosen(e) \/ IsExtra(e)) /\ Shown(e)
           /\ \/ e \in ToSet(roots)
              \/ Len(e) > 1 /\ Front(e) \in ToSet(keys) /\ e \in ToSet(children[Front(e)])
<1>1. IsPath(e) /\ Len(e) \in Nat /\ Prefix(e, Len(e)) = e /\ Len(e) > 0 /\ Front(e) = Prefix(e, Len(e) - 1)
  BY QueryParts, ResolvableParts, PathParts
<1>2. PICK k \in 1..Len(e) :
        /\ Contains(roots, Prefix(e, k))
        /\ \A j \in (k + 1)..Len(e) :
              Prefix(e, j - 1) \in ToSet(keys) /\ Contains(children[Prefix(e, j - 1)], Prefix(e, j))
  BY DEF Listed, Prefix
<1>3. CASE k = Len(e)
  <2>1. e \in ToSet(roots)
    BY <1>1, <1>2, <1>3, QueryParts, ContainsElement
  <2> QED BY <2>1, QueryParts
<1>4. CASE k # Len(e)
  <2>1. Len(e) \in (k + 1)..Len(e) /\ Len(e) > 1
    BY <1>1, <1>4
  <2>2. Front(e) \in ToSet(keys) /\ Contains(children[Front(e)], e)
    BY <1>1, <1>2, <2>1
  <2>3. e \in ToSet(children[Front(e)])
    BY <2>2, QueryParts, ContainsElement
  <2> QED BY <2>1, <2>2, <2>3, QueryParts
<1> QED
  BY <1>3, <1>4

(* A complex element that is listed has child nodes.                       *)
LEMMA ChildrenAreThere ==
    ASSUME Shape, InQuery, LeavesAreNamed, NEW e \in Visited, IsComplex(ft, e)
    PROVE  e \in ToSet(keys)
<1>1. IsFeatureType(ft) /\ RequestInv /\ e \in Resolvable(ft) /\ Listed(e)
  BY QueryParts DEF Visited
<1>2. e \in Complex(ft) /\ e \in DOMAIN ft.fields
  BY DEF Complex, IsComplex
<1>3. ~IsExtra(e)
  <2> SUFFICES ASSUME IsExtra(e) PROVE FALSE
    OBVIOUS
  <2>1. e \in Geometries(ft)
    BY <1>1, MainGeometryIsField DEF IsExtra, RequestInv
  <2>2. e # BoundedBy
    BY <1>1, <1>2, FieldIsPath
  <2> QED BY <2>1, <2>2 DEF Geometries, IsGeometry
<1>4. Chosen(e) /\ Shown(e)
  BY <1>1, <1>3, ListedIsThere
<1>5. IsParent(e)
  <2>1. CASE Given
    BY <1>1, <1>4, <2>1, ChosenByName DEF LeavesAreNamed
  <2>2. CASE ~Given
    BY <1>2, <2>2 DEF IsParent
  <2> QED BY <2>1, <2>2
<1> QED
  BY <1>4, <1>5, QueryParts

(* What the database is to render is annotated.                            *)
LEMMA GeometriesAreAnnotated ==
    ASSUME Shape, InQuery, LoadedInv, FollowedOnce, phase = "render", RendersGeometries,
           NEW e \in Resolvable(ft), Listed(e), IsGeometry(ft, e), e # BoundedBy
    PROVE  IsAnnotated(e)
<1>1. CASE e \in ToSet(roots)
  <2>1. Len(e) = 1
    <3>1. ~IsExtra(e)
      BY DEF IsExtra, RendersGeometries
    <3> QED BY <1>1, <3>1, QueryParts
  <2>2. Absolute(ft, e) \in Replaced
    BY <1>1 DEF Replaced, RendersGeometries
  <2>3. annotated = Replaced
    BY DEF LoadedInv
  <2> QED BY <2>1, <2>2, <2>3 DEF IsAnnotated
<1>2. CASE Len(e) > 1 /\ Front(e) \in ToSet(keys) /\ e \in ToSet(children[Front(e)])
  <2> DEFINE p == Front(e)
             path == Absolute(ft, p)
  <2>1. e \in SubFields(p)
    BY <1>2 DEF SubFields, IsMany
  <2>2. FieldsAt(path) = SubFields(p)
    BY <1>2, FieldsOfKey
  <2>3. Attribute(ft, e) \in Rendered(path)
    BY <2>1, <2>2 DEF Rendered, GeometriesAt
  <2>4. path \in ToSet(RelationPaths)
    BY <1>2, RelationPathsAre
  <2>5. PICK k \in DOMAIN RelationPaths : path = RelationPaths[k]
    BY <2>4 DEF ToSet
  <2>6. relations = RelationsToLoad
    BY DEF LoadedInv
  <2>7. PrefetchOf(path) \in ToSet(relations)
    BY <2>5, <2>6 DEF RelationsToLoad, ToSet
  <2>8. PrefetchOf(path).path = path /\ PrefetchOf(path).rendered = Rendered(path)
    BY DEF PrefetchOf
  <2> HIDE DEF p, path
  <2>9. \E r \in ToSet(relations) : r.path = path /\ Attribute(ft, e) \in r.rendered
    BY <2>3, <2>7, <2>8
  <2>10. Len(e) # 1
    <3>1. PICK n \in Nat : n = Len(e)
      BY QueryParts, ResolvableParts, PathParts
    <3>2. n > 1
      BY <1>2, <3>1
    <3> QED BY <3>1, <3>2
  <2> QED BY <2>9, <2>10 DEF IsAnnotated, p, path
<1> QED
  BY <1>1, <1>2, ListedIsThere

(* The path to the feature itself is empty.                                *)
LEMMA AbsoluteOfRoot == ASSUME NEW t PROVE Absolute(t, Root) = <<>>
<1> DEFINE at == [k \in 1..Len(Root) |-> Attribute(t, SubSeq(Root, 1, k))]
<1>1. at = <<>>
  <2>1. Len(Root) = 0
    BY DEF Root
  <2>2. 1..Len(Root) = {}
    BY <2>1
  <2> QED BY <2>2
<1>2. FlattenSeq(at) = <<>>
  <2> HIDE DEF at
  <2> QED BY <1>1 DEF FlattenSeq
<1> QED
  BY <1>2 DEF Absolute

(* An attribute without dots leads through no list, ...                    *)
LEMMA NoManagerOnTheWay ==
    ASSUME IsFeatureType(ft), FollowedOnce, NEW e \in Resolvable(ft), ~IsFlattened(ft, e)
    PROVE  ~ThroughManager(ft, e)
<1>1. IsPath(e) /\ Len(e) \in Nat /\ Len(e) > 0 /\ Front(e) = Prefix(e, Len(e) - 1)
  BY ResolvableParts, PathParts
<1>2. Len(Absolute(ft, e)) = Len(e)
  BY PlainElements
<1>3. CASE Len(e) > 1
  <2>1. Len(e) - 1 \in 1..Len(e)
    BY <1>1, <1>3
  <2>2. Front(e) \in Resolvable(ft) /\ ~IsFlattened(ft, Front(e)) /\ Len(Front(e)) = Len(e) - 1
    BY <1>1, <2>1, PlainPrefixes, PrefixParts
  <2>3. Len(Absolute(ft, Front(e))) = Len(e) - 1
    BY <2>2, PlainElements
  <2> QED BY <1>1, <1>2, <2>3 DEF ThroughManager, Managers
<1>4. CASE ~(Len(e) > 1)
  <2>1. Len(e) = 1 /\ Front(e) = Root
    <3>1. PICK n \in Nat : n = Len(e)
      BY <1>1
    <3>2. n = 1
      BY <1>1, <1>4, <3>1
    <3> QED BY <1>1, <3>1, <3>2, FrontOfOne
  <2>2. Absolute(ft, Root) = <<>>
    BY AbsoluteOfRoot
  <2> QED BY <1>2, <2>1, <2>2 DEF ThroughManager, Managers
<1> QED
  BY <1>3, <1>4

(* ... and so its element is there.                                        *)
LEMMA PlainIsThere ==
    ASSUME IsFeatureType(ft), FollowedOnce, NEW e \in Resolvable(ft), ~IsFlattened(ft, e)
    PROVE  ~NeverThere(ft, e)
<1> SUFFICES ASSUME NEW k \in 1..Len(e), ThroughManager(ft, Prefix(e, k)) PROVE FALSE
  BY DEF NeverThere, Prefix
<1>1. Prefix(e, k) \in Resolvable(ft) /\ ~IsFlattened(ft, Prefix(e, k))
  BY PlainPrefixes
<1> QED
  BY <1>1, NoManagerOnTheWay

LEMMA NoObjectIsHidden ==
    ASSUME IsFeatureType(ft), FollowedOnce
    PROVE  \A c \in Complex(ft) : ~ThroughManager(ft, c)
<1> SUFFICES ASSUME NEW c \in Complex(ft) PROVE ~ThroughManager(ft, c)
  OBVIOUS
<1>1. c \in Resolvable(ft)
  BY ComplexIsField, ResolvableKinds
<1>2. ~IsFlattened(ft, c)
  BY <1>1, DottedElements
<1> QED
  BY <1>1, <1>2, NoManagerOnTheWay

(* Everything can be rendered.                                             *)
LEMMA NothingFails ==
    ASSUME Shape, LoadedInv, Answerable, phase = "render"
    PROVE  ~RenderFails
<1>0. InQuery /\ FollowedOnce /\ LeavesAreNamed /\ IsFeatureType(ft) /\ RequestInv
  BY QueryParts DEF InQuery, Answerable
<1>1. ~NoChildren
  BY <1>0, ChildrenAreThere DEF NoChildren
<1>2. ~Dotted(MainGeometry(ft))
  BY DEF Answerable
<1>3. ASSUME NEW e \in Leaves, IsGeometry(ft, e) PROVE ~GeometryFails(e)
  <2>1. e \in Visited /\ e \in Resolvable(ft) /\ Listed(e)
    BY DEF Leaves, Visited
  <2>2. CASE e = BoundedBy
    <3>1. ~Given
      BY <1>0, <2>1, <2>2, ListedIsThere, BoundedByIsNotNamed
    <3>2. \A g \in ToSet(AllGeometryElements(ft)) : ~IsOutOfReach(g)
      BY <3>1 DEF Answerable
    <3> QED BY <2>2, <3>2 DEF GeometryFails
  <2>3. CASE e # BoundedBy /\ format = "csv" /\ ~db
    <3>1. nulls = {}
      BY <2>3 DEF Answerable
    <3>2. ~NeverThere(ft, e)
      BY <1>0, <1>3, <2>1, DottedElements, PlainIsThere
    <3>3. ~IsNull(e)
      BY <3>1, <3>2 DEF IsNull
    <3> QED BY <2>3, <3>3 DEF GeometryFails
  <2>4. CASE e # BoundedBy /\ ~(format = "csv" /\ ~db)
    <3> SUFFICES ASSUME RendersGeometries, ~IsAnnotated(e) \/ (Len(e) > 1 /\ "relations" \in nulls)
                 PROVE  FALSE
      <4>1. ~NeverThere(ft, Front(e))
        BY <1>0, <2>1, NoObjectIsHidden, NothingIsHidden
      <4> QED BY <2>4, <4>1 DEF GeometryFails
    <3>1. IsAnnotated(e)
      BY <1>0, <1>3, <2>1, <2>4, GeometriesAreAnnotated
    <3>2. Len(e) > 1 /\ "relations" \in nulls
      BY <3>1
    <3>3. format # "csv"
      BY <3>2 DEF Answerable
    <3>4. e \in ToSet(roots)
      BY <1>0, <2>1, <3>2, <3>3, QueryParts, ContainsElement DEF Visited
    <3>5. ~IsExtra(e)
      BY DEF IsExtra, RendersGeometries
    <3>6. Len(e) = 1
      BY <1>0, <3>4, <3>5, QueryParts
    <3> QED BY <3>2, <3>6
  <2> QED BY <2>2, <2>3, <2>4
<1>4. ASSUME NEW e \in Leaves PROVE ~Unwritable(e)
  <2>1. e \in Resolvable(ft) /\ Listed(e) /\ ~IsComplex(ft, e)
    BY DEF Leaves, Visited
  <2>2. e \in Asked
    BY <1>0, <2>1, ListedIsThere, ChosenWasAsked
  <2> QED BY <2>2 DEF Answerable
<1> QED
  BY <1>1, <1>2, <1>3, <1>4 DEF RenderFails

(***************************************************************************)
(* A request that is answerable goes through every step.                   *)
(***************************************************************************)
OnTheWay == phase \in {"resolve", "project", "add", "remove", "decorate", "query", "render"} => ~Misconfigured
Answered ==
    /\ ft.model \in DOMAIN Model
    /\ OnTheWay
    /\ AnswerableIsAnswered
Answering == Shape /\ TypeInv /\ Current /\ ExtraInv /\ Ordered /\ LoadedInv /\ Answered

(* A request that just came in was not answered yet.                        *)
LEMMA AnsweringAtFirst == Init => Answering
<1> SUFFICES ASSUME Init PROVE Answering
  OBVIOUS
<1>1. phase = "bind" /\ outcome = "none" /\ extra = <<>>
  BY DEF Init
<1>2. Ordered /\ LoadedInv /\ ExtraInv
  BY <1>1 DEF Ordered, IsPast, LoadedInv, ExtraInv
<1>3. ft.model \in DOMAIN Model
  <2>1. PICK f \in FeatureTypes : ft = Configured(f)
    BY DEF Init
  <2>2. IsConfiguration(f) /\ f.model \in DOMAIN Model
    BY FeatureTypesAssumption
  <2>3. Configured(f).model = f.model
    <3>1. CASE f.declared = "fields"
      BY <3>1 DEF Configured
    <3>2. CASE f.declared # "fields"
      BY <3>2 DEF Configured
    <3> QED BY <3>1, <3>2
  <2> QED BY <2>1, <2>2, <2>3
<1>4. Answered
  BY <1>1, <1>3 DEF Answered, OnTheWay, AnswerableIsAnswered
<1> QED
  BY <1>2, <1>4, ShapeAtFirst, TypesAtFirst, CurrentAtFirst DEF Answering

(* On the way the feature type is not misconfigured: it was bound.          *)
LEMMA BoundOnTheWay ==
    ASSUME Shape, Answered, phase \in {"resolve", "project", "add", "remove", "decorate", "query", "render"}
    PROVE  Bound
BY DEF Shape, Answered, OnTheWay, Misconfigured, Bound

(* What is answerable stays so, as the request does.                       *)
LEMMA TheRequestStays ==
    ASSUME [Next \/ Done]_vars
    PROVE  /\ UNCHANGED request /\ ft' = ft
           /\ Misconfigured' <=> Misconfigured
           /\ Answerable' <=> Answerable
<1>1. UNCHANGED request
  BY DEF Next, Done, vars, Bind, Resolve, Project, AddField, RemoveFields, Decorate, Query, Render, Fail
<1>2. ft' = ft /\ names' = names /\ format' = format /\ db' = db /\ nulls' = nulls
  BY <1>1 DEF request
<1>3. (Given' <=> Given) /\ NamedElements' = NamedElements
  BY <1>1, RequestStays
<1>4. Misconfigured' <=> Misconfigured
  BY <1>2 DEF Misconfigured
<1>5. FollowedOnce' <=> FollowedOnce
  BY <1>2 DEF FollowedOnce
<1>6. LeavesAreNamed' <=> LeavesAreNamed
  BY <1>2, <1>3 DEF LeavesAreNamed
<1>7. Dotted(MainGeometry(ft))' <=> Dotted(MainGeometry(ft))
  BY <1>2 DEF Dotted
<1>8. (\A g \in ToSet(AllGeometryElements(ft)) : ~IsOutOfReach(g))'
      <=> \A g \in ToSet(AllGeometryElements(ft)) : ~IsOutOfReach(g)
  BY <1>2 DEF IsOutOfReach, Dotted
<1>9. (\A e \in Asked : ~Unwritable(e))' <=> \A e \in Asked : ~Unwritable(e)
  <2>1. Asked' = Asked
    BY <1>2, <1>3 DEF Asked
  <2> QED BY <1>2, <2>1 DEF Unwritable
<1>10. Answerable' <=> Answerable
  BY <1>2, <1>3, <1>5, <1>6, <1>7, <1>8, <1>9 DEF Answerable
<1> QED
  BY <1>1, <1>2, <1>4, <1>10

(* A step that fails is one of a request that is not answerable.           *)
LEMMA NoStepFails ==
    ASSUME Answering, [Next \/ Done]_vars, ~Misconfigured, Answerable, phase # "done"
    PROVE  phase' = "done" => outcome' = "rendered"
<1> SUFFICES ASSUME phase' = "done" PROVE outcome' = "rendered"
  OBVIOUS
<1>1. Shape /\ Current /\ ExtraInv /\ Ordered /\ LoadedInv /\ Answered
  BY DEF Answering
<1>2. CASE Bind
  BY <1>2 DEF Bind
<1>3. CASE Resolve
  <2> DEFINE faulty == {n \in ToSet(names) : NotImplementedXPath(ft, n) \/ UnknownXPath(ft, n)}
  <2>1. ASSUME Given, NEW n \in ToSet(names) PROVE ~NotImplementedXPath(ft, n) /\ ~UnknownXPath(ft, n)
    <3>1. PICK i \in DOMAIN names : n = names[i]
      BY <2>1 DEF ToSet
    <3>2. NamedElements[i] \in ToSet(NamedElements) /\ NamedElements[i] = Resolved(ft, n)
      BY <3>1 DEF NamedElements, ToSet
    <3>3. Resolved(ft, n) \in Resolvable(ft)
      BY <2>1, <3>2 DEF Answerable
    <3> QED BY <2>1, <3>3 DEF Answerable, UnknownXPath
  <2>2. ~(Given /\ faulty # {})
    BY <2>1
  <2>3. phase' = "project"
    BY <1>3, <2>2 DEF Resolve
  <2> QED BY <2>3
<1>4. CASE Project
  BY <1>4 DEF Project
<1>5. CASE AddField
  BY <1>5 DEF AddField
<1>6. CASE RemoveFields
  BY <1>6 DEF RemoveFields
<1>7. CASE Decorate
  <2>1. InQuery /\ Bound /\ FollowedOnce /\ names # <<>>
    BY <1>1, <1>7, BoundOnTheWay DEF Decorate, InQuery, Answerable
  <2>2. ~NoAttribute /\ ~WrongAttribute
    BY <1>1, <2>1, EachHasAnAttribute, AttributesAreRight
  <2>3. phase' = "query"
    BY <1>7, <2>1, <2>2 DEF Decorate
  <2> QED BY <2>3
<1>8. CASE Query
  <2>1. phase = "query" /\ Bound
    BY <1>1, <1>8, BoundOnTheWay DEF Query
  <2>2. ~UnknownColumn /\ ~TooLate
    BY <1>1, <2>1, TheQueryIsMade
  <2>3. phase' = "render"
    BY <1>8, <2>2 DEF Query
  <2> QED BY <2>3
<1>9. CASE Render
  <2>1. ~RenderFails
    BY <1>1, <1>9, NothingFails DEF Render
  <2> QED BY <1>9, <2>1 DEF Render
<1>10. CASE UNCHANGED vars
  BY <1>10 DEF vars
<1> QED
  BY <1>2, <1>3, <1>4, <1>5, <1>6, <1>7, <1>8, <1>9, <1>10 DEF Next, Done

(* Every step of an answerable request is followed by the next one.         *)
LEMMA AnsweringIsKept == Answering /\ [Next \/ Done]_vars => Answering'
<1> SUFFICES ASSUME Answering, [Next \/ Done]_vars PROVE Answering'
  OBVIOUS
<1>1. Shape' /\ Current' /\ ExtraInv' /\ Ordered' /\ LoadedInv'
  BY ShapeIsKept, CurrentIsKept, ExtraStays, OrderIsKept, LoadedIsKept DEF Answering
<1>2. TypeInv'
  BY PhasesAreKept, ExtraIsKept, RelationsAreKept, ProjectionIsKept DEF Answering, TypeInv
<1>3. ft' = ft /\ (Misconfigured' <=> Misconfigured) /\ (Answerable' <=> Answerable)
  BY TheRequestStays
<1>4. OnTheWay'
  <2>1. CASE Bind
    BY <1>3, <2>1 DEF Bind, Fail, OnTheWay
  <2>2. CASE ~Bind
    <3>1. phase' # "done" /\ phase' # phase => phase \in {"resolve", "project", "add", "remove", "decorate", "query"}
      BY <2>2 DEF Next, Done, vars, Resolve, Project, AddField, RemoveFields, Decorate, Query, Render, Fail
    <3> QED BY <1>3, <3>1 DEF OnTheWay, Answering, Answered
  <2> QED BY <2>1, <2>2
<1>5. AnswerableIsAnswered'
  <2> SUFFICES ASSUME phase' = "done", ~Misconfigured, Answerable PROVE outcome' = "rendered"
    BY <1>3 DEF AnswerableIsAnswered
  <2>1. CASE phase = "done"
    <3>1. outcome' = outcome
      BY <2>1 DEF Next, Done, vars, Bind, Resolve, Project, AddField, RemoveFields, Decorate, Query, Render
    <3> QED BY <2>1, <3>1 DEF Answering, Answered, AnswerableIsAnswered
  <2>2. CASE phase # "done"
    BY <2>2, NoStepFails
  <2> QED BY <2>1, <2>2
<1>6. Answered'
  <2>1. ft'.model \in DOMAIN Model
    BY <1>3 DEF Answering, Answered
  <2> QED BY <1>4, <1>5, <2>1 DEF Answered
<1> QED
  BY <1>1, <1>2, <1>6 DEF Answering

(* Whatever an answerable request asks for, in whatever format, it is      *)
(* answered: no step of the projection, the query or the renderer fails.   *)
THEOREM AnswerableAnswered == Spec => []AnswerableIsAnswered
<1>1. Answering => AnswerableIsAnswered
  BY DEF Answering, Answered
<1> QED
  BY <1>1, AnsweringAtFirst, AnsweringIsKept, PTL DEF Spec

(***************************************************************************)
(* What is read when the features are rendered.                            *)
(***************************************************************************)
(* GeoJSON's geometry was named or is remembered as one that was added.    *)
Remembered ==
    IsPast({"remove", "decorate", "query", "render"}) /\ format = "json" /\ Given
        => MainGeometry(ft) \in ToSet(NamedElements) \/ MainGeometry(ft) \in ToSet(extra)
(* add_field() and remove_fields() do not forget it.                        *)
LEMMA ItIsRemembered ==
    Shape /\ TypeInv /\ ExtraInv /\ Remembered /\ [Next \/ Done]_vars => Remembered'
<1> SUFFICES ASSUME Shape, TypeInv, ExtraInv, Remembered, [Next \/ Done]_vars,
                    IsPast({"remove", "decorate", "query", "render"})', format' = "json", Given'
             PROVE  MainGeometry(ft') \in ToSet(NamedElements') \/ MainGeometry(ft') \in ToSet(extra')
  BY DEF Remembered
<1>1. UNCHANGED request /\ ft' = ft
  BY TheRequestStays
<1>2. NamedElements' = NamedElements /\ Given /\ format = "json"
  BY <1>1, RequestStays DEF request
<1>3. CASE AddField
  <2>1. extra = <<>> /\ phase = "add"
    BY <1>3 DEF AddField, TypeInv, ExtraTypes
  <2>2. CASE Contains(roots, MainGeometry(ft))
    <3>1. IsFeatureType(ft) /\ RequestInv /\ RootsHold /\ outcome # "rendered"
      BY <2>1 DEF Shape, IsPast, HoldsInv, Holds, BindInv, ResolveInv, RequestInv, OutcomeInv
    <3>2. MainGeometry(ft) \in ToSet(roots)
      BY <2>2, <3>1, ContainsElement DEF RootsHold
    <3>3. ~Added
      BY <2>1, <3>1 DEF Added, IsPast
    <3>4. Chosen(MainGeometry(ft))
      BY <3>1, <3>2, <3>3 DEF RootsHold
    <3>5. MainGeometry(ft) \in Geometries(ft) /\ MainGeometry(ft) # BoundedBy
      BY <3>1, MainGeometryIsField, FieldIsPath DEF RequestInv, Geometries
    <3>6. MainGeometry(ft) \notin Complex(ft)
      BY <3>5 DEF Geometries, IsGeometry, Complex
    <3> QED BY <1>1, <1>2, <3>1, <3>4, <3>6, ChosenByName
  <2>3. CASE ~Contains(roots, MainGeometry(ft))
    <3>1. extra' = Append(extra, MainGeometry(ft))
      BY <1>2, <1>3, <2>3 DEF AddField
    <3>2. extra' = <<MainGeometry(ft)>>
      BY <2>1, <3>1
    <3>3. MainGeometry(ft) \in ToSet(extra')
      BY <3>2 DEF ToSet
    <3> QED BY <1>1, <3>3
  <2> QED BY <2>2, <2>3
<1>4. CASE ~AddField
  <2>1. extra' = extra
    BY <1>4 DEF Next, Done, vars, projection, Bind, Resolve, Project, RemoveFields, Decorate, Query, Render, Fail
  <2>2. IsPast({"remove", "decorate", "query", "render"})
    BY <1>4 DEF Next, Done, vars, Bind, Resolve, Project, RemoveFields, Decorate, Query, Render, Fail,
                IsPast, Shape, OutcomeInv
  <2> QED BY <1>1, <1>2, <2>1, <2>2 DEF Remembered
<1> QED
  BY <1>3, <1>4

(* A step of rendering, in a configuration that is read without queries.   *)
Rendering ==
    /\ phase = "render" /\ Shape /\ Current /\ ExtraInv /\ LoadedInv /\ Remembered /\ Bound
    /\ FollowedOnce /\ ListsAreNested /\ LeavesAreNamed
    /\ format = "json" => ~Dotted(MainGeometry(ft))

(* Which columns the objects were loaded with.                             *)
LEMMA WhatIsLoaded ==
    ASSUME Rendering, NEW path, path # <<>>
    PROVE  /\ path \in ToSet(RelationPaths) => LoadedAt(path) = PrefetchOf(path).loaded
           /\ path \notin ToSet(RelationPaths) => LoadedAt(path) = Known(path)
           /\ path \in ToSet(RelationPaths) => \A k \in 1..Len(path) : Prefix(path, k) \in Fetched
<1>1. relations = RelationsToLoad
  BY DEF Rendering, LoadedInv
<1>2. \A r : r \in ToSet(relations) <=> \E k \in DOMAIN RelationPaths : r = PrefetchOf(RelationPaths[k])
  BY <1>1 DEF RelationsToLoad, ToSet
<1>3. \A r : r \in ToSet(relations) <=> \E p \in ToSet(RelationPaths) : r = PrefetchOf(p)
  BY <1>2 DEF ToSet
<1>4. \A p : PrefetchOf(p).path = p
  BY DEF PrefetchOf
<1>5. ASSUME path \in ToSet(RelationPaths)
      PROVE  LoadedAt(path) = PrefetchOf(path).loaded /\ \A k \in 1..Len(path) : Prefix(path, k) \in Fetched
  <2>1. PrefetchOf(path) \in ToSet(relations) /\ PrefetchOf(path).path = path
    BY <1>3, <1>4, <1>5
  <2>2. \A r \in ToSet(relations) : r.path = path => r = PrefetchOf(path)
    BY <1>3, <1>4
  <2>3. (CHOOSE r \in ToSet(relations) : r.path = path) = PrefetchOf(path)
    BY <2>1, <2>2
  <2>4. LoadedAt(path) = PrefetchOf(path).loaded
    BY <2>1, <2>3 DEF LoadedAt
  <2>5. \A k \in 1..Len(path) : Prefix(path, k) \in Fetched
    BY <2>1 DEF Fetched, Prefix
  <2> QED BY <2>4, <2>5
<1>6. ASSUME path \notin ToSet(RelationPaths) PROVE LoadedAt(path) = Known(path)
  <2>1. \A r \in ToSet(relations) : r.path # path
    BY <1>3, <1>4, <1>6
  <2> QED BY <2>1 DEF LoadedAt, Known
<1> QED
  BY <1>5, <1>6

(* The elements that are prefetched for a complex element.                 *)
LEMMA LoadedForKey ==
    ASSUME Rendering, NEW p \in ToSet(keys)
    PROVE  /\ Absolute(ft, p) \in ToSet(RelationPaths) /\ Absolute(ft, p) # <<>>
           /\ "id" \in LoadedAt(Absolute(ft, p))
           /\ Source(ft, p).kind = "reverse" => Source(ft, p).back \in LoadedAt(Absolute(ft, p))
           /\ \A x \in ToSet(children[p]) :
                /\ x \in DOMAIN ft.fields /\ Source(ft, x).kind \notin {"m2m", "reverse"}
                /\ ~(IsGeometry(ft, x) /\ db)
                => Last(Absolute(ft, x)) \in LoadedAt(Absolute(ft, p))
<1> DEFINE path == Absolute(ft, p)
           mb == ModelBehind(ft.model, path)
<1>1. InQuery /\ Shape /\ FollowedOnce /\ Bound /\ IsFeatureType(ft)
  BY DEF Rendering, InQuery, Bound
<1>2. /\ p \in Complex(ft) /\ p \in Resolvable(ft) /\ FieldsAt(path) = SubFields(p)
      /\ BackLinks(path) = IF Source(ft, p).kind = "reverse" THEN {Source(ft, p).back} ELSE {}
  BY <1>1, FieldsOfKey
<1>3. path \in ToSet(RelationPaths) /\ path # <<>>
  BY <1>1, <1>2, RelationPathsAre, PathsOfRelations
<1>4. LoadedAt(path) = PrefetchOf(path).loaded
  BY <1>3, WhatIsLoaded
<1>5. LoadedAt(path) = {"id"} \union (LocalNames(path) \ {a[1] : a \in {b \in Rendered(path) : Len(b) = 1}})
  BY <1>4 DEF PrefetchOf
<1> HIDE DEF path
<1>6. ASSUME NEW a \in Rendered(path)
      PROVE  db /\ Model[mb][a[1]].kind = "geometry"
  <2>1. PICK g \in FieldsAt(path) : IsGeometry(ft, g) /\ a = Attribute(ft, g) /\ db
    BY <1>6 DEF Rendered, GeometriesAt, RendersGeometries
  <2>2. g \in ToSet(children[p])
    BY <1>2, <2>1 DEF SubFields
  <2>3. g \in Resolvable(ft) /\ Front(g) = p
    <3>1. children[p] \in Seq(Resolvable(ft)) /\ Front(g) = p
      BY <1>1, <2>2, QueryParts
    <3> QED BY <2>2, <3>1 DEF ToSet
  <2>4. g # BoundedBy /\ Last(Absolute(ft, g)) = Attribute(ft, g)[1]
        /\ (g \in DOMAIN ft.fields => Source(ft, g) = Model[mb][Last(Absolute(ft, g))])
    BY <1>1, <1>2, <2>3, ChildName DEF path
  <2>5. g \in DOMAIN ft.fields /\ Source(ft, g).kind = "geometry"
    BY <2>1, <2>4 DEF IsGeometry
  <2> QED BY <2>1, <2>4, <2>5
<1>7. "id" \in LoadedAt(path)
  BY <1>5
<1>8. ASSUME Source(ft, p).kind = "reverse" PROVE Source(ft, p).back \in LoadedAt(path)
  <2>1. Source(ft, p).back \in LocalNames(path)
    BY <1>2, <1>8 DEF LocalNames
  <2>2. Model[mb][Source(ft, p).back].kind = "fk"
    BY <1>1, <1>2, <1>8, KeyModel DEF path
  <2>3. Source(ft, p).back \notin {a[1] : a \in {b \in Rendered(path) : Len(b) = 1}}
    BY <1>6, <2>2
  <2> QED BY <1>5, <2>1, <2>3
<1>9. ASSUME NEW x \in ToSet(children[p]), x \in DOMAIN ft.fields,
             Source(ft, x).kind \notin {"m2m", "reverse"}, ~(IsGeometry(ft, x) /\ db)
      PROVE  Last(Absolute(ft, x)) \in LoadedAt(path)
  <2>1. x \in SubFields(p)
    BY <1>9 DEF SubFields, IsMany, IsArray
  <2>2. Last(Absolute(ft, x)) \in LocalNames(path)
    BY <1>2, <1>9, <2>1 DEF LocalNames
  <2>3. x \in Resolvable(ft) /\ Front(x) = p
    BY <1>1, <1>9, QueryParts, ResolvableKinds
  <2>4. Source(ft, x) = Model[mb][Last(Absolute(ft, x))]
    BY <1>1, <1>2, <1>9, <2>3, ChildName DEF path
  <2>5. Last(Absolute(ft, x)) \notin {a[1] : a \in {b \in Rendered(path) : Len(b) = 1}}
    <3> SUFFICES ASSUME NEW a \in Rendered(path), Last(Absolute(ft, x)) = a[1] PROVE FALSE
      OBVIOUS
    <3>1. db /\ Source(ft, x).kind = "geometry"
      BY <1>6, <2>4
    <3>2. ~IsComplex(ft, x)
      <4>1. IsComplex(ft, x) => IsRelation(Source(ft, x))
        BY <1>1, <1>9 DEF Bound, Bindable
      <4> QED BY <3>1, <4>1 DEF IsRelation
    <3> QED BY <1>9, <3>1, <3>2 DEF IsGeometry
  <2> QED BY <1>5, <2>2, <2>5
<1> QED
  BY <1>3, <1>7, <1>8, <1>9 DEF path

(* What the database renders for the feature are geometries of its own.    *)
LEMMA ReplacedAreGeometries ==
    ASSUME Rendering, NEW a \in Replaced
    PROVE  /\ Len(a) = 1 /\ db
           /\ \E g \in DOMAIN ft.fields : IsGeometry(ft, g) /\ Source(ft, g).kind = "geometry" /\ a = Absolute(ft, g)
<1>1. InQuery /\ Shape /\ FollowedOnce /\ IsFeatureType(ft) /\ RequestInv
  BY QueryParts DEF Rendering, InQuery, Bound
<1>2. CASE RendersGeometries
  <2>1. PICK e \in ToSet(roots) : IsGeometry(ft, e) /\ e # BoundedBy /\ a = Absolute(ft, e)
    <3>1. RendersGeometries /\ ~(db /\ format = "json")
      BY <1>2 DEF RendersGeometries
    <3>2. Replaced = {Absolute(ft, e) : e \in {f \in ToSet(roots) : IsGeometry(ft, f) /\ f # BoundedBy}}
      BY <3>1 DEF Replaced
    <3> QED BY <3>2
  <2>2. e \in DOMAIN ft.fields /\ Source(ft, e).kind = "geometry"
    BY <2>1 DEF IsGeometry
  <2>3. ~IsExtra(e)
    BY <1>2 DEF IsExtra, RendersGeometries
  <2>4. e \in Resolvable(ft) /\ Len(e) = 1
    <3>1. Len(e) = 1
      BY <1>1, <2>3, QueryParts
    <3> QED BY <2>2, <3>1, ResolvableKinds
  <2>5. ~IsFlattened(ft, e)
    BY <1>1, <2>1, <2>4, DottedElements
  <2>6. Len(Absolute(ft, e)) = 1
    BY <1>1, <2>4, <2>5, PlainElements
  <2> QED BY <1>2, <2>1, <2>2, <2>6 DEF RendersGeometries
<1>3. CASE ~RendersGeometries
  <2>1. db /\ format = "json" /\ a = Absolute(ft, MainGeometry(ft))
    BY <1>3 DEF Replaced
  <2>2. MainGeometry(ft) \in Geometries(ft)
    BY <1>1, MainGeometryIsField DEF RequestInv
  <2> DEFINE g == MainGeometry(ft)
  <2>3. g \in DOMAIN ft.fields /\ IsGeometry(ft, g) /\ g # BoundedBy
    BY <1>1, <2>2, FieldIsPath DEF Geometries
  <2>4. Source(ft, g).kind = "geometry"
    BY <2>3 DEF IsGeometry
  <2>5. ~(Len(a) > 1)
    BY <2>1 DEF Rendering, Dotted
  <2>6. IsSequence(a) /\ a # <<>>
    BY <1>1, <2>1, <2>3, ResolvableKinds, AbsoluteParts, PathsOfRelations
  <2>7. Len(a) \in Nat /\ Len(a) # 0
    BY <2>6 DEF IsSequence
  <2>8. Len(a) = 1
    BY <2>5, <2>7
  <2> QED BY <2>1, <2>3, <2>4, <2>8
<1> QED
  BY <1>2, <1>3

(* A column that is named is loaded, but on the way to a list.             *)
LEMMA NamedColumn ==
    ASSUME Rendering, Given, NEW x, x \in ToSet(NamedElements) \/ x \in ToSet(extra), Absolute(ft, x) \notin Replaced
    PROVE  Head(Absolute(ft, x)) \in columns \/ (CrossesMany(ft, x) /\ ~IsArray(ft, x))
<1>1. x \in ToSet(Matches)
  BY MatchesHold DEF Rendering
<1>2. columns = ColumnsToLoad
  BY DEF Rendering, LoadedInv
<1> QED
  BY <1>1, <1>2 DEF ColumnsToLoad, OnlyFields

(* So is one of the feature when nothing is named.                         *)
LEMMA OwnColumn ==
    ASSUME Rendering, ~Given, NEW x \in Children(ft, Root), ~IsMany(ft, x) \/ IsArray(ft, x), Absolute(ft, x) \notin Replaced
    PROVE  Head(Absolute(ft, x)) \in columns
<1>1. x \in ToSet(Elements(ft, Root))
  BY ElementsOf DEF Rendering, Bound
<1>2. columns = ColumnsToLoad
  BY DEF Rendering, LoadedInv
<1> QED
  BY <1>1, <1>2 DEF ColumnsToLoad, OnlyFields

(* A complex element is loaded when its relation is.                       *)
LEMMA KeyOrNot ==
    ASSUME Rendering, NEW q \in Complex(ft), Absolute(ft, q) \in ToSet(RelationPaths)
    PROVE  q \in ToSet(keys)
<1>1. InQuery /\ Shape /\ FollowedOnce /\ IsFeatureType(ft)
  BY DEF Rendering, InQuery, Bound
<1>2. CASE \E e \in ToSet(AllFlattened) : Absolute(ft, q) = OrmRelation(ft, e)
  <2>1. PICK e \in ToSet(AllFlattened) : Absolute(ft, q) = OrmRelation(ft, e)
    BY <1>2
  <2>2. e \in Flattened(ft)
    BY <1>1, <2>1, FieldsOfDotted
  <2>3. Len(Absolute(ft, q)) \in Nat
    BY <1>1, ComplexIsField, ResolvableKinds, AbsoluteParts DEF IsSequence
  <2>4. IsPrefix(Absolute(ft, q), OrmRelation(ft, e))
    BY <2>1, <2>3 DEF IsPrefix
  <2> QED BY <1>1, <2>2, <2>4, OneForARelation
<1>3. CASE \E p \in ToSet(keys) : Absolute(ft, q) = Absolute(ft, p)
  <2>1. PICK p \in ToSet(keys) : Absolute(ft, q) = Absolute(ft, p)
    BY <1>3
  <2>2. p \in Complex(ft)
    BY <1>1, <2>1, FieldsOfKey
  <2> QED BY <1>1, <2>1, <2>2, OneForARelation
<1> QED
  BY <1>1, <1>2, <1>3, RelationPathsAre

(* With PROPERTYNAME, something in it is named.                            *)
LEMMA KeyIsNamed ==
    ASSUME Rendering, Given, NEW p \in ToSet(keys)
    PROVE  \E y \in ToSet(NamedElements) : /\ y \in Resolvable(ft)
                                           /\ \E k \in 1..Len(y) : k < Len(y) /\ p = Prefix(y, k)
<1>1. InQuery /\ Shape /\ FollowedOnce /\ IsFeatureType(ft) /\ RequestInv
  BY QueryParts DEF Rendering, InQuery, Bound
<1>2. IsNode(p) /\ p \in Complex(ft)
  BY <1>1, QueryParts, ParentsHaveFields DEF IsParent
<1>3. PICK i \in DOMAIN names : p \in ToSet(Nodes(NamedElements[i]))
  BY <1>2 DEF IsNode
<1> DEFINE y == NamedElements[i]
<1>4. y \in Resolvable(ft) /\ y \in ToSet(NamedElements)
  BY <1>1 DEF RequestInv, NamedElements, ToSet
<1>5. PICK k \in 1..Len(y) : p = Prefix(y, k)
  BY <1>1, <1>3, <1>4, NodesOf
<1>6. IsPath(y) /\ Len(y) \in Nat /\ Prefix(y, Len(y)) = y
  BY <1>1, <1>4, ResolvableParts, PathParts
<1>7. ~IsComplex(ft, y)
  BY <1>4 DEF Rendering, LeavesAreNamed
<1>8. k # Len(y)
  BY <1>2, <1>5, <1>6, <1>7, ComplexIsField
<1> QED
  BY <1>4, <1>5, <1>6, <1>8

(* Following an attribute by one relation needs no query, but for the way  *)
(* to a list.                                                              *)
IsOnTheWay(b, j) ==
    /\ Prefix(b, j) \in Fetched
    /\ LET relation == FieldAt(ft.model, Prefix(b, j))
       IN  /\ relation.kind = "fk" => b[j] \in LoadedAt(Prefix(b, j - 1)) \/ (j = 1 /\ b[1] \in WaysToLists)
           /\ relation.kind = "reverse" => relation.back \in LoadedAt(Prefix(b, j))

(* What leads to a key is an element with children, at its own path.        *)
LEMMA KeyParts ==
    ASSUME Rendering, NEW p \in ToSet(keys), NEW j \in 1..Len(p)
    PROVE  /\ Prefix(p, j) \in Complex(ft) /\ Prefix(p, j) \in DOMAIN ft.fields /\ Prefix(p, j) \in Resolvable(ft)
           /\ Chosen(Prefix(p, j)) /\ IsPath(Prefix(p, j)) /\ Len(Prefix(p, j)) = j
           /\ Front(Prefix(p, j)) = Prefix(p, j - 1)
           /\ Absolute(ft, Prefix(p, j)) = Prefix(Absolute(ft, p), j)
           /\ Last(Absolute(ft, Prefix(p, j))) = Absolute(ft, p)[j]
           /\ IsPath(Absolute(ft, p)) /\ Len(Absolute(ft, p)) = Len(p) /\ Len(p) \in Nat
<1>1. InQuery /\ Shape /\ FollowedOnce /\ IsFeatureType(ft) /\ RequestInv
  BY QueryParts DEF Rendering, InQuery, Bound
<1>2. p \in Complex(ft) /\ p \in DOMAIN ft.fields /\ IsPath(p) /\ p \in Resolvable(ft) /\ Chosen(p)
  BY <1>1, QueryParts, ParentsHaveFields
<1>3. Len(p) \in Nat /\ Prefix(p, Len(p)) = p
  BY <1>2, PathParts
<1>4. Prefix(p, j) \in Complex(ft)
  BY <1>1, <1>2, <1>3, ResolvableParts
<1>5. Chosen(Prefix(p, j))
  BY <1>1, <1>2, ChosenAreElements
<1>6. ~IsFlattened(ft, p)
  BY <1>1, <1>2, DottedElements
<1>7. /\ Absolute(ft, Prefix(p, j)) = Prefix(Absolute(ft, p), j)
      /\ IsPath(Absolute(ft, p)) /\ Len(Absolute(ft, p)) = Len(p)
  BY <1>1, <1>2, <1>6, PlainPrefixes
<1>8. Last(Prefix(Absolute(ft, p), j)) = Absolute(ft, p)[j]
  BY <1>7, PrefixParts
<1>9. IsPath(Prefix(p, j)) /\ Len(Prefix(p, j)) = j /\ Front(Prefix(p, j)) = Prefix(p, j - 1)
  BY <1>2, PrefixParts
<1> QED
  BY <1>3, <1>4, <1>5, <1>7, <1>8, <1>9, ComplexIsField, ResolvableKinds

(* The first column on the way to a complex element.                       *)
LEMMA FirstOfKey ==
    ASSUME Rendering, NEW p \in ToSet(keys), Len(p) >= 1, FieldAt(ft.model, Prefix(Absolute(ft, p), 1)).kind = "fk"
    PROVE  Absolute(ft, p)[1] \in columns \union WaysToLists
<1> DEFINE b == Absolute(ft, p)
           q == Prefix(p, 1)
<1>1. InQuery /\ Shape /\ FollowedOnce /\ IsFeatureType(ft) /\ RequestInv
  BY QueryParts DEF Rendering, InQuery, Bound
<1>2. 1 \in 1..Len(p)
  <2>1. Len(p) \in Nat
    BY <1>1, QueryParts, ParentsHaveFields, PathParts
  <2> QED BY <2>1
<1>3. /\ q \in Complex(ft) /\ q \in DOMAIN ft.fields /\ IsPath(q) /\ Len(q) = 1 /\ q \in Resolvable(ft)
      /\ Absolute(ft, q) = Prefix(b, 1) /\ Last(Absolute(ft, q)) = b[1]
      /\ IsPath(b) /\ Len(b) = Len(p)
  BY <1>2, KeyParts
<1>4. Source(ft, q).kind = "fk"
  BY <1>3 DEF Source
<1>5. /\ IsPath(Prefix(b, 1)) /\ Len(Prefix(b, 1)) = 1 /\ Prefix(b, 1)[1] = b[1]
  <2> HIDE DEF b
  <2>1. 1 \in 1..Len(b) /\ 1 \in 1..1
    BY <1>2, <1>3
  <2> QED BY <1>3, <2>1, PrefixParts
<1>6. Source(ft, q) = Model[ft.model][b[1]]
  <2> DEFINE c == Prefix(b, 1)
  <2>1. Source(ft, q) = Model[ModelsAlong(ft.model, c)[Len(c) - 1]][Last(c)]
    BY <1>3 DEF Source, FieldAt
  <2>2. ModelsAlong(ft.model, c)[0] = ft.model
    <3>1. Len(c) \in Nat
      BY <1>5
    <3> HIDE DEF c
    <3> QED BY <3>1, AlongStep
  <2>3. Len(c) - 1 = 0 /\ Last(c) = b[1]
    BY <1>3, <1>5
  <2> HIDE DEF c
  <2> QED BY <2>1, <2>2, <2>3
<1> HIDE DEF b, q
<1>7. CASE ~Given
  <2>1. q \in Children(ft, Root)
    BY <1>3, FrontOfOne DEF Children
  <2>2. ~IsMany(ft, q)
    BY <1>4 DEF IsMany
  <2>3. Absolute(ft, q) \notin Replaced
    <3> SUFFICES ASSUME Absolute(ft, q) \in Replaced PROVE FALSE
      OBVIOUS
    <3>1. PICK g \in DOMAIN ft.fields : Source(ft, g).kind = "geometry" /\ Absolute(ft, q) = Absolute(ft, g)
      BY ReplacedAreGeometries
    <3> QED BY <1>4, <3>1 DEF Source
  <2>4. Head(Absolute(ft, q)) \in columns
    BY <1>7, <2>1, <2>2, <2>3, OwnColumn
  <2>5. Head(Absolute(ft, q)) = b[1]
    BY <1>3, <1>5
  <2> QED BY <2>4, <2>5 DEF b
<1>8. CASE Given
  <2>1. PICK y \in ToSet(NamedElements) : /\ y \in Resolvable(ft)
                                          /\ \E k \in 1..Len(y) : k < Len(y) /\ p = Prefix(y, k)
    BY <1>8, KeyIsNamed
  <2>2. PICK k \in 1..Len(y) : k < Len(y) /\ p = Prefix(y, k)
    BY <2>1
  <2>3. IsPath(y) /\ Len(y) \in Nat /\ Len(y) > 1
    <3>1. IsPath(y) /\ Len(y) \in Nat
      BY <1>1, <2>1, ResolvableParts, PathParts
    <3> QED BY <2>2, <3>1
  <2>4. ~IsFlattened(ft, y)
    <3>1. Len(y) # 1
      <4>1. PICK n \in Nat : n = Len(y)
        BY <2>3
      <4>2. n > 1
        BY <2>3, <4>1
      <4> QED BY <4>1, <4>2
    <3> QED BY <1>1, <2>1, <3>1, DottedElements
  <2>5. /\ Absolute(ft, Prefix(y, k)) = Prefix(Absolute(ft, y), k)
        /\ IsPath(Absolute(ft, y)) /\ Len(Absolute(ft, y)) = Len(y)
    BY <1>1, <2>1, <2>4, PlainPrefixes
  <2>6. b[1] = Absolute(ft, y)[1]
    <3>1. k \in 1..Len(Absolute(ft, y)) /\ 1 \in 1..k
      BY <2>2, <2>3, <2>5
    <3> QED BY <2>2, <2>5, <3>1, PrefixParts DEF b
  <2>7. Head(Absolute(ft, y)) = b[1]
    BY <2>5, <2>6
  <2>8. Absolute(ft, y) \notin Replaced
    <3>1. Len(Absolute(ft, y)) # 1
      BY <2>3, <2>5
    <3> QED BY <3>1, ReplacedAreGeometries
  <2>9. Head(Absolute(ft, y)) \in columns \/ (CrossesMany(ft, y) /\ ~IsArray(ft, y))
    BY <1>8, <2>1, <2>8, NamedColumn
  <2>10. CASE CrossesMany(ft, y) /\ ~IsArray(ft, y)
    <3>1. Model[ft.model][b[1]].kind = "fk"
      BY <1>4, <1>6
    <3>2. b[1] \in WaysToLists
      BY <1>8, <2>1, <2>7, <2>10, <3>1 DEF WaysToLists, FieldsShown
    <3> QED BY <3>2 DEF b
  <2> QED BY <2>7, <2>9, <2>10 DEF b
<1> QED
  BY <1>7, <1>8

(* A complex element is reached by what was prefetched.                    *)
LEMMA KeyIsReached ==
    ASSUME Rendering, NEW p \in ToSet(keys), NEW j \in 1..Len(p)
    PROVE  IsOnTheWay(Absolute(ft, p), j)
<1> DEFINE b == Absolute(ft, p)
           q == Prefix(p, j)
           relation == FieldAt(ft.model, Prefix(b, j))
<1>1. InQuery /\ Shape /\ FollowedOnce /\ Bound /\ IsFeatureType(ft) /\ RequestInv
  BY QueryParts DEF Rendering, InQuery, Bound
<1>2. /\ q \in Complex(ft) /\ q \in DOMAIN ft.fields /\ q \in Resolvable(ft)
      /\ Chosen(q) /\ IsPath(q) /\ Len(q) = j
      /\ Front(q) = Prefix(p, j - 1)
      /\ Absolute(ft, q) = Prefix(b, j) /\ Last(Absolute(ft, q)) = b[j]
      /\ IsPath(b) /\ Len(b) = Len(p) /\ Len(p) \in Nat
  BY KeyParts
<1>3. relation = Source(ft, q)
  BY <1>2 DEF Source
<1>4. Absolute(ft, q) # <<>>
  BY <1>1, <1>2, PathsOfRelations
<1>5. Prefix(b, j) \in Fetched
  <2>1. b \in ToSet(RelationPaths) /\ b # <<>>
    BY LoadedForKey
  <2>2. j \in 1..Len(b)
    BY <1>2
  <2> HIDE DEF b
  <2> QED BY <2>1, <2>2, WhatIsLoaded
<1> HIDE DEF b, q
<1>6. ASSUME relation.kind = "reverse" PROVE relation.back \in LoadedAt(Prefix(b, j))
  <2>1. CASE Absolute(ft, q) \in ToSet(RelationPaths)
    <3>1. q \in ToSet(keys)
      BY <1>2, <2>1, KeyOrNot
    <3> QED BY <1>2, <1>3, <1>6, <3>1, LoadedForKey
  <2>2. CASE Absolute(ft, q) \notin ToSet(RelationPaths)
    <3>1. LoadedAt(Absolute(ft, q)) = Known(Absolute(ft, q))
      BY <1>4, <2>2, WhatIsLoaded
    <3>2. Source(ft, q).back \in Known(Absolute(ft, q))
      BY <1>1, <1>2, <1>3, <1>6, KeyModel DEF Known
    <3> QED BY <1>2, <1>3, <3>1, <3>2
  <2> QED BY <2>1, <2>2
<1>7. ASSUME relation.kind = "fk", j # 1 PROVE b[j] \in LoadedAt(Prefix(b, j - 1))
  <2> DEFINE c == Prefix(p, j - 1)
  <2>1. j - 1 \in 1..Len(p)
    BY <1>2, <1>7
  <2>2. c \in Complex(ft) /\ c \in Resolvable(ft) /\ Absolute(ft, c) = Prefix(b, j - 1)
    BY <2>1, KeyParts DEF b
  <2>3. Front(q) = c
    BY <1>2
  <2> HIDE DEF c
  <2>4. CASE Absolute(ft, c) \in ToSet(RelationPaths)
    <3>1. c \in ToSet(keys)
      BY <2>2, <2>4, KeyOrNot
    <3>2. Shown(q)
      <4>1. ~IsMany(ft, q) /\ ~IsGeometry(ft, q) /\ q \notin {GmlName, BoundedBy}
        <5>1. q \notin {GmlName, BoundedBy}
          BY <1>1, <1>2, FieldIsPath
        <5>2. ~IsMany(ft, q)
          BY <1>3, <1>7 DEF IsMany
        <5>3. ~IsGeometry(ft, q)
          BY <1>2, <5>1, ComplexIsField DEF IsGeometry
        <5> QED BY <5>1, <5>2, <5>3
      <4>2. ~Unshown(q)
        BY <4>1 DEF Unshown
      <4> QED BY <4>2 DEF Shown
    <3>3. q \in ToSet(children[c])
      BY <1>1, <1>2, <2>3, <3>1, <3>2, QueryParts
    <3>4. ~IsGeometry(ft, q)
      BY <1>1, <1>2, FieldIsPath, ComplexIsField DEF IsGeometry
    <3>5. Last(Absolute(ft, q)) \in LoadedAt(Absolute(ft, c))
      BY <1>2, <1>3, <1>7, <3>1, <3>3, <3>4, LoadedForKey
    <3> QED BY <1>2, <2>2, <3>5
  <2>5. CASE Absolute(ft, c) \notin ToSet(RelationPaths)
    <3>1. Absolute(ft, c) # <<>>
      BY <1>1, <2>2, PathsOfRelations
    <3>2. LoadedAt(Absolute(ft, c)) = Known(Absolute(ft, c))
      BY <2>5, <3>1, WhatIsLoaded
    <3>3. Last(Absolute(ft, q)) \in Known(Absolute(ft, c))
      BY <1>1, <1>2, <2>2, <2>3, ChildName DEF Known
    <3> QED BY <1>2, <2>2, <3>2, <3>3
  <2> QED BY <2>4, <2>5
<1>8. ASSUME relation.kind = "fk", j = 1 PROVE b[1] \in columns \union WaysToLists
  <2>1. Len(p) >= 1
    BY <1>2, <1>8
  <2>2. FieldAt(ft.model, Prefix(Absolute(ft, p), 1)).kind = "fk"
    BY <1>8 DEF b
  <2> QED BY <2>1, <2>2, FirstOfKey DEF b
<1>9. j = 1 => LoadedAt(Prefix(b, j - 1)) = columns
  <2>1. Prefix(b, 0) = <<>>
    BY <1>2 DEF IsPath, Prefix
  <2>2. LoadedAt(<<>>) = columns
    BY DEF LoadedAt
  <2> QED BY <2>1, <2>2
<1>10. IsOnTheWay(b, j)
  BY <1>5, <1>6, <1>7, <1>8, <1>9 DEF IsOnTheWay
<1> QED
  BY <1>10 DEF b

(* The way to an object is the beginning of the way to what it has.        *)
LEMMA ModelOfPrefix ==
    ASSUME NEW b, IsPath(b), NEW m \in 1..Len(b)
    PROVE  ModelBehind(ft.model, Prefix(b, m)) = Between(b, m)
<1> DEFINE c == Prefix(b, m)
<1>1. Len(b) \in Nat /\ m \in Nat /\ m <= Len(b) /\ m \in 0..m
  BY PathParts
<1>2. Len(c) = m /\ \A i \in 1..m : c[i] = b[i]
  BY PrefixParts
<1>3. Len(c) \in Nat /\ m <= Len(c)
  BY <1>1, <1>2
<1> HIDE DEF c
<1>4. ModelsAlong(ft.model, c)[m] = ModelsAlong(ft.model, b)[m]
  <2>1. PICK k \in Nat : k = m
    BY <1>1
  <2>2. k <= Len(b) /\ k <= Len(c) /\ Len(b) \in Nat /\ Len(c) \in Nat /\ \A i \in 1..k : c[i] = b[i]
    BY <1>1, <1>2, <1>3, <2>1
  <2>3. \A i \in 0..k : ModelsAlong(ft.model, c)[i] = ModelsAlong(ft.model, b)[i]
    BY <2>2, AlongPrefix
  <2>4. k \in 0..k
    BY <2>1
  <2> QED BY <2>1, <2>3, <2>4
<1> QED
  BY <1>2, <1>4 DEF ModelBehind, Between, c

(* So is the object that has the value of a dotted attribute.              *)
LEMMA DottedIsReached ==
    ASSUME Rendering, NEW e \in ToSet(AllFlattened), NEW j \in 1..(Len(Absolute(ft, e)) - 1)
    PROVE  IsOnTheWay(Absolute(ft, e), j)
<1> DEFINE b == Absolute(ft, e)
           n == Len(b)
           path == OrmRelation(ft, e)
           relation == FieldAt(ft.model, Prefix(b, j))
<1>1. InQuery /\ Shape /\ FollowedOnce /\ Bound /\ IsFeatureType(ft) /\ RequestInv /\ ListsAreNested
  BY QueryParts DEF Rendering, InQuery, Bound
<1>2. e \in Flattened(ft) /\ e \in DOMAIN ft.fields
  BY <1>1, FieldsOfDotted
<1>3. /\ b = Attribute(ft, e) /\ IsPath(b) /\ n > 1 /\ Len(e) = 1 /\ ~IsGeometry(ft, e)
      /\ path = Prefix(b, n - 1) /\ Len(path) = n - 1 /\ n \in Nat
  BY <1>1, <1>2, DottedName, PathParts
<1>4. j \in 1..n /\ j \in 1..Len(path) /\ j < n /\ n - 1 \in 1..n
  BY <1>3
<1>5. path \in ToSet(RelationPaths) /\ path # <<>>
  <2>1. IsFlattened(ft, e)
    BY <1>2 DEF Flattened
  <2> QED BY <1>1, <1>2, <2>1, RelationPathsAre, PathsOfRelations, ResolvableKinds
<1>6. Prefix(path, j) = Prefix(b, j)
  <2> HIDE DEF b, n, path
  <2>1. n - 1 \in 1..Len(b) /\ j \in 1..(n - 1)
    BY <1>3, <1>4 DEF n
  <2> QED BY <1>3, <2>1, PrefixParts
<1>7. Prefix(b, j) \in Fetched
  <2> HIDE DEF b, n, path
  <2> QED BY <1>4, <1>5, <1>6, WhatIsLoaded
<1>8. relation.kind # "reverse"
  <2>1. j \in 1..(Len(Attribute(ft, e)) - 1)
    BY <1>3
  <2>2. FieldAt(ft.model, SubSeq(Attribute(ft, e), 1, j)).kind # "reverse"
    BY <1>1, <1>2, <2>1 DEF ListsAreNested
  <2> QED BY <1>3, <2>2 DEF Prefix
<1>9. ASSUME j = 1 PROVE b[j] \in LoadedAt(Prefix(b, j - 1))
  <2>1. Prefix(b, 0) = <<>>
    BY <1>3 DEF IsPath, Prefix
  <2>2. LoadedAt(<<>>) = columns
    BY DEF LoadedAt
  <2>3. b \notin Replaced
    <3>1. n # 1
      BY <1>3
    <3> QED BY <3>1, ReplacedAreGeometries
  <2>4. ~IsMany(ft, e) \/ IsArray(ft, e)
    <3>1. ~IsComplex(ft, e)
      BY <1>1, <1>2, ResolvableKinds, DottedElements, ComplexIsField DEF Flattened
    <3> QED BY <1>1, <1>2, <3>1 DEF ListsAreNested, IsMany, IsArray
  <2>5. Head(b) = b[1]
    BY <1>3
  <2>6. Head(b) \in columns
    <3>1. CASE ~Given
      <4>1. e \in Children(ft, Root)
        BY <1>1, <1>2, <1>3, FieldIsPath, FrontOfOne DEF Children
      <4> QED BY <2>3, <2>4, <3>1, <4>1, OwnColumn
    <3>2. CASE Given
      <4>1. e \in ToSet(AllElements)
        <5>1. AllFlattened = Only(AllElements, {x \in ToSet(AllElements) : IsFlattened(ft, x)})
          BY <3>2 DEF AllFlattened
        <5> DEFINE S == {x \in ToSet(AllElements) : IsFlattened(ft, x)}
        <5>2. AllElements \in Seq(Resolvable(ft))
          BY <1>1, AllElementsAre
        <5> HIDE DEF S
        <5> QED BY <5>1, <5>2, OnlyThose DEF S
      <4>2. Chosen(e) \/ IsExtra(e)
        BY <1>1, <4>1, AllElementsAre
      <4>3. ~IsExtra(e)
        BY <1>1, <1>3, MainGeometryIsField DEF IsExtra, RequestInv, Geometries
      <4>4. e \notin Complex(ft)
        BY <1>1, <1>2, ResolvableKinds, DottedElements DEF Flattened
      <4>5. e \in ToSet(NamedElements)
        BY <1>1, <3>2, <4>2, <4>3, <4>4, ChosenByName
      <4>6. ~(CrossesMany(ft, e) /\ ~IsArray(ft, e))
        <5>1. SubSeq(e, 1, 1) = e
          <6>1. IsPath(e)
            BY <1>1, <1>2, FieldIsPath
          <6> QED BY <1>3, <6>1, PathParts DEF Prefix
        <5>2. CrossesMany(ft, e) => IsMany(ft, e)
          <6> SUFFICES ASSUME NEW k \in 1..Len(e), IsMany(ft, SubSeq(e, 1, k)) PROVE IsMany(ft, e)
            BY DEF CrossesMany
          <6>1. k = 1
            BY <1>3
          <6> QED BY <5>1, <6>1
        <5> QED BY <2>4, <5>2
      <4> QED BY <2>3, <3>2, <4>5, <4>6, NamedColumn
    <3> QED BY <3>1, <3>2
  <2> QED BY <1>9, <2>1, <2>2, <2>5, <2>6
<1>10. ASSUME j # 1 PROVE b[j] \in LoadedAt(Prefix(b, j - 1))
  <2> DEFINE c == Prefix(b, j - 1)
  <2>1. j - 1 \in 1..n /\ j - 1 < n - 1 /\ j - 1 \in 1..(n - 1) /\ j - 1 \in Nat
    BY <1>3, <1>10
  <2>2. IsPath(c) /\ Len(c) = j - 1 /\ \A i \in 1..(j - 1) : c[i] = b[i]
    <3> HIDE DEF b
    <3>1. j - 1 \in 1..Len(b)
      BY <2>1
    <3> QED BY <1>3, <3>1, PrefixParts
  <2>3. c = Prefix(path, j - 1)
    <3> HIDE DEF b, n, path
    <3>1. n - 1 \in 1..Len(b)
      BY <1>3, <1>4 DEF n
    <3> QED BY <1>3, <2>1, <3>1, PrefixParts
  <2>4. IsPrefix(c, path) /\ IsStrictPrefix(c, path)
    <3>1. Len(c) <= Len(path) /\ c = SubSeq(path, 1, Len(c))
      BY <1>3, <2>1, <2>2, <2>3 DEF Prefix
    <3>2. IsPrefix(c, path)
      BY <3>1 DEF IsPrefix
    <3>3. c # path
      BY <1>3, <2>1, <2>2
    <3> QED BY <3>2, <3>3 DEF IsStrictPrefix
  <2>5. c \notin ToSet(RelationPaths)
    <3> SUFFICES ASSUME c \in ToSet(RelationPaths) PROVE FALSE
      OBVIOUS
    <3>1. CASE \E f \in ToSet(AllFlattened) : c = OrmRelation(ft, f)
      <4>1. PICK f \in ToSet(AllFlattened) : c = OrmRelation(ft, f)
        BY <3>1
      <4> QED BY <1>1, <1>2, <2>4, <4>1, FieldsOfDotted, OneForARelation
    <3>2. CASE \E p \in ToSet(keys) : c = Absolute(ft, p)
      <4>1. PICK p \in ToSet(keys) : c = Absolute(ft, p)
        BY <3>2
      <4> QED BY <1>1, <1>2, <2>4, <4>1, FieldsOfKey, OneForARelation
    <3> QED BY <1>1, <3>1, <3>2, RelationPathsAre
  <2>6. c # <<>>
    BY <2>2 DEF IsPath, Root
  <2>7. LoadedAt(c) = Known(c)
    <3> HIDE DEF c
    <3> QED BY <2>5, <2>6, WhatIsLoaded
  <2>8. ModelBehind(ft.model, c) = Between(b, j - 1)
    <3>1. j - 1 \in 1..Len(b)
      BY <2>1
    <3> HIDE DEF b
    <3> QED BY <1>3, <3>1, ModelOfPrefix
  <2>9. b[j] \in DOMAIN Model[Between(b, j - 1)]
    <3>1. Leads(ft.model, b)
      BY <1>1, <1>2 DEF Bound, Bindable
    <3> HIDE DEF b
    <3>2. Len(b) \in Nat /\ j \in 1..Len(b)
      BY <1>3, <1>4
    <3> QED BY <1>1, <3>1, <3>2, LeadsStep DEF Bound
  <2> QED BY <2>7, <2>8, <2>9 DEF Known
<1>11. IsOnTheWay(b, j)
  BY <1>7, <1>8, <1>9, <1>10 DEF IsOnTheWay
<1> QED
  BY <1>11 DEF b

(* The way to what leads to b is part of the way to b.                      *)
LEMMA WayOfPrefix ==
    ASSUME NEW b, IsPath(b), NEW m \in 1..Len(b), NEW j \in 1..m
    PROVE  IsOnTheWay(Prefix(b, m), j) <=> IsOnTheWay(b, j)
<1> DEFINE c == Prefix(b, m)
<1>1. /\ IsPath(c) /\ Len(c) = m /\ \A i \in 1..m : c[i] = b[i]
      /\ \A i \in 1..m : Prefix(c, i) = Prefix(b, i)
  BY PrefixParts
<1>2. m \in Nat /\ j \in Nat /\ 1 \in 1..m
  BY PathParts
<1>3. c[j] = b[j] /\ c[1] = b[1] /\ Prefix(c, j) = Prefix(b, j)
  BY <1>1, <1>2
<1>4. Prefix(c, j - 1) = Prefix(b, j - 1)
  <2>1. CASE j = 1
    BY <1>1, <2>1 DEF IsPath, Prefix
  <2>2. CASE j # 1
    <3>1. j - 1 \in 1..m
      BY <1>2, <2>2
    <3> HIDE DEF c
    <3> QED BY <1>1, <3>1
  <2> QED BY <2>1, <2>2
<1> HIDE DEF c
<1>5. IsOnTheWay(c, j) <=> IsOnTheWay(b, j)
  BY <1>3, <1>4 DEF IsOnTheWay
<1> QED
  BY <1>5 DEF c

(* What is read when all that leads to a value is on the way.              *)
LEMMA ReadsOnTheWay ==
    ASSUME NEW b, IsPath(b), NEW asObject \in BOOLEAN,
           \A j \in 1..Len(b) : j < Len(b) \/ asObject => IsOnTheWay(b, j),
           ~asObject => b[Len(b)] \in LoadedAt(Prefix(b, Len(b) - 1))
    PROVE  ReadsFor(b, asObject) \subseteq {<<f>> : f \in WaysToLists}
<1> SUFFICES ASSUME NEW r \in ReadsFor(b, asObject) PROVE r \in {<<f>> : f \in WaysToLists}
  OBVIOUS
<1>1. Len(b) \in Nat /\ Len(b) >= 1
  BY PathParts
<1>2. PICK k \in 1..(IF "relations" \in nulls THEN 1 ELSE Len(b)) :
          ~StepOf(b, k, asObject) /\ r = SubSeq(b, 1, k)
  BY DEF ReadsFor
<1>3. k \in 1..Len(b)
  BY <1>1, <1>2
<1>4. k < Len(b) \/ asObject
  <2> SUFFICES ASSUME ~(k < Len(b)), ~asObject PROVE FALSE
    OBVIOUS
  <2>1. k = Len(b)
    BY <1>1, <1>3
  <2> QED BY <1>2, <2>1 DEF StepOf, Prefix
<1>5. IsOnTheWay(b, k)
  BY <1>3, <1>4
<1> DEFINE relation == FieldAt(ft.model, Prefix(b, k))
<1>6. ~(/\ Prefix(b, k) \in Fetched
        /\ CASE relation.kind = "fk"      -> b[k] \in LoadedAt(Prefix(b, k - 1))
             [] relation.kind = "reverse" -> relation.back \in LoadedAt(Prefix(b, k))
             [] OTHER -> TRUE)
  BY <1>2, <1>4 DEF StepOf, Prefix
<1> HIDE DEF relation
<1>7. k = 1 /\ b[1] \in WaysToLists
  <2>1. /\ Prefix(b, k) \in Fetched
        /\ relation.kind = "fk" => b[k] \in LoadedAt(Prefix(b, k - 1)) \/ (k = 1 /\ b[1] \in WaysToLists)
        /\ relation.kind = "reverse" => relation.back \in LoadedAt(Prefix(b, k))
    BY <1>5 DEF IsOnTheWay, relation
  <2>2. CASE relation.kind = "fk"
    BY <1>6, <2>1, <2>2
  <2>3. CASE relation.kind = "reverse"
    BY <1>6, <2>1, <2>3
  <2>4. CASE relation.kind # "fk" /\ relation.kind # "reverse"
    BY <1>6, <2>1, <2>4
  <2> QED BY <2>2, <2>3, <2>4
<1>8. r = <<b[1]>>
  <2>1. SubSeq(b, 1, 1) = <<b[1]>>
    <3> DEFINE c == Prefix(b, 1)
    <3>1. IsPath(c) /\ Len(c) = 1 /\ c[1] = b[1]
      <4>1. 1 \in 1..Len(b) /\ 1 \in 1..1
        BY <1>1
      <4> QED BY <4>1, PrefixParts
    <3> HIDE DEF c
    <3>2. c = <<c[1]>>
      <4>1. c \in Seq(ToSet(c))
        BY <3>1 DEF IsPath
      <4> QED BY <3>1, <4>1
    <3> QED BY <3>1, <3>2 DEF c, Prefix
  <2> QED BY <1>2, <1>7, <2>1
<1> QED
  BY <1>7, <1>8

(* The display value is a column of the feature itself.                     *)
LEMMA DisplayIsOne == ReadsFor(Display, FALSE) \subseteq {Display}
<1> DEFINE d == Display
<1>1. d \in Seq({d[1]}) /\ Len(d) = 1 /\ d = <<d[1]>>
  BY DEF Display
<1> HIDE DEF d
<1>2. SubSeq(d, 1, 1) = d
  BY <1>1
<1>3. ReadsFor(d, FALSE) \subseteq {d}
  <2> SUFFICES ASSUME NEW r \in ReadsFor(d, FALSE) PROVE r = d
    OBVIOUS
  <2>1. PICK k \in 1..(IF "relations" \in nulls THEN 1 ELSE Len(d)) : r = SubSeq(d, 1, k)
    BY DEF ReadsFor
  <2>2. k = 1
    BY <1>1, <2>1
  <2> QED BY <1>2, <2>1, <2>2
<1> QED
  BY <1>3 DEF d

(* An element of the answer that is a value, not read by the database.     *)
IsValue(e) ==
    /\ e \in Resolvable(ft) /\ ~IsComplex(ft, e) /\ e \notin {GmlName, BoundedBy} /\ ~ReadByDatabase(e)
    /\ \/ e \in ToSet(roots)
       \/ Len(e) > 1 /\ Front(e) \in ToSet(keys) /\ e \in ToSet(children[Front(e)])
IsReached(b, asObject) ==
    /\ IsPath(b)
    /\ \A j \in 1..Len(b) : j < Len(b) \/ asObject => IsOnTheWay(b, j)
    /\ ~asObject => b[Len(b)] \in LoadedAt(Prefix(b, Len(b) - 1))

(* The value of a dotted attribute is prefetched.                          *)
LEMMA DottedValue ==
    ASSUME Rendering, NEW e, IsValue(e), IsFlattened(ft, e)
    PROVE  IsReached(Absolute(ft, e), FALSE)
<1> DEFINE b == Absolute(ft, e)
           path == OrmRelation(ft, e)
<1>1. InQuery /\ Shape /\ FollowedOnce /\ Bound /\ IsFeatureType(ft) /\ RequestInv /\ ListsAreNested
  BY QueryParts DEF Rendering, InQuery, Bound
<1>2. e \in Resolvable(ft) /\ e \in DOMAIN ft.fields /\ Len(e) = 1 /\ e \in Flattened(ft)
  BY <1>1, DottedElements DEF IsValue
<1>3. e \in ToSet(AllFlattened)
  <2>1. e \in ToSet(AllElements)
    BY <1>1, AllElementsAre DEF IsValue
  <2>2. e \in Children(ft, Root)
    BY <1>1, <1>2, FieldIsPath, FrontOfOne DEF Children
  <2> QED BY <1>1, <2>1, <2>2, FlattenedAre
<1>4. IsPath(b) /\ Len(b) \in Nat /\ path = Prefix(b, Len(b) - 1)
  BY <1>1, <1>2, DottedName, PathParts
<1>5. path \in ToSet(RelationPaths) /\ path # <<>>
  BY <1>1, <1>2, <1>3, RelationPathsAre, PathsOfRelations DEF Flattened
<1>6. LoadedAt(path) = {"id"} \union (LocalNames(path) \ {a[1] : a \in {x \in Rendered(path) : Len(x) = 1}})
  <2>1. LoadedAt(path) = PrefetchOf(path).loaded
    <3> HIDE DEF path
    <3> QED BY <1>5, WhatIsLoaded
  <2> QED BY <2>1 DEF PrefetchOf
<1>7. Rendered(path) = {}
  <2> SUFFICES ASSUME NEW a \in Rendered(path) PROVE FALSE
    OBVIOUS
  <2>1. PICK p \in ToSet(keys) : path = Absolute(ft, p)
    <3> HIDE DEF path
    <3> QED BY <1>1, <1>5, RenderedAre
  <2>2. p \in Complex(ft)
    BY <1>1, <2>1, FieldsOfKey
  <2>3. IsPrefix(Absolute(ft, p), path)
    <3>1. Len(path) \in Nat
      BY <1>1, <1>2, <2>1, <2>2, ComplexIsField, ResolvableKinds, AbsoluteParts DEF IsSequence
    <3> QED BY <2>1, <3>1 DEF IsPrefix
  <2> QED BY <1>1, <1>2, <2>2, <2>3, OneForARelation
<1>8. Last(b) \in LocalNames(path)
  <2>1. e \in FieldsAt(path)
    BY <1>1, <1>3, FieldsOfDotted
  <2>2. Source(ft, e).kind \notin {"m2m", "reverse"}
    BY <1>1, <1>2 DEF ListsAreNested, IsValue
  <2> HIDE DEF path
  <2> QED BY <2>1, <2>2 DEF LocalNames
<1>9. Last(b) = b[Len(b)]
  BY <1>4, PathParts
<1>10. b[Len(b)] \in LoadedAt(Prefix(b, Len(b) - 1))
  BY <1>4, <1>6, <1>7, <1>8, <1>9
<1>11. ASSUME NEW j \in 1..Len(b), j < Len(b) PROVE IsOnTheWay(b, j)
  <2>1. j \in 1..(Len(b) - 1)
    BY <1>4, <1>11
  <2> QED BY <1>3, <2>1, DottedIsReached
<1> HIDE DEF b
<1>12. IsReached(b, FALSE)
  BY <1>4, <1>10, <1>11 DEF IsReached
<1> QED
  BY <1>12 DEF b

(* What is read of the feature itself is a column that is loaded.          *)
LEMMA OwnValue ==
    ASSUME Rendering, NEW e, IsValue(e), ~IsFlattened(ft, e), Len(e) = 1
    PROVE  IsReached(Absolute(ft, e), FALSE)
<1> DEFINE b == Absolute(ft, e)
<1>1. InQuery /\ Shape /\ FollowedOnce /\ Bound /\ IsFeatureType(ft) /\ RequestInv /\ ListsAreNested
  BY QueryParts DEF Rendering, InQuery, Bound
<1>2. e \in Resolvable(ft) /\ IsPath(e) /\ Prefix(e, 1) = e
  BY <1>1, ResolvableParts, PathParts DEF IsValue
<1>3. IsPath(b) /\ Len(b) = 1 /\ b[1] = Attribute(ft, e)[1]
  <2>1. 1 \in 1..Len(e)
    OBVIOUS
  <2> QED BY <1>1, <1>2, <2>1, PlainPrefixes, PlainElements
<1>4. columns = ColumnsToLoad
  BY DEF Rendering, LoadedInv
<1>5. b[1] \in columns
  <2>1. CASE e \in DOMAIN ft.fields
    <3>1. ~(IsMany(ft, e) /\ ~IsArray(ft, e))
      BY <1>1, <2>1 DEF ListsAreNested, IsValue, IsMany, IsArray
    <3>2. b \notin Replaced
      <4> SUFFICES ASSUME b \in Replaced PROVE FALSE
        OBVIOUS
      <4>1. db /\ \E g \in DOMAIN ft.fields : Source(ft, g).kind = "geometry" /\ b = Absolute(ft, g)
        BY ReplacedAreGeometries
      <4>2. Source(ft, e).kind = "geometry"
        BY <4>1 DEF Source
      <4> QED BY <2>1, <4>1, <4>2 DEF IsValue, IsGeometry, ReadByDatabase
    <3>3. Head(b) = b[1]
      BY <1>3
    <3>4. CASE ~Given
      <4>1. e \in Children(ft, Root)
        BY <1>2, <2>1, FrontOfOne DEF Children
      <4> QED BY <3>1, <3>2, <3>3, <3>4, <4>1, OwnColumn
    <3>5. CASE Given
      <4>1. e \in ToSet(roots)
        BY DEF IsValue
      <4>2. Chosen(e) \/ IsExtra(e)
        BY <1>1, <4>1, QueryParts
      <4>3. e \in ToSet(NamedElements) \/ e \in ToSet(extra)
        <5>1. e \notin Complex(ft)
          BY ComplexIsField DEF IsValue
        <5>2. CASE Chosen(e)
          BY <1>1, <3>5, <5>1, <5>2, ChosenByName
        <5>3. CASE IsExtra(e)
          BY <5>3 DEF IsExtra, Rendering, Remembered, IsPast
        <5> QED BY <4>2, <5>2, <5>3
      <4>4. ~(CrossesMany(ft, e) /\ ~IsArray(ft, e))
        <5> SUFFICES ASSUME CrossesMany(ft, e), ~IsArray(ft, e) PROVE FALSE
          OBVIOUS
        <5>1. PICK k \in 1..Len(e) : IsMany(ft, SubSeq(e, 1, k))
          BY DEF CrossesMany
        <5>2. k = 1
          OBVIOUS
        <5> QED BY <1>2, <3>1, <5>1, <5>2 DEF Prefix
      <4> QED BY <3>2, <3>3, <3>5, <4>3, <4>4, NamedColumn
    <3> QED BY <3>4, <3>5
  <2>2. CASE e \notin DOMAIN ft.fields
    <3>1. PICK node \in {Root} \union Complex(ft) : e = GmlId(node)
      <4>1. e \notin ToSet(BaseElements(ft))
        BY BaseElementsOf DEF IsValue
      <4> QED BY <1>2, <2>2, <4>1, ResolvableKinds
    <3>2. IsAttribute(e)
      BY <1>1, <3>1, GmlIdIsPath
    <3>3. Attribute(ft, e) = <<"id">>
      <4>1. ~IsAttribute(GmlName) /\ ~IsAttribute(BoundedBy)
        BY BaseIsPath
      <4> QED BY <3>2, <4>1 DEF Attribute
    <3>4. b[1] = "id"
      BY <1>3, <3>3
    <3> QED BY <1>4, <3>4 DEF ColumnsToLoad
  <2> QED BY <2>1, <2>2
<1>6. Prefix(b, Len(b) - 1) = <<>>
  BY <1>3 DEF IsPath, Prefix
<1>7. LoadedAt(<<>>) = columns
  BY DEF LoadedAt
<1> HIDE DEF b
<1>8. \A j \in 1..Len(b) : ~(j < Len(b))
  BY <1>3
<1>9. IsReached(b, FALSE)
  BY <1>3, <1>5, <1>6, <1>7, <1>8 DEF IsReached
<1> QED
  BY <1>9 DEF b

(* What is read of the object that an element is in was prefetched.        *)
LEMMA NestedValue ==
    ASSUME Rendering, NEW e, IsValue(e), ~IsFlattened(ft, e), Len(e) > 1
    PROVE  IsReached(Absolute(ft, e), FALSE)
<1> DEFINE b == Absolute(ft, e)
           p == Front(e)
           n == Len(e)
<1>1. InQuery /\ Shape /\ FollowedOnce /\ Bound /\ IsFeatureType(ft) /\ RequestInv /\ ListsAreNested
  BY QueryParts DEF Rendering, InQuery, Bound
<1>2. e \in Resolvable(ft) /\ IsPath(e) /\ Len(e) \in Nat /\ p = Prefix(e, n - 1)
  BY <1>1, ResolvableParts, PathParts DEF IsValue
<1>3. n \in 1..n /\ n - 1 \in 1..n /\ n - 1 \in Nat /\ n \in Nat
  BY <1>2
<1>4. /\ IsPath(b) /\ Len(b) = n
      /\ Absolute(ft, Prefix(e, n - 1)) = Prefix(b, n - 1)
  BY <1>1, <1>2, <1>3, PlainPrefixes
<1>5. e \notin ToSet(roots)
  <2> SUFFICES ASSUME e \in ToSet(roots) PROVE FALSE
    OBVIOUS
  <2>1. PICK k \in Nat : k = Len(e)
    BY <1>2
  <2>2. Len(e) # 1
    <3>1. k > 1
      BY <2>1
    <3> QED BY <2>1, <3>1
  <2>3. IsExtra(e)
    BY <1>1, <2>2, QueryParts
  <2>4. format = "json" /\ e = MainGeometry(ft)
    BY <2>3 DEF IsExtra
  <2>5. Dotted(e)
    BY <1>4 DEF Dotted
  <2> QED BY <2>4, <2>5 DEF Rendering
<1>6. p \in ToSet(keys) /\ e \in ToSet(children[p])
  BY <1>5 DEF IsValue
<1>7. p \in Complex(ft) /\ Absolute(ft, p) = Prefix(b, n - 1)
  BY <1>1, <1>2, <1>4, <1>6, FieldsOfKey
<1>8. Len(p) = n - 1
  BY <1>2, FrontAndLast
<1>9. ASSUME NEW j \in 1..Len(b), j < Len(b) PROVE IsOnTheWay(b, j)
  <2>1. j \in 1..(n - 1) /\ n - 1 \in 1..Len(b)
    BY <1>3, <1>4, <1>9
  <2>2. IsOnTheWay(Prefix(b, n - 1), j)
    BY <1>6, <1>7, <1>8, <2>1, KeyIsReached
  <2> HIDE DEF b, n
  <2> QED BY <1>4, <2>1, <2>2, WayOfPrefix
<1>10. b[Len(b)] \in LoadedAt(Prefix(b, Len(b) - 1))
  <2>1. Last(b) = b[Len(b)]
    BY <1>4, PathParts
  <2>2. CASE e \in DOMAIN ft.fields
    <3>1. Source(ft, e).kind \notin {"m2m", "reverse"} /\ ~(IsGeometry(ft, e) /\ db)
      BY <1>1, <2>2 DEF ListsAreNested, IsValue, ReadByDatabase
    <3>2. Last(b) \in LoadedAt(Absolute(ft, p))
      BY <1>6, <2>2, <3>1, LoadedForKey
    <3> QED BY <1>4, <1>7, <2>1, <3>2
  <2>3. CASE e \notin DOMAIN ft.fields
    <3>1. PICK node \in {Root} \union Complex(ft) : e = GmlId(node)
      <4>1. e \notin ToSet(BaseElements(ft))
        BY BaseElementsOf DEF IsValue
      <4> QED BY <1>2, <2>3, <4>1, ResolvableKinds
    <3>2. IsAttribute(e)
      BY <1>1, <3>1, GmlIdIsPath
    <3>3. Attribute(ft, e) = <<"id">>
      <4>1. ~IsAttribute(GmlName) /\ ~IsAttribute(BoundedBy)
        BY BaseIsPath
      <4> QED BY <3>2, <4>1 DEF Attribute
    <3>4. Last(b) = "id"
      BY <1>1, <1>2, <1>7, <3>3, ChildName
    <3>5. "id" \in LoadedAt(Absolute(ft, p))
      BY <1>6, LoadedForKey
    <3> QED BY <1>4, <1>7, <2>1, <3>4, <3>5
  <2> QED BY <2>2, <2>3
<1> HIDE DEF b, n
<1>11. IsReached(b, FALSE)
  BY <1>4, <1>9, <1>10 DEF IsReached
<1> QED
  BY <1>11 DEF b

(* Every leaf that is visited is reached, whatever its path is like.        *)
LEMMA ValueIsReached ==
    ASSUME Rendering, NEW e, IsValue(e)
    PROVE  IsReached(Absolute(ft, e), FALSE)
<1>1. IsPath(e) /\ Len(e) \in Nat /\ Len(e) > 0
  BY ResolvableParts, PathParts DEF IsValue, Rendering, Bound
<1>2. Len(e) = 1 \/ Len(e) > 1
  <2>1. PICK n \in Nat : n = Len(e)
    BY <1>1
  <2>2. n > 0
    BY <1>1, <2>1
  <2> QED BY <2>1, <2>2
<1> QED
  BY <1>2, DottedValue, OwnValue, NestedValue

(* The leaves that are visited are values, if the database does not read   *)
(* them.                                                                   *)
LEMMA LeavesAreValues ==
    ASSUME Rendering, NEW e \in Leaves, e \notin {GmlName, BoundedBy}, ~ReadByDatabase(e)
    PROVE  IsValue(e)
<1>1. e \in Resolvable(ft) /\ Listed(e) /\ ~IsComplex(ft, e)
  BY DEF Leaves, Visited
<1> QED
  BY <1>1, ListedIsThere DEF IsValue, Rendering, InQuery

(* gml:boundedBy takes the geometries of a feature that is shown as a      *)
(* whole.                                                                  *)
LEMMA GeometriesOfBoundedBy ==
    ASSUME Rendering, format \in Formats, BoundedBy \in Leaves, ~db, NEW g \in ToSet(AllGeometryElements(ft))
    PROVE  IsValue(g)
<1>1. InQuery /\ Shape /\ FollowedOnce /\ Bound /\ IsFeatureType(ft) /\ RequestInv /\ ~NoAttribute
  BY QueryParts DEF Rendering, InQuery, Bound, LoadedInv
<1>2. BoundedBy \in Resolvable(ft) /\ Listed(BoundedBy)
  BY DEF Leaves, Visited
<1>3. Shown(BoundedBy) /\ BoundedBy \in ToSet(AllElements)
  BY <1>1, <1>2, ListedIsThere, AllElementsAre
<1>4. ~Given
  BY <1>1, <1>3, AllElementsAre, ContainsElement DEF NoAttribute
<1>5. format = "gml"
  <2> SUFFICES ASSUME format # "gml" PROVE FALSE
    OBVIOUS
  <2>1. ~Unshown(BoundedBy)
    BY <1>1, <1>3, QueryParts
  <2>2. BoundedBy # MainGeometry(ft)
    BY <1>1, MainGeometryIsField, FieldIsPath DEF RequestInv, Geometries
  <2>3. format \in {"json", "csv"}
    BY DEF Formats
  <2> QED BY <2>1, <2>2, <2>3 DEF Unshown, IsGeometry
<1>6. \A x : Shown(x)
  BY <1>5 DEF Shown, Trimmed
<1>7. g \in DOMAIN ft.fields /\ IsGeometry(ft, g)
  <2> DEFINE rootGeometries == GeometryElements(ft, Root)
             nested == Only(ft.order, NestedGeometries(ft))
             all == Elements(ft, Root)
  <2>1. all \in Seq(DOMAIN ft.fields) /\ ft.order \in Seq(DOMAIN ft.fields)
    BY <1>1, ElementsOf, OrderHasFields
  <2>2. rootGeometries \in Seq(DOMAIN ft.fields) /\ \A x : x \in ToSet(rootGeometries) => x \in Geometries(ft)
    <3>1. rootGeometries = Only(all, Geometries(ft))
      BY DEF GeometryElements
    <3> HIDE DEF all, rootGeometries
    <3> QED BY <2>1, <3>1, OnlyThose
  <2>3. nested \in Seq(DOMAIN ft.fields) /\ \A x : x \in ToSet(nested) => x \in NestedGeometries(ft)
    BY <2>1, OnlyThose
  <2>4. AllGeometryElements(ft) = rootGeometries \o nested
    BY DEF AllGeometryElements
  <2> HIDE DEF rootGeometries, nested
  <2>5. g \in ToSet(rootGeometries) \/ g \in ToSet(nested)
    BY <2>2, <2>3, <2>4, ElementsOfConcat
  <2> QED BY <2>2, <2>3, <2>5 DEF Geometries, NestedGeometries
<1>8. /\ ~IsComplex(ft, g) /\ g \notin {GmlName, BoundedBy} /\ g \in Resolvable(ft)
      /\ IsPath(g) /\ Len(g) \in Nat /\ Len(g) > 0 /\ (Len(g) > 1 => Front(g) \in Complex(ft))
  BY <1>1, <1>7, FieldIsPath, PathParts, ResolvableKinds DEF IsGeometry
<1>9. Chosen(g)
  BY <1>4, <1>7 DEF Chosen
<1>10. CASE Len(g) = 1
  BY <1>1, <1>6, <1>8, <1>9, <1>10, QueryParts DEF IsValue, ReadByDatabase
<1>11. CASE Len(g) > 1
  <2>1. IsParent(Front(g))
    BY <1>4, <1>8, <1>11 DEF IsParent
  <2>2. Front(g) \in ToSet(keys)
    BY <1>1, <1>6, <2>1, QueryParts
  <2>3. g \in ToSet(children[Front(g)])
    BY <1>1, <1>6, <1>9, <2>2, QueryParts
  <2> QED BY <1>8, <1>11, <2>2, <2>3 DEF IsValue, ReadByDatabase
<1>12. Len(g) = 1 \/ Len(g) > 1
  <2>1. PICK n \in Nat : n = Len(g)
    BY <1>8
  <2>2. n > 0
    BY <1>8, <2>1
  <2> QED BY <2>1, <2>2
<1> QED
  BY <1>10, <1>11, <1>12

(* The object behind a key is reached: each relation to it was followed.    *)
LEMMA KeyObject ==
    ASSUME Rendering, NEW p \in ToSet(keys)
    PROVE  /\ IsPath(Absolute(ft, p)) /\ Len(Absolute(ft, p)) = Len(p)
           /\ \A j \in 1..Len(Absolute(ft, p)) : IsOnTheWay(Absolute(ft, p), j)
<1>1. Len(p) \in Nat /\ Len(p) > 0
  <2>1. InQuery /\ Shape /\ FollowedOnce
    BY DEF Rendering, InQuery
  <2> QED BY <2>1, FieldsOfKey, PathParts
<1>2. 1 \in 1..Len(p)
  BY <1>1
<1>3. IsPath(Absolute(ft, p)) /\ Len(Absolute(ft, p)) = Len(p)
  BY <1>2, KeyParts
<1> QED
  BY <1>3, KeyIsReached

(* What ends in a manager is a dotted attribute that leads through one,    *)
(* when the lists have sub fields.                                         *)
LEMMA ManagersAreDotted ==
    ASSUME Rendering, NEW e \in Own \union (Visited \ Leaves), EndsInManager(e)
    PROVE  e \in Own /\ IsFlattened(ft, e) /\ ThroughManager(ft, e)
<1>1. FollowedOnce /\ IsFeatureType(ft) /\ ListsAreNested
  BY DEF Rendering, Bound
<1>2. CASE e \in Own
  <2>1. IsValue(e)
    BY <1>2, LeavesAreValues DEF Own
  <2>2. ThroughManager(ft, e)
    BY <1>1 DEF ListsAreNested, IsPlainList, EndsInManager
  <2>3. e \in Resolvable(ft)
    BY <2>1 DEF IsValue
  <2> QED BY <1>1, <1>2, <2>2, <2>3, NoManagerOnTheWay
<1>3. CASE e \notin Own
  <2>1. e \in Visited /\ e \notin Leaves /\ ThroughManager(ft, e)
    BY <1>1, <1>3 DEF ListsAreNested, IsPlainList, EndsInManager
  <2>2. e \in Complex(ft)
    BY <2>1 DEF Leaves, IsComplex, Complex
  <2> QED BY <1>1, <2>1, <2>2, NoObjectIsHidden
<1> QED
  BY <1>2, <1>3

(* The way to it is prefetched.                                            *)
LEMMA WayIsDotted ==
    ASSUME Rendering, NEW e \in Own, IsFlattened(ft, e), ThroughManager(ft, e), NEW a \in WaysToManager(e)
    PROVE  /\ e \in ToSet(AllFlattened)
           /\ \E k \in 1..Len(Absolute(ft, e)) - 2 : a = Prefix(Absolute(ft, e), k)
<1> DEFINE b == Absolute(ft, e)
<1>1. InQuery /\ Shape /\ FollowedOnce /\ Bound /\ IsFeatureType(ft) /\ RequestInv
  BY QueryParts DEF Rendering, InQuery, Bound
<1>2. IsValue(e)
  BY LeavesAreValues DEF Own
<1>3. e \in Resolvable(ft) /\ e \in DOMAIN ft.fields /\ Len(e) = 1 /\ e \in Flattened(ft)
  BY <1>1, <1>2, DottedElements DEF IsValue
<1>4. e \in ToSet(AllFlattened)
  <2>1. e \in ToSet(AllElements)
    BY <1>1, <1>2, AllElementsAre DEF IsValue
  <2>2. e \in Children(ft, Root)
    BY <1>1, <1>3, FieldIsPath, FrontOfOne DEF Children
  <2> QED BY <1>1, <2>1, <2>2, FlattenedAre
<1>5. Len(b) \in Nat
  BY <1>1, <1>3, DottedName, PathParts
<1>6. PICK k \in Managers(ft, e) : k > 1 /\ (\A i \in Managers(ft, e) : k <= i) /\ a = SubSeq(b, 1, k - 1)
  BY DEF WaysToManager
<1>7. PICK i \in Managers(ft, e) : i < Len(b)
  BY DEF ThroughManager
<1>8. Front(e) = Root
  BY <1>1, <1>3, FieldIsPath, FrontOfOne
<1>9. Managers(ft, e) \subseteq 1..Len(b)
  <2>1. Len(Absolute(ft, Front(e))) = 0
    BY <1>8, AbsoluteOfRoot
  <2> QED BY <1>5, <2>1 DEF Managers
<1>10. k \in 1..Len(b) /\ i \in 1..Len(b) /\ k <= i
  BY <1>6, <1>7, <1>9
<1>11. k - 1 \in 1..Len(b) - 2
  BY <1>5, <1>6, <1>7, <1>10
<1> QED
  BY <1>4, <1>6, <1>11 DEF Prefix

(* The objects that are gone into, those on the way to what is prefetched, *)
(* and those that have a manager, are reached.                             *)
LEMMA ObjectIsReached ==
    ASSUME Rendering, NEW a \in Objects
    PROVE  IsReached(a, TRUE)
<1>1. InQuery /\ Shape /\ FollowedOnce /\ LeavesAreNamed /\ Bound
  BY DEF Rendering, InQuery
<1>0. IsFeatureType(ft) /\ ListsAreNested
  BY DEF Rendering, Bound
<1>2. CASE \E e \in Visited \ Leaves : a = Absolute(ft, e)
  <2>1. PICK e \in Visited : e \notin Leaves /\ a = Absolute(ft, e)
    BY <1>2
  <2>2. IsComplex(ft, e)
    BY <2>1 DEF Leaves
  <2>3. e \in ToSet(keys)
    BY <1>1, <2>2, ChildrenAreThere
  <2> QED BY <2>1, <2>3, KeyObject DEF IsReached
<1>3. CASE a \in Fetched
  <2>1. PICK r \in ToSet(relations) : \E k \in 1..Len(r.path) : a = Prefix(r.path, k)
    BY <1>3 DEF Fetched, Prefix
  <2>2. PICK k \in 1..Len(r.path) : a = Prefix(r.path, k)
    BY <2>1
  <2>3. PICK i \in DOMAIN RelationPaths : r = PrefetchOf(RelationPaths[i])
    <3>1. relations = RelationsToLoad
      BY DEF Rendering, LoadedInv
    <3> QED BY <3>1 DEF RelationsToLoad, ToSet
  <2>4. r.path \in ToSet(RelationPaths)
    BY <2>3 DEF PrefetchOf, ToSet
  <2>5. CASE \E p \in ToSet(keys) : r.path = Absolute(ft, p)
    <3>1. PICK p \in ToSet(keys) : r.path = Absolute(ft, p)
      BY <2>5
    <3> DEFINE b == Absolute(ft, p)
    <3>2. IsPath(b) /\ (\A j \in 1..Len(b) : IsOnTheWay(b, j)) /\ k \in 1..Len(b) /\ a = Prefix(b, k)
      BY <2>2, <3>1, KeyObject
    <3> HIDE DEF b
    <3>3. IsPath(a) /\ Len(a) = k
      BY <3>2, PrefixParts
    <3>4. ASSUME NEW j \in 1..Len(a) PROVE IsOnTheWay(a, j)
      <4>1. j \in 1..k /\ j \in 1..Len(b)
        BY <3>2, <3>3, PathParts
      <4> QED BY <3>2, <4>1, WayOfPrefix
    <3> QED BY <3>3, <3>4 DEF IsReached
  <2>6. CASE \E f \in ToSet(AllFlattened) : r.path = OrmRelation(ft, f)
    <3>1. PICK f \in ToSet(AllFlattened) : r.path = OrmRelation(ft, f)
      BY <2>6
    <3> DEFINE b == Absolute(ft, f)
               n == Len(b)
    <3>2. f \in Flattened(ft)
      BY <1>1, <3>1, FieldsOfDotted
    <3>3. IsPath(b) /\ n \in Nat /\ n > 1 /\ r.path = Prefix(b, n - 1) /\ Len(r.path) = n - 1
      BY <1>1, <3>1, <3>2, DottedName, PathParts
    <3>4. n - 1 \in 1..n /\ k \in 1..(n - 1) /\ k \in 1..n
      BY <2>2, <3>3
    <3>5. a = Prefix(b, k)
      <4> HIDE DEF b, n
      <4>1. n - 1 \in 1..Len(b)
        BY <3>4 DEF n
      <4> QED BY <2>2, <3>3, <3>4, <4>1, PrefixParts
    <3>6. IsPath(a) /\ Len(a) = k
      <4> HIDE DEF b, n
      <4>1. k \in 1..Len(b)
        BY <3>4 DEF n
      <4> QED BY <3>3, <3>5, <4>1, PrefixParts
    <3>7. ASSUME NEW j \in 1..Len(a) PROVE IsOnTheWay(a, j)
      <4>1. j \in 1..k /\ j \in 1..(Len(b) - 1) /\ k \in 1..Len(b)
        BY <3>3, <3>4, <3>6
      <4>2. IsOnTheWay(b, j)
        BY <3>1, <4>1, DottedIsReached
      <4> HIDE DEF b, n
      <4> QED BY <3>3, <3>5, <4>1, <4>2, WayOfPrefix
    <3> QED BY <3>6, <3>7 DEF IsReached
  <2> QED BY <1>1, <2>4, <2>5, <2>6, RelationPathsAre
<1>4. CASE \E e \in Own \union (Visited \ Leaves) : EndsInManager(e) /\ a \in WaysToManager(e)
  <2>1. PICK e \in Own \union (Visited \ Leaves) : EndsInManager(e) /\ a \in WaysToManager(e)
    BY <1>4
  <2>2. e \in Own /\ IsFlattened(ft, e) /\ ThroughManager(ft, e)
    BY <1>0, <1>1, <2>1, ManagersAreDotted
  <2>3. /\ IsFlattened(ft, e) /\ e \in ToSet(AllFlattened)
        /\ \E k \in 1..Len(Absolute(ft, e)) - 2 : a = Prefix(Absolute(ft, e), k)
    BY <2>1, <2>2, WayIsDotted
  <2> DEFINE b == Absolute(ft, e)
  <2>4. e \in Flattened(ft)
    BY <1>1, <2>3, FieldsOfDotted
  <2>5. IsPath(b) /\ Len(b) \in Nat
    BY <1>1, <2>4, DottedName, PathParts
  <2>6. PICK k \in 1..Len(b) - 2 : a = Prefix(b, k)
    BY <2>3
  <2>7. k \in 1..Len(b) /\ k \in Nat /\ k <= Len(b) - 2
    BY <2>5, <2>6
  <2>8. ASSUME NEW j \in 1..k PROVE IsOnTheWay(b, j)
    <3>1. j \in 1..(Len(b) - 1)
      BY <2>5, <2>7
    <3> QED BY <2>3, <3>1, DottedIsReached
  <2> HIDE DEF b
  <2>9. IsPath(a) /\ Len(a) = k
    BY <2>5, <2>6, <2>7, PrefixParts
  <2>10. ASSUME NEW j \in 1..Len(a) PROVE IsOnTheWay(a, j)
    BY <2>5, <2>6, <2>7, <2>8, <2>9, WayOfPrefix
  <2> QED BY <2>9, <2>10 DEF IsReached
<1> QED
  BY <1>2, <1>3, <1>4 DEF Objects

(* What is read to render the features.                                    *)
LEMMA LittleIsRead ==
    ASSUME Rendering, format \in Formats
    PROVE  UNION ({ReadsFor(a, FALSE) : a \in Values} \union {ReadsFor(a, TRUE) : a \in Objects})
               \subseteq {Display} \union {<<f>> : f \in WaysToLists}
<1>1. ASSUME NEW a \in Values PROVE ReadsFor(a, FALSE) \subseteq {Display} \union {<<f>> : f \in WaysToLists}
  <2>1. CASE \E e \in Own : a = Absolute(ft, e)
    <3>1. IsReached(a, FALSE)
      BY <2>1, LeavesAreValues, ValueIsReached DEF Own
    <3>2. ReadsFor(a, FALSE) \subseteq {<<f>> : f \in WaysToLists}
      BY <3>1, ReadsOnTheWay DEF IsReached
    <3> QED BY <3>2
  <2>2. CASE a = Display
    BY <2>2, DisplayIsOne
  <2>3. CASE BoundedBy \in Leaves /\ ~db /\ \E g \in ToSet(AllGeometryElements(ft)) : a = Absolute(ft, g)
    <3>1. IsReached(a, FALSE)
      BY <2>3, GeometriesOfBoundedBy, ValueIsReached
    <3>2. ReadsFor(a, FALSE) \subseteq {<<f>> : f \in WaysToLists}
      BY <3>1, ReadsOnTheWay DEF IsReached
    <3> QED BY <3>2
  <2> QED BY <2>1, <2>2, <2>3 DEF Values
<1>2. ASSUME NEW a \in Objects PROVE ReadsFor(a, TRUE) \subseteq {<<f>> : f \in WaysToLists}
  <2>1. IsReached(a, TRUE)
    BY ObjectIsReached
  <2> QED BY <2>1, ReadsOnTheWay DEF IsReached
<1> QED
  BY <1>1, <1>2

(* Nothing that this depends on changes.                                   *)
LEMMA TheConfigurationStays ==
    ASSUME [Next \/ Done]_vars
    PROVE  /\ FollowedOnce' <=> FollowedOnce
           /\ ListsAreNested' <=> ListsAreNested
           /\ LeavesAreNamed' <=> LeavesAreNamed
           /\ Dotted(MainGeometry(ft))' <=> Dotted(MainGeometry(ft))
           /\ db' = db /\ format' = format /\ Display' = Display /\ WaysToLists' = WaysToLists
<1>1. UNCHANGED request
  BY TheRequestStays
<1>2. ft' = ft /\ names' = names /\ format' = format /\ db' = db
  BY <1>1 DEF request
<1>3. (Given' <=> Given) /\ NamedElements' = NamedElements
  BY <1>1, RequestStays
<1>4. FollowedOnce' <=> FollowedOnce
  BY <1>2 DEF FollowedOnce
<1>5. ListsAreNested' <=> ListsAreNested
  BY <1>2 DEF ListsAreNested
<1>6. LeavesAreNamed' <=> LeavesAreNamed
  BY <1>2, <1>3 DEF LeavesAreNamed
<1>7. Dotted(MainGeometry(ft))' <=> Dotted(MainGeometry(ft))
  BY <1>2 DEF Dotted
<1>8. Display' = Display
  BY <1>2 DEF Display
<1>9. WaysToLists' = WaysToLists
  <2>1. FieldsShown' = FieldsShown
    BY <1>2, <1>3 DEF FieldsShown
  <2> QED BY <1>2, <2>1 DEF WaysToLists
<1> QED
  BY <1>2, <1>4, <1>5, <1>6, <1>7, <1>8, <1>9

Reading == Answering /\ Remembered /\ format \in Formats /\ NothingIsReadRowByRow

(* Only Render reads, and what it reads was loaded.                         *)
LEMMA ReadingIsKept == Reading /\ [Next \/ Done]_vars => Reading'
<1> SUFFICES ASSUME Reading, [Next \/ Done]_vars PROVE Reading'
  OBVIOUS
<1>1. Answering' /\ Remembered'
  BY AnsweringIsKept, ItIsRemembered DEF Reading, Answering
<1>2. format' \in Formats
  BY TheConfigurationStays DEF Reading, Formats
<1>3. NothingIsReadRowByRow'
  <2> SUFFICES ASSUME outcome' = "rendered", FollowedOnce, ListsAreNested, LeavesAreNamed,
                      db /\ format = "json" => ~Dotted(MainGeometry(ft))
               PROVE  reads' \subseteq {Display} \union {<<f>> : f \in WaysToLists}
    BY TheConfigurationStays DEF NothingIsReadRowByRow
  <2>1. Shape /\ Current /\ ExtraInv /\ LoadedInv /\ Answered
    BY DEF Reading, Answering
  <2>2. CASE Render
    <3>1. phase = "render" /\ ~RenderFails
      BY <2>2 DEF Render, Fail
    <3>2. format = "json" => ~Dotted(MainGeometry(ft))
      BY <3>1 DEF RenderFails
    <3>3. Bound
      BY <2>1, <3>1, BoundOnTheWay
    <3>4. Rendering
      BY <2>1, <3>1, <3>2, <3>3 DEF Rendering, Reading
    <3>5. reads' = UNION ({ReadsFor(a, FALSE) : a \in Values} \union {ReadsFor(a, TRUE) : a \in Objects})
      BY <2>2, <3>1 DEF Render
    <3> QED BY <3>4, <3>5, LittleIsRead DEF Reading
  <2>3. CASE ~Render
    <3>1. outcome = "rendered" /\ reads' = reads
      BY <2>1, <2>3 DEF Next, Done, vars, Bind, Resolve, Project, AddField, RemoveFields, Decorate, Query,
                        Fail, Shape, OutcomeInv
    <3> QED BY <3>1 DEF Reading, NothingIsReadRowByRow
  <2> QED BY <2>2, <2>3
<1> QED
  BY <1>1, <1>2, <1>3 DEF Reading

(* Whatever is asked for, all that is rendered was loaded by the query and *)
(* its prefetches, but for what only_fields is known to leave out.         *)
THEOREM NothingReadRowByRow == Spec => []NothingIsReadRowByRow
<1>1. Init => Reading
  BY AnsweringAtFirst DEF Init, Reading, Remembered, IsPast, NothingIsReadRowByRow
<1>2. Reading => NothingIsReadRowByRow
  BY DEF Reading
<1> QED
  BY <1>1, <1>2, ReadingIsKept, PTL DEF Spec
=============================================================================
