-------------------------- MODULE HelmLists_proofs --------------------------
(***************************************************************************)
(* What the functions of HelmValues on lists return, for lists of every    *)
(* length.  No rule of induction is at hand that takes a predicate, so an  *)
(* induction is stated about the set of the numbers, or of the lists, that *)
(* have the property: it is the set of all of them.                        *)
(***************************************************************************)
EXTENDS HelmValues, FiniteSetTheorems, SequenceTheorems, WellFoundedInduction, TLAPS

(* Induction over the natural numbers.                                     *)
LEMMA SetOfAllNat ==
    ASSUME NEW T \in SUBSET Nat, 0 \in T, \A n \in T : n + 1 \in T
    PROVE  T = Nat
<1> SUFFICES ASSUME T # Nat
             PROVE  FALSE
  OBVIOUS
<1> DEFINE U == Nat \ T
           R == OpToRel(<, Nat)
<1>1. \E x \in U : \A y \in U : <<y, x>> \notin R
  <2>1. U # {} /\ U \subseteq Nat
    OBVIOUS
  <2> HIDE DEF U, R
  <2> QED
    BY <2>1, WFMin, NatLessThanWellFounded DEF R
<1>2. PICK x \in U : \A y \in U : <<y, x>> \notin R
  BY <1>1
<1>3. \A y \in Nat : y < x => <<y, x>> \in R
  BY DEF OpToRel
<1> HIDE DEF R
<1>4. x \in Nat /\ x # 0 /\ x - 1 \in Nat /\ x - 1 < x /\ (x - 1) + 1 = x
  OBVIOUS
<1>5. x - 1 \in U
  BY <1>4
<1> QED
  BY <1>2, <1>3, <1>4, <1>5

(* Induction over the lists of a set, by their last element.               *)
LEMMA SetOfAllSeq ==
    ASSUME NEW S, NEW T \in SUBSET Seq(S), <<>> \in T,
           \A s \in T, e \in S : Append(s, e) \in T
    PROVE  T = Seq(S)
<1> DEFINE N == {n \in Nat : \A s \in Seq(S) : Len(s) = n => s \in T}
<1>1. 0 \in N
  <2>1. \A s \in Seq(S) : Len(s) = 0 => s = <<>>
    OBVIOUS
  <2> QED
    BY <2>1
<1>2. ASSUME NEW n \in N
      PROVE  n + 1 \in N
  <2> SUFFICES ASSUME NEW s \in Seq(S), Len(s) = n + 1
               PROVE  s \in T
    OBVIOUS
  <2> DEFINE f == SubSeq(s, 1, n)
  <2>1. f \in Seq(S) /\ Len(f) = n /\ s[n + 1] \in S
    OBVIOUS
  <2>2. s = Append(f, s[n + 1])
    <3> DEFINE g == Append(f, s[n + 1])
    <3>1. g \in Seq(S) /\ Len(g) = n + 1
      BY <2>1
    <3>2. \A i \in 1..(n + 1) : g[i] = s[i]
      BY <2>1
    <3> HIDE DEF g
    <3> QED
      BY <3>1, <3>2, SeqEqual DEF g
  <2>3. f \in T
    BY <2>1
  <2> HIDE DEF f
  <2> QED
    BY <2>1, <2>2, <2>3
<1>3. N = Nat
  <2> HIDE DEF N
  <2>1. N \in SUBSET Nat
    BY DEF N
  <2> QED
    BY <1>1, <1>2, <2>1, SetOfAllNat
<1>4. \A s \in Seq(S) : Len(s) \in N
  BY <1>3
<1> QED
  BY <1>4

-----------------------------------------------------------------------------
(* The loop that filters a list *)

(* What is left of the first entries of a list, one entry after the other. *)
Filters(kept, list, names) ==
    kept = [i \in 0..Len(list) |->
                IF i = 0 THEN <<>>
                ELSE IF list[i].name \in names THEN kept[i - 1]
                ELSE Append(kept[i - 1], list[i])]

(* The loop computes something, and that is what Without returns.          *)
LEMMA WithoutFilters ==
    ASSUME NEW S, NEW list \in Seq(S), NEW names
    PROVE  \E kept : Filters(kept, list, names) /\ Without(list, names) = kept[Len(list)]
<1> DEFINE Step(k, i) == IF i = 0 THEN <<>>
                         ELSE IF list[i].name \in names THEN k[i - 1]
                         ELSE Append(k[i - 1], list[i])
           T == {n \in Nat : \E k : k = [i \in 0..n |-> Step(k, i)]}
<1>1. 0 \in T
  <2> DEFINE k == [i \in 0..0 |-> <<>>]
  <2>1. k = [i \in 0..0 |-> Step(k, i)]
    OBVIOUS
  <2> QED
    BY <2>1
<1>2. ASSUME NEW n \in T
      PROVE  n + 1 \in T
  <2>1. PICK k : k = [i \in 0..n |-> Step(k, i)]
    OBVIOUS
  <2> DEFINE m == [i \in 0..(n + 1) |-> IF i = n + 1 THEN Step(k, i) ELSE k[i]]
  <2>2. \A i \in 0..n : k[i] = Step(k, i)
    BY <2>1
  <2>3. \A i \in 0..n : m[i] = k[i] /\ i # n + 1
    OBVIOUS
  <2>4. \A i \in 0..(n + 1) : i # 0 => i - 1 \in 0..n
    OBVIOUS
  <2>5. \A i \in 0..(n + 1) : Step(m, i) = Step(k, i)
    <3> HIDE DEF m
    <3> QED
      BY <2>3, <2>4
  <2>6. \A i \in 0..(n + 1) : m[i] = Step(k, i)
    <3> HIDE DEF Step
    <3> QED
      BY <2>2
  <2>7. m = [i \in 0..(n + 1) |-> Step(k, i)]
    <3> HIDE DEF Step
    <3> QED
      BY <2>2
  <2>8. m = [i \in 0..(n + 1) |-> Step(m, i)]
    <3> HIDE DEF Step, m
    <3> QED
      BY <2>5, <2>7
  <2> HIDE DEF Step, m
  <2>9. \E g : g = [i \in 0..(n + 1) |-> Step(g, i)]
    BY <2>8
  <2> QED
    BY <2>9
<1>3. T = Nat
  <2> HIDE DEF T
  <2>1. T \in SUBSET Nat
    BY DEF T
  <2> QED
    BY <1>1, <1>2, <2>1, SetOfAllNat
<1>4. \E k : Filters(k, list, names)
  BY <1>3 DEF Filters
<1>5. Without(list, names) = (CHOOSE k : Filters(k, list, names))[Len(list)]
  BY DEF Without, Filters
<1> QED
  BY <1>4, <1>5

(* The empty list has nothing to leave out.                                *)
LEMMA WithoutEmpty ==
    ASSUME NEW names
    PROVE  Without(<<>>, names) = <<>>
<1>1. <<>> \in Seq({})
  OBVIOUS
<1>2. PICK kept : Filters(kept, <<>>, names) /\ Without(<<>>, names) = kept[Len(<<>>)]
  BY <1>1, WithoutFilters
<1>3. 0 \in 0..Len(<<>>) /\ Len(<<>>) = 0
  OBVIOUS
<1> QED
  BY <1>2, <1>3 DEF Filters

(* One more entry is left out or comes last.                               *)
LEMMA WithoutAppend ==
    ASSUME NEW S, NEW list \in Seq(S), NEW e \in S, NEW names
    PROVE  Without(Append(list, e), names) =
               IF e.name \in names THEN Without(list, names)
               ELSE Append(Without(list, names), e)
<1> DEFINE more == Append(list, e)
           n == Len(list)
<1>1. /\ more \in Seq(S) /\ n \in Nat /\ Len(more) = n + 1 /\ more[n + 1] = e
      /\ \A i \in 1..n : more[i] = list[i]
  OBVIOUS
<1>2. PICK k : Filters(k, list, names) /\ Without(list, names) = k[n]
  BY WithoutFilters
<1> HIDE DEF more
<1>3. PICK m : Filters(m, more, names) /\ Without(more, names) = m[n + 1]
  BY <1>1, WithoutFilters
<1> HIDE DEF n
<1> DEFINE T == {j \in Nat : j <= n => m[j] = k[j]}
<1>4. 0 \in T
  BY <1>1, <1>2, <1>3 DEF Filters, n
<1>5. ASSUME NEW j \in T
      PROVE  j + 1 \in T
  <2> SUFFICES ASSUME j + 1 <= n
               PROVE  m[j + 1] = k[j + 1]
    OBVIOUS
  <2>1. /\ j + 1 \in 0..n /\ j + 1 \in 0..(n + 1) /\ j + 1 # 0 /\ (j + 1) - 1 = j
        /\ m[j] = k[j] /\ more[j + 1] = list[j + 1]
    BY <1>1
  <2>2. k[j + 1] = IF list[j + 1].name \in names THEN k[j] ELSE Append(k[j], list[j + 1])
    BY <1>2, <2>1 DEF Filters, n
  <2>3. m[j + 1] = IF more[j + 1].name \in names THEN m[j] ELSE Append(m[j], more[j + 1])
    BY <1>1, <1>3, <2>1 DEF Filters
  <2> QED
    BY <2>1, <2>2, <2>3
<1>6. T = Nat
  <2> HIDE DEF T
  <2>1. T \in SUBSET Nat
    BY DEF T
  <2> QED
    BY <1>4, <1>5, <2>1, SetOfAllNat
<1>7. m[n] = k[n]
  BY <1>1, <1>6
<1>8. n + 1 \in 0..(n + 1) /\ n + 1 # 0 /\ (n + 1) - 1 = n
  BY <1>1
<1>9. m[n + 1] = IF e.name \in names THEN m[n] ELSE Append(m[n], e)
  BY <1>1, <1>3, <1>8 DEF Filters
<1> QED
  BY <1>2, <1>3, <1>7, <1>9 DEF more

(* What is left are entries of the list with other names.                  *)
LEMMA WithoutType ==
    ASSUME NEW S, NEW names
    PROVE  \A list \in Seq(S) :
               Without(list, names) \in Seq({e \in S : e.name \notin names})
<1> DEFINE R == {e \in S : e.name \notin names}
           T == {list \in Seq(S) : Without(list, names) \in Seq(R)}
<1>1. <<>> \in T
  <2>1. Without(<<>>, names) = <<>>
    BY WithoutEmpty
  <2>2. <<>> \in Seq(R) /\ <<>> \in Seq(S)
    OBVIOUS
  <2> HIDE DEF R
  <2> QED
    BY <2>1, <2>2
<1>2. ASSUME NEW list \in T, NEW e \in S
      PROVE  Append(list, e) \in T
  <2>1. Without(Append(list, e), names) =
            IF e.name \in names THEN Without(list, names) ELSE Append(Without(list, names), e)
    BY WithoutAppend
  <2>2. e.name \notin names => e \in R
    OBVIOUS
  <2> HIDE DEF R
  <2>3. Without(Append(list, e), names) \in Seq(R)
    BY <2>1, <2>2
  <2> QED
    BY <2>3
<1>3. T = Seq(S)
  <2> HIDE DEF T
  <2>1. T \in SUBSET Seq(S)
    BY DEF T
  <2> QED
    BY <1>1, <1>2, <2>1, SetOfAllSeq
<1> QED
  BY <1>3

LEMMA WithoutSeq ==
    ASSUME NEW S, NEW names
    PROVE  \A list \in Seq(S) : Without(list, names) \in Seq(S)
<1> DEFINE R == {e \in S : e.name \notin names}
<1>1. \A list \in Seq(S) : Without(list, names) \in Seq(R)
  BY WithoutType
<1>2. R \subseteq S
  OBVIOUS
<1> HIDE DEF R
<1>3. Seq(R) \subseteq Seq(S)
  BY <1>2, SeqMonotonic
<1> QED
  BY <1>1, <1>3

(* A list without such entries is left as it is.                           *)
LEMMA WithoutNone ==
    ASSUME NEW S, NEW names, \A e \in S : e.name \notin names
    PROVE  \A list \in Seq(S) : Without(list, names) = list
<1> DEFINE T == {list \in Seq(S) : Without(list, names) = list}
<1>1. <<>> \in T
  BY WithoutEmpty
<1>2. ASSUME NEW list \in T, NEW e \in S
      PROVE  Append(list, e) \in T
  BY WithoutAppend
<1>3. T = Seq(S)
  <2> HIDE DEF T
  <2>1. T \in SUBSET Seq(S)
    BY DEF T
  <2> QED
    BY <1>1, <1>2, <2>1, SetOfAllSeq
<1> QED
  BY <1>3

(* Leaving out some names and then others is leaving out all of them.      *)
LEMMA WithoutTwice ==
    ASSUME NEW S, NEW A, NEW B
    PROVE  \A list \in Seq(S) : Without(Without(list, A), B) = Without(list, A \cup B)
<1> DEFINE T == {list \in Seq(S) : Without(Without(list, A), B) = Without(list, A \cup B)}
<1>1. <<>> \in T
  BY WithoutEmpty
<1>2. ASSUME NEW list \in T, NEW e \in S
      PROVE  Append(list, e) \in T
  <2>1. Without(list, A) \in Seq(S)
    BY WithoutSeq
  <2>2. CASE e.name \in A
    BY <2>2, WithoutAppend
  <2>3. CASE e.name \notin A
    <3>1. Without(Append(list, e), A) = Append(Without(list, A), e)
      BY <2>3, WithoutAppend
    <3>2. Without(Append(Without(list, A), e), B) =
              IF e.name \in B THEN Without(Without(list, A), B)
              ELSE Append(Without(Without(list, A), B), e)
      BY <2>1, WithoutAppend
    <3>3. Without(Append(list, e), A \cup B) =
              IF e.name \in B THEN Without(list, A \cup B)
              ELSE Append(Without(list, A \cup B), e)
      BY <2>3, WithoutAppend
    <3>4. Without(Without(list, A), B) = Without(list, A \cup B)
      OBVIOUS
    <3>5. Append(list, e) \in Seq(S)
      OBVIOUS
    <3> HIDE DEF T
    <3>6. Without(Without(Append(list, e), A), B) = Without(Append(list, e), A \cup B)
      BY <3>1, <3>2, <3>3, <3>4
    <3> QED
      BY <3>5, <3>6 DEF T
  <2> QED
    BY <2>2, <2>3
<1>3. T = Seq(S)
  <2> HIDE DEF T
  <2>1. T \in SUBSET Seq(S)
    BY DEF T
  <2> QED
    BY <1>1, <1>2, <2>1, SetOfAllSeq
<1> QED
  BY <1>3

(* Two lists are filtered one after the other.                             *)
LEMMA WithoutConcat ==
    ASSUME NEW S, NEW names, NEW first \in Seq(S)
    PROVE  \A list \in Seq(S) :
               Without(first \o list, names) = Without(first, names) \o Without(list, names)
<1> DEFINE T == {list \in Seq(S) :
                  Without(first \o list, names) = Without(first, names) \o Without(list, names)}
<1>1. \A list \in Seq(S) : Without(list, names) \in Seq(S)
  BY WithoutSeq
<1>2. <<>> \in T
  BY <1>1, WithoutEmpty, ConcatEmptySeq
<1>3. ASSUME NEW list \in T, NEW e \in S
      PROVE  Append(list, e) \in T
  <2>1. first \o Append(list, e) = Append(first \o list, e)
    BY AppendIsConcat, ConcatAssociative
  <2>2. first \o list \in Seq(S)
    OBVIOUS
  <2> DEFINE F == Without(first, names)
             L == Without(list, names)
  <2>3. F \in Seq(S) /\ L \in Seq(S)
    BY <1>1
  <2>4. Without(first \o list, names) = F \o L
    OBVIOUS
  <2>5. Without(Append(first \o list, e), names) =
            IF e.name \in names THEN F \o L ELSE Append(F \o L, e)
    <3> HIDE DEF F, L, T
    <3>1. \A l \in Seq(S) : Without(Append(l, e), names) =
              IF e.name \in names THEN Without(l, names) ELSE Append(Without(l, names), e)
      BY WithoutAppend
    <3> QED
      BY <2>2, <2>4, <3>1
  <2>6. Without(Append(list, e), names) = IF e.name \in names THEN L ELSE Append(L, e)
    BY WithoutAppend
  <2> HIDE DEF F, L
  <2>7. Append(F \o L, e) = F \o Append(L, e)
    <3>1. <<e>> \in Seq(S) /\ F \o L \in Seq(S)
      BY <2>3
    <3>2. Append(F \o L, e) = (F \o L) \o <<e>> /\ Append(L, e) = L \o <<e>>
      BY <2>3, <3>1, AppendIsConcat
    <3> QED
      BY <2>3, <3>1, <3>2, ConcatAssociative
  <2>8. Without(first \o Append(list, e), names) = F \o Without(Append(list, e), names)
    BY <2>1, <2>5, <2>6, <2>7
  <2> QED
    BY <2>8 DEF F
<1>4. T = Seq(S)
  <2> HIDE DEF T
  <2>1. T \in SUBSET Seq(S)
    BY DEF T
  <2> QED
    BY <1>2, <1>3, <2>1, SetOfAllSeq
<1> QED
  BY <1>4

-----------------------------------------------------------------------------
(* Entries that win over those of the list *)

(* One call for each new entry, as the code makes them, and one for all of *)
(* them come to the same, as long as their names differ.                   *)
THEOREM OneByOne ==
    ASSUME NEW S, NEW list \in Seq(S), NEW new \in Seq(S), NEW e \in S,
           e.name \notin NamesOf(new)
    PROVE  RemoveConflictingAndAppend(RemoveConflictingAndAppend(list, new), <<e>>)
               = RemoveConflictingAndAppend(list, Append(new, e))
<1> DEFINE A == NamesOf(new)
           L == Without(list, A)
<1>1. NamesOf(<<e>>) = {e.name}
  BY DEF NamesOf
<1>2. NamesOf(Append(new, e)) = A \cup {e.name}
  <2>1. DOMAIN Append(new, e) = DOMAIN new \cup {Len(new) + 1}
    OBVIOUS
  <2>2. /\ \A i \in DOMAIN new : Append(new, e)[i] = new[i]
        /\ Append(new, e)[Len(new) + 1] = e
    OBVIOUS
  <2>3. Len(new) + 1 \notin DOMAIN new
    OBVIOUS
  <2> DEFINE m == Append(new, e)
  <2> HIDE DEF m
  <2>4. NamesOf(m) = A \cup {e.name}
    BY <2>1, <2>2, <2>3 DEF NamesOf, m
  <2> QED
    BY <2>4 DEF m
<1>3. L \in Seq(S)
  BY WithoutSeq
<1>4. Without(new, {e.name}) = new
  <2> DEFINE R == {x \in S : x.name \in A}
  <2>1. new \in Seq(R)
    <3>1. \A i \in 1..Len(new) : new[i] \in R
      BY DEF NamesOf
    <3> HIDE DEF R
    <3> QED
      BY <3>1, IsASeq
  <2>2. \A x \in R : x.name \notin {e.name}
    OBVIOUS
  <2> HIDE DEF R
  <2> QED
    BY <2>1, <2>2, WithoutNone
<1> HIDE DEF A
<1>5. Without(L, {e.name}) = Without(list, A \cup {e.name})
  BY WithoutTwice
<1>6. Without(L \o new, {e.name}) = Without(list, A \cup {e.name}) \o new
  <2>1. Without(L \o new, {e.name}) = Without(L, {e.name}) \o Without(new, {e.name})
    <3> HIDE DEF L
    <3> QED
      BY <1>3, WithoutConcat
  <2> QED
    BY <1>4, <1>5, <2>1
<1>7. Without(list, A \cup {e.name}) \in Seq(S)
  BY WithoutSeq
<1> DEFINE M == Without(list, A \cup {e.name})
<1>8. (M \o new) \o <<e>> = M \o Append(new, e)
  <2> HIDE DEF M
  <2>1. Append(new, e) = new \o <<e>> /\ <<e>> \in Seq(S)
    BY AppendIsConcat
  <2> QED
    BY <1>7, <2>1, ConcatAssociative DEF M
<1> QED
  BY <1>1, <1>2, <1>6, <1>8 DEF RemoveConflictingAndAppend, A

(* The entries that keep their place in front are as many as there are     *)
(* with other names, and each comes where counting the kept ones puts it.  *)
OthersUpTo(list, names, n) == {j \in 1..n : list[j].name \notin names}

LEMMA WithoutPositions ==
    ASSUME NEW S, NEW names
    PROVE  \A list \in Seq(S) :
               /\ Len(Without(list, names)) =
                      Cardinality(OthersUpTo(list, names, Len(list)))
               /\ \A i \in OthersUpTo(list, names, Len(list)) :
                      LET at == Cardinality(OthersUpTo(list, names, i))
                      IN  /\ at \in 1..Len(Without(list, names))
                          /\ Without(list, names)[at] = list[i]
<1> DEFINE Placed(list) ==
               /\ Len(Without(list, names)) =
                      Cardinality(OthersUpTo(list, names, Len(list)))
               /\ \A i \in OthersUpTo(list, names, Len(list)) :
                      LET at == Cardinality(OthersUpTo(list, names, i))
                      IN  /\ at \in 1..Len(Without(list, names))
                          /\ Without(list, names)[at] = list[i]
           T == {list \in Seq(S) : Placed(list)}
<1>1. <<>> \in T
  <2>1. OthersUpTo(<<>>, names, Len(<<>>)) = {}
    BY DEF OthersUpTo
  <2> QED
    BY <2>1, WithoutEmpty, FS_EmptySet
<1>2. ASSUME NEW list \in Seq(S), Placed(list), NEW e \in S
      PROVE  Placed(Append(list, e))
  <2> DEFINE n == Len(list)
             more == Append(list, e)
             O == OthersUpTo(list, names, n)
             W == Without(list, names)
  <2>1. /\ n \in Nat /\ Len(more) = n + 1 /\ more[n + 1] = e
        /\ \A j \in 1..n : more[j] = list[j]
    OBVIOUS
  <2>2. W \in Seq(S)
    BY WithoutSeq
  <2>3. /\ Len(W) = Cardinality(O)
        /\ \A i \in O : LET at == Cardinality(OthersUpTo(list, names, i))
                        IN  at \in 1..Len(W) /\ W[at] = list[i]
    BY <1>2
  <2>4. Without(more, names) = IF e.name \in names THEN W ELSE Append(W, e)
    BY WithoutAppend
  <2> HIDE DEF Placed, more, W, n
  <2>5. \A i \in 1..n : OthersUpTo(more, names, i) = OthersUpTo(list, names, i)
    BY <2>1 DEF OthersUpTo
  <2>6. OthersUpTo(more, names, n + 1) = IF e.name \in names THEN O ELSE O \cup {n + 1}
    BY <2>1 DEF OthersUpTo
  <2>7. O \subseteq 1..n /\ IsFiniteSet(O) /\ n + 1 \notin O
    <3>1. O \subseteq 1..n /\ n + 1 \notin O
      BY <2>1 DEF OthersUpTo
    <3>2. IsFiniteSet(1..n)
      BY <2>1, FS_Interval
    <3> QED
      BY <3>1, <3>2, FS_Subset
  <2>8. ASSUME e.name \in names
        PROVE  Placed(more)
    <3>1. Without(more, names) = W /\ OthersUpTo(more, names, n + 1) = O
      BY <2>4, <2>6, <2>8
    <3> QED
      BY <2>1, <2>3, <2>5, <2>7, <3>1 DEF Placed
  <2>9. ASSUME e.name \notin names
        PROVE  Placed(more)
    <3>1. /\ Without(more, names) = Append(W, e)
          /\ OthersUpTo(more, names, n + 1) = O \cup {n + 1}
      BY <2>4, <2>6, <2>9
    <3>2. Cardinality(O \cup {n + 1}) = Cardinality(O) + 1 /\ Cardinality(O) \in Nat
      BY <2>7, FS_AddElement, FS_CardinalityType
    <3> DEFINE V == Append(W, e)
    <3>3. /\ Len(V) = Len(W) + 1 /\ V[Len(W) + 1] = e
          /\ \A j \in 1..Len(W) : V[j] = W[j]
      BY <2>2
    <3> HIDE DEF V, O
    <3>4. ASSUME NEW i \in O
          PROVE  LET at == Cardinality(OthersUpTo(more, names, i))
                 IN  at \in 1..Len(V) /\ V[at] = more[i]
      <4>1. i \in 1..n
        BY <2>7
      <4> QED
        BY <2>1, <2>2, <2>3, <2>5, <3>3, <4>1
    <3>5. Cardinality(OthersUpTo(more, names, n + 1)) = Len(W) + 1 /\ Len(W) \in Nat
      BY <2>3, <3>1, <3>2
    <3>6. LET at == Cardinality(OthersUpTo(more, names, n + 1))
          IN  at \in 1..Len(V) /\ V[at] = more[n + 1]
      BY <2>1, <3>3, <3>5
    <3> QED
      BY <2>1, <3>1, <3>3, <3>4, <3>5, <3>6 DEF Placed, V
  <2> QED
    BY <2>8, <2>9 DEF more
<1>3. T = Seq(S)
  <2> HIDE DEF Placed
  <2>1. \A s \in T, e \in S : Append(s, e) \in T
    BY <1>2
  <2>2. T \in SUBSET Seq(S)
    OBVIOUS
  <2> HIDE DEF T
  <2> QED
    BY <1>1, <2>1, <2>2, SetOfAllSeq
<1> QED
  BY <1>3

(* The parts of the list that wins: what is left of the old one, the new.  *)
InParts(result, left, new) ==
    /\ Len(left) \in Nat /\ DOMAIN result = 1..Len(result)
    /\ Len(result) = Len(left) + Len(new)
    /\ \A i \in 1..Len(left) : result[i] = left[i] /\ left[i].name \notin NamesOf(new)
    /\ \A i \in 1..Len(new) : result[Len(left) + i] = new[i]

LEMMA AppendedParts ==
    ASSUME NEW S, NEW list \in Seq(S), NEW new \in Seq(S),
           NEW result, result = RemoveConflictingAndAppend(list, new)
    PROVE  InParts(result, Without(list, NamesOf(new)), new)
<1> DEFINE names == NamesOf(new)
           W == Without(list, names)
           R == {e \in S : e.name \notin names}
<1>1. W \in Seq(R) /\ W \in Seq(S)
  BY WithoutType, WithoutSeq
<1>2. \A i \in 1..Len(W) : W[i] \in R
  <2> HIDE DEF W, R
  <2> QED
    BY <1>1
<1>3. \A i \in 1..Len(W) : W[i].name \notin names
  <2> HIDE DEF W
  <2> QED
    BY <1>2
<1>4. result = W \o new
  BY DEF RemoveConflictingAndAppend
<1> HIDE DEF W, names, R
<1>5. /\ Len(W) \in Nat /\ result \in Seq(S) /\ Len(result) = Len(W) + Len(new)
      /\ \A i \in 1..Len(W) : result[i] = W[i]
      /\ \A i \in 1..Len(new) : result[Len(W) + i] = new[i]
  BY <1>1, <1>4
<1> QED
  BY <1>3, <1>5 DEF InParts, W, names

(* A new entry is in the result once, with its own value.                  *)
LEMMA AppendedOnce ==
    ASSUME NEW S, NEW list \in Seq(S), NEW new \in Seq(S), NEW k \in 1..Len(new),
           \A i, j \in 1..Len(new) : new[i].name = new[j].name => i = j,
           NEW result, result = RemoveConflictingAndAppend(list, new)
    PROVE  HasOnce(result, new[k])
<1> DEFINE n == Len(Without(list, NamesOf(new)))
<1>1. /\ n \in Nat /\ DOMAIN result = 1..Len(result) /\ Len(result) = n + Len(new)
      /\ \A i \in 1..n : result[i].name \notin NamesOf(new)
      /\ \A i \in 1..Len(new) : result[n + i] = new[i]
  <2>1. InParts(result, Without(list, NamesOf(new)), new)
    BY AppendedParts
  <2> QED
    BY <2>1 DEF InParts
<1> HIDE DEF n
<1>2. \A i \in 1..Len(new) : new[i].name \in NamesOf(new)
  BY DEF NamesOf
<1>3. n + k \in DOMAIN result /\ result[n + k] = new[k]
  BY <1>1
<1>4. ASSUME NEW i \in DOMAIN result, result[i].name = new[k].name
      PROVE  i = n + k
  <2>1. i \in 1..(n + Len(new)) /\ n \in Nat /\ Len(new) \in Nat
    BY <1>1
  <2>2. i \notin 1..n
    <3>1. result[i].name \in NamesOf(new)
      BY <1>2, <1>4
    <3> QED
      BY <1>1, <3>1
  <2>3. i - n \in 1..Len(new) /\ n + (i - n) = i
    BY <2>1, <2>2
  <2>4. result[i] = new[i - n]
    BY <1>1, <2>3
  <2> QED
    BY <1>4, <2>3, <2>4
<1> QED
  BY <1>3, <1>4 DEF HasOnce

(* The other entries are in front, in their order, and nothing else is.    *)
LEMMA AppendedKeeps ==
    ASSUME NEW S, NEW list \in Seq(S), NEW new \in Seq(S),
           Cardinality(NamesOf(new)) = Len(new),
           NEW result, result = RemoveConflictingAndAppend(list, new)
    PROVE  KeepsOthers(list, NamesOf(new), result)
<1> DEFINE names == NamesOf(new)
           others == {i \in DOMAIN list : list[i].name \notin names}
           O(i) == OthersUpTo(list, names, i)
           W == Without(list, names)
<1>1. /\ Len(W) = Cardinality(O(Len(list)))
      /\ \A i \in O(Len(list)) : /\ Cardinality(O(i)) \in 1..Len(W)
                                 /\ W[Cardinality(O(i))] = list[i]
  BY WithoutPositions
<1>2. others = O(Len(list))
  BY DEF OthersUpTo
<1>3. \A i \in others : {j \in others : j <= i} = O(i)
  BY DEF OthersUpTo
<1>4. /\ Len(result) = Len(W) + Len(new)
      /\ \A i \in 1..Len(W) : result[i] = W[i]
  <2>1. InParts(result, Without(list, NamesOf(new)), new)
    BY AppendedParts
  <2> QED
    BY <2>1 DEF InParts
<1> HIDE DEF O, W, names
<1>5. \A i \in others : result[Cardinality({j \in others : j <= i})] = list[i]
  <2> HIDE DEF others
  <2> QED
    BY <1>1, <1>2, <1>3, <1>4
<1>6. Len(result) = Cardinality(others) + Cardinality(names)
  BY <1>1, <1>2, <1>4 DEF names
<1> QED
  BY <1>5, <1>6 DEF KeepsOthers, names

=============================================================================
