--------------------------- MODULE HistoryProofs ---------------------------
(***************************************************************************)
(* Lemmas about the walks over stored checkpoints that the savers and the  *)
(* graph executor make, for chains of any length.  They are proved by      *)
(* induction, as least counterexamples: the library's theorems that take   *)
(* the induction hypothesis as an operator are not used.                   *)
(***************************************************************************)
EXTENDS MemorySaver, WellFoundedInduction, TLAPS

\* Every set of naturals that is not empty has a least element.
LEMMA NatLeast ==
    ASSUME NEW S, S \subseteq Nat, S # {}
    PROVE  \E x \in S : \A y \in S : x <= y
<1> DEFINE R == OpToRel(<, Nat)
<1>1. IsWellFoundedOn(R, Nat)
  BY NatLessThanWellFounded, Zenon
<1>2. \A x, y \in Nat : x < y => <<x, y>> \in R
  BY DEF OpToRel
<1> HIDE DEF R
<1>3. PICK x \in S : \A y \in S : ~(<<y, x>> \in R)
  BY <1>1, WFMin, Zenon
<1>4. \A y \in S : ~(y < x)
  BY <1>2, <1>3, Zenon
<1> QED BY <1>4

\* Induction over the naturals up to a bound.
LEMMA UpTo ==
    ASSUME NEW n \in Nat, NEW S,
           \A c \in 0..n : (\A d \in 0..n : d < c => d \in S) => c \in S
    PROVE  0..n \subseteq S
<1> DEFINE Bad == {c \in 0..n : c \notin S}
<1> SUFFICES ASSUME Bad # {} PROVE FALSE
  OBVIOUS
<1>1. PICK c \in Bad : \A d \in Bad : c <= d
  <2>1. Bad \subseteq Nat
    OBVIOUS
  <2> HIDE DEF Bad
  <2> QED BY <2>1, NatLeast, Zenon
<1>2. \A d \in 0..n : d < c => d \in S
  BY <1>1
<1> QED BY <1>1, <1>2

\* Every set of naturals with a bound that is not empty has a greatest element.
LEMMA NatGreatest ==
    ASSUME NEW n \in Nat, NEW S, S \subseteq 0..n, S # {}
    PROVE  \E x \in S : \A y \in S : y <= x
<1> DEFINE R == {n - x : x \in S}
<1>1. R \subseteq Nat /\ R # {}
  <2>1. \A x \in S : n - x \in Nat
    OBVIOUS
  <2>2. PICK x \in S : TRUE
    BY Zenon
  <2>3. n - x \in R
    OBVIOUS
  <2> QED BY <2>1, <2>3
<1>2. PICK r \in R : \A q \in R : r <= q
  <2> HIDE DEF R
  <2> QED BY <1>1, NatLeast, Zenon
<1>3. PICK x \in S : r = n - x
  OBVIOUS
<1>4. \A y \in S : n - x <= n - y
  BY <1>2, <1>3, Zenon
<1>5. ASSUME NEW y \in S PROVE y <= x
  <2>1. n - x <= n - y
    BY <1>4, Zenon
  <2>2. n \in Nat /\ x \in 0..n /\ y \in 0..n
    BY Zenon
  <2> QED BY ONLY <2>1, <2>2
<1> QED BY <1>5, Zenon

\* Parents are older, as in every table of checkpoints.
Backward(stored) == \A c \in DOMAIN stored : stored[c].parent \in Nat /\ stored[c].parent < c

NoSeed == [hasSeed |-> FALSE, seed |-> Absent, writes |-> <<>>]

\* One step of the walk, given the history of the parent.
Walked(stored, values, pending, ch, c, past) ==
    IF c \notin DOMAIN stored THEN NoSeed
    ELSE IF Resolves(stored[c], values, ch)
    THEN [hasSeed |-> TRUE, seed |-> values[<<ch, stored[c].versions[ch]>>].value,
          writes |-> Ordered(pending[c], ch)]
    ELSE [past EXCEPT !.writes = @ \o Ordered(pending[c], ch)]

\* The walk is well defined: it satisfies its recursive definition at every
\* checkpoint (memory.go GetDeltaChannelHistory).
LEMMA HistoryUnfolds ==
    ASSUME NEW stored, NEW values, NEW pending, NEW ch, Backward(stored)
    PROVE  \A c \in 0..MaxId :
             History(stored, values, pending, ch)[c] =
                 Walked(stored, values, pending, ch, c,
                        History(stored, values, pending, ch)[stored[c].parent])
<1> USE MaxIdAssumption
<1> DEFINE W(c, past) == Walked(stored, values, pending, ch, c, past)
           Def(n, f) == f = [c \in 0..n |-> W(c, f[stored[c].parent])]
           S == {n \in Nat : \E f : Def(n, f)}
<1>1. \A c, p, q : (c \in DOMAIN stored => p = q) => W(c, p) = W(c, q)
  BY Zenon DEF Walked
<1> HIDE DEF W
<1>2. \A n \in Nat : (n = 0 \/ n - 1 \in S) => n \in S
  <2> SUFFICES ASSUME NEW n \in Nat, n = 0 \/ n - 1 \in S PROVE \E f : Def(n, f)
    BY Zenon
  <2>1. PICK g : n # 0 => Def(n - 1, g)
    OBVIOUS
  <2> DEFINE f == [c \in 0..n |-> IF c = n THEN W(n, g[stored[n].parent]) ELSE g[c]]
  <2>2. \A c \in 0..n : c \in DOMAIN stored => f[stored[c].parent] = g[stored[c].parent]
    BY DEF Backward
  <2>3. \A c \in 0..n : f[c] = W(c, f[stored[c].parent])
    <3> SUFFICES ASSUME NEW c \in 0..n PROVE f[c] = W(c, f[stored[c].parent])
      OBVIOUS
    <3>1. W(c, f[stored[c].parent]) = W(c, g[stored[c].parent])
      BY <1>1, <2>2
    <3>2. c # n => g[c] = W(c, g[stored[c].parent])
      BY <2>1
    <3> QED BY <3>1, <3>2
  <2>4. f = [c \in 0..n |-> W(c, f[stored[c].parent])]
    BY <2>3
  <2> QED BY <2>4, Zenon
<1>3. MaxId \in S
  <2>1. \A c \in 0..MaxId : (\A d \in 0..MaxId : d < c => d \in S) => c \in S
    <3> HIDE DEF S
    <3> QED BY <1>2
  <2> HIDE DEF S
  <2> QED BY <2>1, UpTo
<1>4. PICK f : Def(MaxId, f)
  BY <1>3
<1> DEFINE H == History(stored, values, pending, ch)
<1>5. H = CHOOSE h : Def(MaxId, h)
  BY DEF History, W, Walked, NoSeed
<1>6. Def(MaxId, H)
  BY <1>4, <1>5, Zenon
<1> HIDE DEF H
<1> QED BY <1>6 DEF W, H

\* Two tables say the same of checkpoint c and channel ch.
Alike(stored, values, pending, stored2, values2, pending2, ch, c) ==
    LET key == <<ch, stored[c].versions[ch]>>
        key2 == <<ch, stored2[c].versions[ch]>>
    IN /\ stored[c].parent = stored2[c].parent
       /\ Resolves(stored[c], values, ch) <=> Resolves(stored2[c], values2, ch)
       /\ Resolves(stored[c], values, ch) => values[key].value = values2[key2].value
       /\ pending[c] = pending2[c]

\* S is a set of ids, closed under stored parents, on which the tables agree
\* on what is stored, on the parents, on the values and on the pending writes.
AlikeOn(S, stored, values, pending, stored2, values2, pending2, ch) ==
    /\ Backward(stored) /\ Backward(stored2)
    /\ S \in SUBSET (0..MaxId)
    /\ \A c \in S : c \in DOMAIN stored <=> c \in DOMAIN stored2
    /\ \A c \in S \cap DOMAIN stored :
         /\ stored[c].parent \in S
         /\ Alike(stored, values, pending, stored2, values2, pending2, ch, c)

\* Two walks agree on such a set.
LEMMA HistoriesAgree ==
    ASSUME NEW stored, NEW values, NEW pending, NEW stored2, NEW values2, NEW pending2, NEW ch,
           NEW S, AlikeOn(S, stored, values, pending, stored2, values2, pending2, ch)
    PROVE  \A c \in S : History(stored, values, pending, ch)[c] =
                         History(stored2, values2, pending2, ch)[c]
<1> USE MaxIdAssumption
<1> DEFINE H == History(stored, values, pending, ch)
           H2 == History(stored2, values2, pending2, ch)
           Good == {c \in 0..MaxId : c \in S => H[c] = H2[c]}
<1>1. \A c \in 0..MaxId :
        /\ H[c] = Walked(stored, values, pending, ch, c, H[stored[c].parent])
        /\ H2[c] = Walked(stored2, values2, pending2, ch, c, H2[stored2[c].parent])
  BY HistoryUnfolds DEF AlikeOn
<1> HIDE DEF H, H2
<1>2. ASSUME NEW c \in 0..MaxId, \A d \in 0..MaxId : d < c => d \in Good, c \in S
      PROVE  H[c] = H2[c]
  <2>1. CASE c \notin DOMAIN stored
    BY <1>1, <1>2, <2>1, Zenon DEF Walked, AlikeOn
  <2>2. CASE c \in DOMAIN stored
    <3>1. H[stored[c].parent] = H2[stored2[c].parent]
      BY <1>2, <2>2, Zenon DEF Backward, Alike, AlikeOn
    <3>2. Walked(stored, values, pending, ch, c, H[stored[c].parent])
            = Walked(stored2, values2, pending2, ch, c, H2[stored2[c].parent])
      BY <1>2, <2>2, <3>1, Zenon DEF Walked, Alike, AlikeOn
    <3> QED BY <1>1, <3>2
  <2> QED BY <2>1, <2>2
<1>3. \A c \in 0..MaxId : (\A d \in 0..MaxId : d < c => d \in Good) => c \in Good
  BY <1>2
<1>4. 0..MaxId \subseteq Good
  <2> HIDE DEF Good
  <2> QED BY <1>3, UpTo, Zenon
<1> QED BY <1>4 DEF H, H2, AlikeOn
=============================================================================
