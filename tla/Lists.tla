------------------------------- MODULE Lists -------------------------------
(***************************************************************************)
(* The kernel keeps its free lists, and the lists of blocked environments, *)
(* as singly linked lists through a field of the entries of an array.      *)
(***************************************************************************)
EXTENDS Integers, TLAPS, WellFoundedInduction, FiniteSetTheorems

Nil == -1   \* a NULL pointer to an entry

\* The entries S form a list from head along link: each is the head or the link
\* of exactly one other, the links end at Nil, and no part of S is a cycle.
IsList(link, head, S) ==
    /\ head = Nil <=> S = {}
    /\ head \in S \cup {Nil}
    /\ \A e \in S : link[e] \in (S \ {head}) \cup {Nil}
    /\ \A e, f \in S : link[e] = link[f] => e = f
    /\ \A T \in SUBSET S : T # {} => \E e \in T : link[e] \notin T
-----------------------------------------------------------------------------
(***************************************************************************)
(* What popping, pushing and building do to a list, of any length          *)
(***************************************************************************)

\* What env_alloc and sem_post do to a list: its head goes, its rest remains.
LEMMA ListPop ==
    ASSUME NEW S, NEW link, NEW head, IsList(link, head, S), head # Nil
    PROVE  /\ head \in S
           /\ IsList(link, link[head], S \ {head})
<1> DEFINE R == S \ {head}
<1>1. head \in S
  BY DEF IsList
<1>2. link[head] \in R \cup {Nil}
  BY <1>1 DEF IsList
<1>3. link[head] = Nil => R = {}
  <2> SUFFICES ASSUME link[head] = Nil, R # {} PROVE FALSE
    OBVIOUS
  <2>1. PICK e \in R : link[e] \notin R
    BY DEF IsList
  <2>2. link[e] = Nil
    BY <2>1 DEF IsList
  <2> QED
    BY <1>1, <2>1, <2>2 DEF IsList
<1>4. R = {} => link[head] = Nil
  BY <1>2
<1>5. \A e \in R : link[e] \in (R \ {link[head]}) \cup {Nil}
  BY <1>1 DEF IsList
<1>6. \A e, f \in R : link[e] = link[f] => e = f
  BY DEF IsList
<1>7. \A T \in SUBSET R : T # {} => \E e \in T : link[e] \notin T
  BY DEF IsList
<1> QED
  BY <1>1, <1>2, <1>3, <1>4, <1>5, <1>6, <1>7 DEF IsList

\* What env_free and sem_wait do: a slot that is on no list goes in front.
LEMMA ListPush ==
    ASSUME NEW D, Nil \notin D, NEW S \in SUBSET D,
           NEW link \in [D -> D \cup {Nil}],
           NEW head, IsList(link, head, S), NEW e \in D, e \notin S
    PROVE  IsList([link EXCEPT ![e] = head], e, S \cup {e})
<1> DEFINE new == [link EXCEPT ![e] = head]
           R   == S \cup {e}
<1>1. e # Nil
  OBVIOUS
<1>2. head \in S \cup {Nil} /\ head # e
  BY <1>1 DEF IsList
<1>3. new[e] = head /\ \A f \in S : new[f] = link[f]
  OBVIOUS
<1>4. \A f \in R : new[f] \in (R \ {e}) \cup {Nil}
  BY <1>2, <1>3 DEF IsList
<1>5. ASSUME NEW f \in R, NEW g \in R, new[f] = new[g] PROVE f = g
  <2>1. ASSUME NEW h \in S PROVE link[h] # head
    <3>1. CASE head = Nil
      BY <3>1 DEF IsList
    <3>2. CASE head # Nil
      BY <3>2 DEF IsList
    <3> QED
      BY <3>1, <3>2
  <2> QED
    BY <1>3, <1>5, <2>1 DEF IsList
<1>6. ASSUME NEW T \in SUBSET R, T # {}
      PROVE  \E f \in T : new[f] \notin T
  <2>1. CASE T \cap S = {}
    BY <1>2, <1>3, <1>6, <2>1
  <2>2. CASE T \cap S # {}
    <3>1. PICK f \in T \cap S : link[f] \notin T \cap S
      BY <2>2 DEF IsList
    <3>2. link[f] \in S \cup {Nil}
      BY <3>1 DEF IsList
    <3>3. Nil \notin T /\ e \notin S
      OBVIOUS
    <3> QED
      BY <1>3, <3>1, <3>2, <3>3
  <2> QED
    BY <2>1, <2>2
<1> QED
  BY <1>1, <1>4, <1>5, <1>6 DEF IsList

\* What fly_remove does: an entry goes from behind another, whose link leads past it.
LEMMA ListRemove ==
    ASSUME NEW D, Nil \notin D, NEW S \in SUBSET D,
           NEW link \in [D -> D \cup {Nil}], NEW head, IsList(link, head, S),
           NEW e \in S, NEW p \in S, link[p] = e
    PROVE  IsList([link EXCEPT ![p] = link[e]], head, S \ {e})
<1> DEFINE new == [link EXCEPT ![p] = link[e]]
           R   == S \ {e}
<1>1. /\ head \in S /\ head # e /\ p # e
      /\ link[e] \in (S \ {head}) \cup {Nil} /\ link[e] # e
  <2>1. link[e] # e
    <3>1. {e} \in SUBSET S /\ {e} # {}
      OBVIOUS
    <3>2. QED BY <3>1 DEF IsList
  <2>2. QED BY <2>1 DEF IsList
<1>2. new[p] = link[e] /\ \A f \in S : f # p => new[f] = link[f]
  OBVIOUS
<1>3. \A f \in R : new[f] \in (R \ {head}) \cup {Nil}
  BY <1>1, <1>2 DEF IsList
<1>4. \A f, g \in R : new[f] = new[g] => f = g
  BY <1>1, <1>2 DEF IsList
<1>5. ASSUME NEW T \in SUBSET R, T # {} PROVE \E f \in T : new[f] \notin T
  <2>1. CASE p \notin T
    <3>1. PICK f \in T : link[f] \notin T
      BY <1>5 DEF IsList
    <3>2. QED BY <1>2, <2>1, <3>1
  <2>2. CASE p \in T
    <3>1. PICK f \in T \cup {e} : link[f] \notin T \cup {e}
      <4>1. T \cup {e} \in SUBSET S /\ T \cup {e} # {}
        OBVIOUS
      <4>2. QED BY <4>1 DEF IsList
    <3>2. CASE f = e
      BY <1>2, <2>2, <3>1, <3>2
    <3>3. CASE f # e
      BY <1>2, <3>1, <3>3
    <3>4. QED BY <3>2, <3>3
  <2>3. QED BY <2>1, <2>2
<1>6. R # {} /\ head \in R
  BY <1>1
<1>7. QED BY <1>1, <1>3, <1>4, <1>5, <1>6 DEF IsList

\* A list does not notice what happens to the links of other slots.
LEMMA ListFrame ==
    ASSUME NEW S, NEW link, NEW new, NEW head, IsList(link, head, S),
           \A e \in S : new[e] = link[e]
    PROVE  IsList(new, head, S)
BY DEF IsList

\* A set of numbers with a bound has a largest one.
LEMMA LastSlot ==
    ASSUME NEW n \in Nat, NEW T \in SUBSET (0 .. n), T # {}
    PROVE  \E m \in T : \A k \in T : k <= m
<1> DEFINE R == OpToRel(<, Nat)
           U == {y \in Nat : \E k \in T : y = n - k}
<1>1. \A k \in T : k \in 0 .. n /\ n - k \in U
  OBVIOUS
<1>2. U \subseteq Nat /\ U # {}
  BY <1>1
<1>3. PICK x \in U : \A y \in U : ~ (<<y, x>> \in R)
  BY <1>2, WFMin, NatLessThanWellFounded, Zenon
<1>4. \A y \in U : ~ (y < x)
  BY <1>2, <1>3 DEF OpToRel
<1>5. PICK m \in T : x = n - m
  OBVIOUS
<1>6. ASSUME NEW k \in T PROVE k <= m
  <2>1. n - k \in U /\ ~ (n - k < n - m)
    BY <1>1, <1>4, <1>5
  <2> QED
    BY <1>1, <2>1
<1> QED
  BY <1>6

\* The list env_init, init_sem and fcb_init build: each slot is linked to the next.
LEMMA InitialList ==
    ASSUME NEW n \in Nat, n >= 1,
           NEW link, link = [e \in 0 .. n - 1 |-> IF e = n - 1 THEN Nil ELSE e + 1]
    PROVE  IsList(link, 0, 0 .. n - 1)
<1> DEFINE E == 0 .. n - 1
<1>1. /\ 0 \in E /\ 0 # Nil
      /\ \A e \in E : link[e] \in (E \ {0}) \cup {Nil}
      /\ \A e, f \in E : link[e] = link[f] => e = f
  BY DEF Nil
<1>2. ASSUME NEW T \in SUBSET E, T # {}
      PROVE  \E e \in T : link[e] \notin T
  <2>1. n - 1 \in Nat
    OBVIOUS
  <2>2. PICK m \in T : \A k \in T : k <= m
    BY <1>2, <2>1, LastSlot
  <2>3. link[m] = Nil \/ link[m] = m + 1
    OBVIOUS
  <2>4. m \in Nat
    BY <2>1
  <2>5. Nil \notin T
    BY DEF Nil
  <2>6. m + 1 \notin T
    BY <2>2, <2>4
  <2> QED
    BY <2>3, <2>5, <2>6
<1> QED
  BY <1>1, <1>2 DEF IsList
-----------------------------------------------------------------------------
(***************************************************************************)
(* What is done n times                                                    *)
(***************************************************************************)

\* Steps up to n, of a set.
LEMMA UpTo ==
    ASSUME NEW n \in Nat, NEW S, 0 \in S, \A m \in 1 .. n : m - 1 \in S => m \in S
    PROVE  \A m \in 0 .. n : m \in S
<1> DEFINE R == OpToRel(<, Nat)
           U == {m \in 0 .. n : m \notin S}
<1> SUFFICES ASSUME U # {} PROVE FALSE
  OBVIOUS
<1>1. U \subseteq Nat
  OBVIOUS
<1>2. PICK x \in U : \A y \in U : ~ (<<y, x>> \in R)
  BY <1>1, WFMin, NatLessThanWellFounded, Zenon
<1>3. \A y \in U : ~ (y < x)
  BY <1>1, <1>2 DEF OpToRel
<1>4. x \in 1 .. n /\ x - 1 \in 0 .. n /\ x - 1 < x
  OBVIOUS
<1>5. x - 1 \in S
  BY <1>3, <1>4
<1>6. QED BY <1>4, <1>5

\* What is repeated n times is a function; G[m] is the m-th time.
Repeats(g, n, D, G, a) ==
    g \in [0 .. n -> D] /\ g[0] = a /\ \A m \in 1 .. n : g[m] = G[m][g[m - 1]]

LEMMA Repeated ==
    ASSUME NEW n \in Nat, NEW D, NEW G \in [1 .. n -> [D -> D]], NEW a \in D
    PROVE  \E g : Repeats(g, n, D, G, a)
<1> DEFINE Reps(m, g) == g[0] = a /\ \A i \in 1 .. m : g[i] = G[i][g[i - 1]]
           S == {m \in Nat : \E g \in [0 .. m -> D] : Reps(m, g)}
<1>1. 0 \in S
  <2>1. Reps(0, [m \in 0 .. 0 |-> a]) /\ [m \in 0 .. 0 |-> a] \in [0 .. 0 -> D]
    OBVIOUS
  <2>2. QED BY <2>1
<1>2. ASSUME NEW m \in 1 .. n, m - 1 \in S PROVE m \in S
  <2>1. PICK g \in [0 .. m - 1 -> D] : Reps(m - 1, g)
    BY <1>2
  <2> DEFINE h == [i \in 0 .. m |-> IF i = m THEN G[m][g[m - 1]] ELSE g[i]]
  <2>2. h \in [0 .. m -> D]
    <3>1. m - 1 \in 0 .. m - 1 /\ g[m - 1] \in D /\ G[m] \in [D -> D]
      BY <2>1
    <3>2. \A i \in 0 .. m : i # m => i \in 0 .. m - 1
      OBVIOUS
    <3>3. QED BY <2>1, <3>1, <3>2
  <2>3. h[0] = a
    BY <2>1
  <2>4. ASSUME NEW i \in 1 .. m PROVE h[i] = G[i][h[i - 1]]
    <3>1. CASE i = m
      BY <3>1
    <3>2. CASE i # m
      <4>1. i \in 1 .. m - 1 /\ i - 1 \in 0 .. m - 1 /\ i - 1 # m
        BY <3>2
      <4>2. g[i] = G[i][g[i - 1]]
        BY <2>1, <4>1
      <4>3. QED BY <3>2, <4>1, <4>2
    <3>3. QED BY <3>1, <3>2
  <2> HIDE DEF h
  <2>5. Reps(m, h)
    BY <2>3, <2>4
  <2>6. QED BY <2>2, <2>5
<1> HIDE DEF S
<1>3. \A m \in 1 .. n : m - 1 \in S => m \in S
  BY <1>2
<1>4. n \in S
  <2>1. \A m \in 0 .. n : m \in S
    BY <1>1, <1>3, UpTo
  <2>2. QED BY <2>1
<1>5. QED BY <1>4 DEF S, Repeats
-----------------------------------------------------------------------------
(***************************************************************************)
(* Following a list link by link finds its entries; with n entries to      *)
(* choose from, n hops are enough, as none comes twice.                    *)
(***************************************************************************)

\* hop[k] is k links behind head.
Hops(hop, n, link, head) ==
    /\ hop[0] = head
    /\ \A k \in 1 .. n : hop[k] = IF hop[k - 1] = Nil THEN Nil ELSE link[hop[k - 1]]

LEMMA HopsStay ==
    ASSUME NEW n \in Nat, NEW S, NEW link, NEW head, IsList(link, head, S),
           NEW hop, Hops(hop, n, link, head)
    PROVE  \A k \in 0 .. n : hop[k] \in S \cup {Nil}
<1> DEFINE T == {k \in 0 .. n : hop[k] \in S \cup {Nil}}
<1>1. 0 \in T
  BY DEF Hops, IsList
<1>2. \A k \in 1 .. n : k - 1 \in T => k \in T
  BY DEF Hops, IsList
<1> HIDE DEF T
<1>3. n \in Nat
  OBVIOUS
<1>4. \A k \in 0 .. n : k \in T
  BY <1>1, <1>2, <1>3, UpTo
<1>5. QED BY <1>4 DEF T

\* No two hops lead to one entry.
LEMMA HopsDiffer ==
    ASSUME NEW n \in Nat, NEW S, Nil \notin S, NEW link, NEW head, IsList(link, head, S),
           NEW hop, Hops(hop, n, link, head)
    PROVE  \A j, k \in 0 .. n : j < k /\ hop[k] # Nil => hop[j] # hop[k]
<1> DEFINE T == {j \in 0 .. n : \A k \in 0 .. n : j < k /\ hop[k] # Nil => hop[j] # hop[k]}
<1>1. n \in Nat
  OBVIOUS
<1>2. \A k \in 0 .. n : hop[k] \in S \cup {Nil}
  BY HopsStay
<1>3. ASSUME NEW k \in 1 .. n, hop[k] # Nil
      PROVE  /\ k - 1 \in 0 .. n /\ hop[k - 1] \in S
             /\ hop[k] = link[hop[k - 1]] /\ hop[k] # head
  <2>1. k - 1 \in 0 .. n
    BY <1>1
  <2>2. hop[k - 1] \in S /\ hop[k] = link[hop[k - 1]]
    BY <1>2, <1>3, <2>1 DEF Hops
  <2>3. QED BY <1>3, <2>1, <2>2 DEF IsList
<1>4. 0 \in T
  BY <1>1, <1>3 DEF Hops
<1>5. ASSUME NEW j \in 1 .. n, j - 1 \in T PROVE j \in T
  <2> SUFFICES ASSUME NEW k \in 0 .. n, j < k, hop[k] # Nil, hop[j] = hop[k] PROVE FALSE
    BY <1>1
  <2>1. k \in 1 .. n /\ j - 1 < k - 1
    BY <1>1
  <2>2. /\ hop[j - 1] \in S /\ hop[k - 1] \in S /\ k - 1 \in 0 .. n
        /\ link[hop[j - 1]] = link[hop[k - 1]]
    BY <1>3, <2>1
  <2>3. hop[j - 1] = hop[k - 1] /\ hop[k - 1] # Nil
    BY <2>2 DEF IsList
  <2>4. QED BY <1>5, <2>1, <2>2, <2>3
<1> HIDE DEF T
<1>6. \A j \in 0 .. n : j \in T
  BY <1>1, <1>4, <1>5, UpTo
<1>7. QED BY <1>6 DEF T

\* So the hops come to the end.
LEMMA HopsEnd ==
    ASSUME NEW n \in Nat, NEW S \in SUBSET (0 .. n - 1), NEW link, NEW head,
           IsList(link, head, S),
           NEW hop, Hops(hop, n, link, head)
    PROVE  \E k \in 0 .. n : hop[k] = Nil
<1> SUFFICES ASSUME \A k \in 0 .. n : hop[k] # Nil PROVE FALSE
  OBVIOUS
<1>1. n \in Nat /\ Nil \notin S
  BY DEF Nil
<1>2. \A k \in 0 .. n : hop[k] \in 0 .. n - 1
  <2>1. \A k \in 0 .. n : hop[k] \in S \cup {Nil}
    BY HopsStay
  <2>2. QED BY <2>1
<1>3. \A j, k \in 0 .. n : j # k => hop[j] # hop[k]
  <2>1. \A j, k \in 0 .. n : j < k => hop[j] # hop[k]
    BY <1>1, HopsDiffer
  <2>2. \A j, k \in 0 .. n : j # k => j < k \/ k < j
    BY <1>1
  <2>3. QED BY <2>1, <2>2
<1>4. [k \in 0 .. n |-> hop[k]] \in Injection(0 .. n, 0 .. n - 1)
  BY <1>2, <1>3 DEF Injection, IsInjective
<1>5. /\ IsFiniteSet(0 .. n - 1) /\ Cardinality(0 .. n - 1) = n
      /\ Cardinality(0 .. n) = n + 1
  BY FS_Interval
<1>6. Cardinality(0 .. n) <= Cardinality(0 .. n - 1)
  BY <1>4, <1>5, FS_Injection
<1>7. QED BY <1>1, <1>5, <1>6

LEMMA HopsOver ==
    ASSUME NEW n \in Nat, NEW S \in SUBSET (0 .. n - 1), NEW link, NEW head,
           IsList(link, head, S),
           NEW hop, Hops(hop, n, link, head)
    PROVE  hop[n] = Nil
<1>1. PICK m \in 0 .. n : hop[m] = Nil
  BY HopsEnd
<1> DEFINE T == {i \in 0 .. n : m <= i => hop[i] = Nil}
<1>2. n \in Nat
  OBVIOUS
<1>3. 0 \in T
  BY <1>1, <1>2
<1>4. ASSUME NEW i \in 1 .. n, i - 1 \in T PROVE i \in T
  <2>1. CASE m = i
    BY <1>1, <2>1
  <2>2. CASE m # i
    BY <1>2, <1>4, <2>2 DEF Hops
  <2>3. QED BY <2>1, <2>2
<1> HIDE DEF T
<1>5. n \in T
  BY <1>2, <1>3, <1>4, UpTo
<1>6. QED BY <1>2, <1>5 DEF T

\* And they find all of the list.
HopSet(hop, n) == {hop[k] : k \in 0 .. n} \ {Nil}

LEMMA HopsReach ==
    ASSUME NEW n \in Nat, NEW S \in SUBSET (0 .. n - 1), NEW link, NEW head,
           IsList(link, head, S),
           NEW hop, Hops(hop, n, link, head)
    PROVE  HopSet(hop, n) = S
<1> DEFINE R == {hop[k] : k \in 0 .. n} \ {Nil}
<1>1. n \in Nat /\ Nil \notin S
  BY DEF Nil
<1>2. R \subseteq S
  BY HopsStay
<1>3. ASSUME NEW r \in R PROVE link[r] \in R \cup {Nil}
  <2>1. PICK k \in 0 .. n : r = hop[k]
    OBVIOUS
  <2>5. hop[n] = Nil
    BY HopsOver
  <2>6. k # n
    BY <2>1, <2>5
  <2>7. k + 1 \in 1 .. n /\ (k + 1) - 1 = k
    BY <1>1, <2>6
  <2>8. hop[k + 1] = link[r]
    BY <2>1, <2>7 DEF Hops
  <2>9. QED BY <1>1, <2>7, <2>8
<1>4. ASSUME NEW r \in R, r # head PROVE \E q \in R : link[q] = r
  <2>1. PICK k \in 0 .. n : r = hop[k]
    OBVIOUS
  <2>2. k \in 1 .. n /\ k - 1 \in 0 .. n
    BY <1>1, <1>4, <2>1 DEF Hops
  <2>3. hop[k - 1] # Nil /\ r = link[hop[k - 1]]
    BY <2>1, <2>2 DEF Hops
  <2>4. QED BY <2>2, <2>3
<1>5. head # Nil => head \in R
  BY <1>1 DEF Hops
<1> HIDE DEF R
<1>6. ASSUME S \ R # {} PROVE FALSE
  <2>1. PICK e \in S \ R : link[e] \notin S \ R
    BY <1>6 DEF IsList
  <2>2. head \in R
    BY <1>5, <1>6 DEF IsList
  <2>3. PICK f \in R : link[f] \notin R
    BY <1>2, <2>2 DEF IsList
  <2>4. link[f] = Nil
    BY <1>3, <2>3
  <2>5. link[e] # Nil
    BY <1>2, <2>1, <2>3, <2>4 DEF IsList
  <2>6. link[e] \in R /\ link[e] # head
    BY <2>1, <2>5 DEF IsList
  <2>7. PICK q \in R : link[q] = link[e]
    BY <1>4, <2>6
  <2>8. QED BY <1>2, <2>1, <2>7 DEF IsList
<1>7. R = S
  BY <1>2, <1>6
<1>8. QED BY <1>7 DEF R, HopSet
=============================================================================
