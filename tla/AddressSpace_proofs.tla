------------------------ MODULE AddressSpace_proofs ------------------------
(***************************************************************************)
(* For every number of pages, slots and entries, every program and all     *)
(* values: the free pages are a list, whoever exits; and as long as no one *)
(* of several threads exits, the pages of the programs are apart and give  *)
(* each program the memory of MemorySpec.                                  *)
(***************************************************************************)
EXTENDS MCAddressSpace

LEMMA Constants ==
    /\ 0 \in Pages /\ 0 \in Index /\ Nil \notin Pages /\ Nil \notin Index
    /\ NPAGES \in Nat /\ NENTRIES \in Nat /\ Empty \in [Index -> Pages \cup {Nil}]
BY MemoryAssumption DEF Pages, Index, Empty, Nil

Entries == [Pages -> [Index -> Pages \cup {Nil}]]
-----------------------------------------------------------------------------
(***************************************************************************)
(* The tree of a directory: itself, its tables and the pages in them       *)
(***************************************************************************)

\* The page of directory d at entry j of table i, or Nil.
At(en, d, i, j) == IF en[d][i] = Nil THEN Nil ELSE en[en[d][i]][j]

Own(en, d) ==
    ({d} \cup {en[d][i] : i \in Index} \cup {At(en, d, i, j) : i, j \in Index}) \ {Nil}

\* No page has two places in the tree.
Tree(en, d) ==
    /\ d \in Pages
    /\ \A i \in Index : en[d][i] # d
    /\ \A i, k \in Index : en[d][i] = en[d][k] /\ en[d][i] # Nil => i = k
    /\ \A i, j \in Index : At(en, d, i, j) # d
    /\ \A i, j, k \in Index : At(en, d, i, j) # Nil => At(en, d, i, j) # en[d][k]
    /\ \A i, j, k, l \in Index :
          At(en, d, i, j) = At(en, d, k, l) /\ At(en, d, i, j) # Nil => i = k /\ j = l

LEMMA OwnOf ==
    ASSUME NEW en, NEW d
    PROVE  \A x : x \in Own(en, d) <=>
              x # Nil /\ \/ x = d
                         \/ \E i \in Index : x = en[d][i]
                         \/ \E i, j \in Index : x = At(en, d, i, j)
BY DEF Own

\* A tree does not notice what happens to other pages.
LEMMA TreeFrame ==
    ASSUME NEW en, NEW fn, NEW d \in Pages, \A x \in Own(en, d) : fn[x] = en[x]
    PROVE  /\ \A i \in Index : fn[d][i] = en[d][i]
           /\ \A i, j \in Index : At(fn, d, i, j) = At(en, d, i, j)
           /\ Own(fn, d) = Own(en, d)
           /\ Tree(en, d) => Tree(fn, d)
<1>1. fn[d] = en[d]
  BY Constants DEF Own
<1>2. ASSUME NEW i \in Index, NEW j \in Index PROVE At(fn, d, i, j) = At(en, d, i, j)
  BY <1>1 DEF Own, At
<1>3. Own(fn, d) = Own(en, d)
  BY <1>1, <1>2 DEF Own
<1>4. Tree(en, d) => Tree(fn, d)
  BY <1>1, <1>2 DEF Tree
<1>5. QED BY <1>1, <1>2, <1>3, <1>4

\* An empty page becomes a table of the tree.
LEMMA TreeTable ==
    ASSUME NEW en \in Entries, NEW d \in Pages, Tree(en, d), NEW i \in Index, en[d][i] = Nil,
           NEW t \in Pages \ Own(en, d),
           NEW fn,
           \A k \in Index : fn[d][k] = IF k = i THEN t ELSE en[d][k],
           \A l \in Index : fn[t][l] = Nil,
           \A x \in Pages \ {d, t} : fn[x] = en[x]
    PROVE  /\ Tree(fn, d) /\ Own(fn, d) \subseteq Own(en, d) \cup {t}
           /\ \A k, l \in Index : At(fn, d, k, l) = At(en, d, k, l)
<1>1. d # t /\ Nil \notin Pages /\ Nil # t
  BY Constants, OwnOf
<1>2. /\ \A k \in Index : fn[d][k] = IF k = i THEN t ELSE en[d][k]
      /\ \A x \in Pages \ {d, t} : fn[x] = en[x]
      /\ \A l \in Index : fn[t][l] = Nil
  OBVIOUS
<1>3. ASSUME NEW k \in Index, NEW l \in Index PROVE At(fn, d, k, l) = At(en, d, k, l)
  <2>1. CASE k = i
    BY <1>1, <1>2, <2>1 DEF At
  <2>2. CASE k # i
    <3>1. en[d][k] # t /\ en[d][k] # d /\ en[d][k] \in Pages \cup {Nil}
      BY <1>1, OwnOf DEF Tree, Entries
    <3>2. fn[d][k] = en[d][k]
      BY <1>2, <2>2
    <3>3. en[d][k] # Nil => fn[en[d][k]] = en[en[d][k]]
      BY <1>2, <3>1
    <3>4. QED BY <3>2, <3>3 DEF At
  <2>3. QED BY <2>1, <2>2
<1>4. \A k, l \in Index : At(en, d, k, l) # t
  BY <1>1, OwnOf
<1>5. \A k \in Index : en[d][k] # t
  BY <1>1, OwnOf
<1>6. Own(fn, d) \subseteq Own(en, d) \cup {t}
  <2> SUFFICES ASSUME NEW x \in Own(fn, d), x # t PROVE x \in Own(en, d)
    OBVIOUS
  <2>1. CASE x = d
    BY <2>1, OwnOf
  <2>2. CASE \E k \in Index : x = fn[d][k]
    BY <1>2, <2>2, OwnOf
  <2>3. CASE \E k, l \in Index : x = At(fn, d, k, l)
    <3>1. PICK k \in Index, l \in Index : x = At(en, d, k, l)
      BY <1>3, <2>3
    <3>2. QED BY <3>1, OwnOf
  <2>4. QED BY <2>1, <2>2, <2>3, OwnOf
<1>7. Tree(fn, d)
  <2>1. /\ \A k \in Index : fn[d][k] # d
        /\ \A k, l \in Index : fn[d][k] = fn[d][l] /\ fn[d][k] # Nil => k = l
    BY <1>1, <1>2, <1>5 DEF Tree
  <2>2. /\ \A k, l \in Index : At(fn, d, k, l) # d
        /\ \A k, l, m \in Index : At(fn, d, k, l) # Nil => At(fn, d, k, l) # fn[d][m]
    BY <1>2, <1>3, <1>4 DEF Tree
  <2>3. \A k, l, m, n \in Index :
           At(fn, d, k, l) = At(fn, d, m, n) /\ At(fn, d, k, l) # Nil => k = m /\ l = n
    BY <1>3 DEF Tree
  <2>4. QED BY <2>1, <2>2, <2>3 DEF Tree
<1>8. QED BY <1>2, <1>3, <1>6, <1>7

\* A page comes to a place in a table of the tree, and goes from there.
LEMMA TreePage ==
    ASSUME NEW en \in Entries, NEW d \in Pages, Tree(en, d), NEW i \in Index, NEW j \in Index,
           NEW t \in Pages, en[d][i] = t, NEW p \in Pages \ Own(en, d),
           NEW fn,
           \A l \in Index : fn[t][l] = IF l = j THEN p ELSE en[t][l],
           \A x \in Pages \ {t} : fn[x] = en[x]
    PROVE  /\ Tree(fn, d) /\ Own(fn, d) \subseteq (Own(en, d) \ {en[t][j]}) \cup {p}
           /\ fn[d] = en[d] /\ t \in Own(en, d)
           /\ \A k, l \in Index : At(fn, d, k, l) = IF k = i /\ l = j THEN p ELSE At(en, d, k, l)
<1>1. d # t /\ t # p /\ d # p /\ Nil \notin Pages /\ t \in Own(en, d)
  BY Constants, OwnOf DEF Tree
<1>2. /\ fn[d] = en[d] /\ \A x \in Pages \ {t} : fn[x] = en[x]
      /\ \A l \in Index : fn[t][l] = IF l = j THEN p ELSE en[t][l]
  BY <1>1
<1>3. ASSUME NEW k \in Index, NEW l \in Index
      PROVE  At(fn, d, k, l) = IF k = i /\ l = j THEN p ELSE At(en, d, k, l)
  <2>1. CASE k = i
    BY <1>1, <1>2, <2>1 DEF At
  <2>2. CASE k # i
    <3>1. en[d][k] # t /\ en[d][k] \in Pages \cup {Nil}
      BY <1>1, <2>2 DEF Tree, Entries
    <3>2. QED BY <1>2, <2>2, <3>1 DEF At
  <2>3. QED BY <2>1, <2>2
<1>4. (\A k, l \in Index : At(en, d, k, l) # p) /\ (\A k \in Index : en[d][k] # p)
  BY <1>1, OwnOf
<1>5. At(en, d, i, j) = en[t][j]
  BY <1>1 DEF At
<1>6. Own(fn, d) \subseteq (Own(en, d) \ {en[t][j]}) \cup {p}
  <2> SUFFICES ASSUME NEW x \in Own(fn, d), x # p PROVE x \in Own(en, d) /\ x # en[t][j]
    OBVIOUS
  <2>1. CASE x = d
    BY <1>1, <1>5, <2>1, OwnOf DEF Tree
  <2>2. CASE \E k \in Index : x = fn[d][k]
    <3>1. PICK k \in Index : x = en[d][k]
      BY <1>2, <2>2
    <3>2. x # Nil
      BY OwnOf
    <3>3. At(en, d, i, j) # x
      BY <3>1, <3>2 DEF Tree
    <3>4. QED BY <1>5, <3>1, <3>2, <3>3, OwnOf
  <2>3. CASE \E k, l \in Index : x = At(fn, d, k, l)
    <3>1. PICK k \in Index, l \in Index : x = At(fn, d, k, l)
      BY <2>3
    <3>2. x = At(en, d, k, l) /\ ~ (k = i /\ l = j) /\ x # Nil
      BY <1>3, <3>1, OwnOf
    <3>3. x # At(en, d, i, j)
      BY <3>2 DEF Tree
    <3>4. QED BY <1>5, <3>2, <3>3, OwnOf
  <2>4. QED BY <2>1, <2>2, <2>3, OwnOf
<1>7. Tree(fn, d)
  <2>1. /\ \A k \in Index : fn[d][k] # d
        /\ \A k, l \in Index : fn[d][k] = fn[d][l] /\ fn[d][k] # Nil => k = l
    BY <1>2 DEF Tree
  <2>2. \A k, l \in Index : At(fn, d, k, l) # d
    BY <1>1, <1>3 DEF Tree
  <2>3. ASSUME NEW k \in Index, NEW l \in Index, NEW m \in Index, At(fn, d, k, l) # Nil
        PROVE  At(fn, d, k, l) # fn[d][m]
    <3>1. CASE k = i /\ l = j
      BY <1>2, <1>3, <1>4, <3>1
    <3>2. CASE ~ (k = i /\ l = j)
      BY <1>2, <1>3, <2>3, <3>2 DEF Tree
    <3>3. QED BY <3>1, <3>2
  <2>4. \A k, l, m, n \in Index :
           At(fn, d, k, l) = At(fn, d, m, n) /\ At(fn, d, k, l) # Nil => k = m /\ l = n
    BY <1>3, <1>4 DEF Tree
  <2>5. QED BY <2>1, <2>2, <2>3, <2>4 DEF Tree
<1>8. QED BY <1>1, <1>2, <1>3, <1>6, <1>7
-----------------------------------------------------------------------------
(***************************************************************************)
(* The operations on pages, field by field                                 *)
(***************************************************************************)

MemType ==
    [ref : [Pages -> 0 .. RefMod - 1], link : [Pages -> Pages \cup {Nil}],
     free : Pages \cup {Nil}, entry : Entries, data : [Pages -> Values], ok : BOOLEAN]

LEMMA Counts == \A r \in 0 .. RefMod - 1 : Up(r) \in 0 .. RefMod - 1 /\ Down(r) \in 0 .. RefMod - 1
BY MemoryAssumption DEF Up, Down

\* The first free page is taken, cleared and counted as r.
LEMMA TakenFields ==
    ASSUME NEW m \in MemType, m.free # Nil, NEW r \in 0 .. RefMod - 1
    PROVE  LET n == [page_alloc(m) EXCEPT !.ref[m.free] = r]
           IN /\ n \in MemType /\ m.free \in Pages /\ n.link = m.link /\ n.free = m.link[m.free]
              /\ n.entry = [m.entry EXCEPT ![m.free] = Empty]
              /\ n.data = [m.data EXCEPT ![m.free] = 0] /\ n.ok = m.ok
BY Constants, MemoryAssumption DEF MemType, Entries, page_alloc

LEMMA AllocFields ==
    ASSUME NEW m \in MemType, m.free # Nil
    PROVE  LET n == page_alloc(m)
           IN /\ n \in MemType /\ m.free \in Pages /\ n.link = m.link /\ n.free = m.link[m.free]
              /\ n.entry = [m.entry EXCEPT ![m.free] = Empty]
              /\ n.data = [m.data EXCEPT ![m.free] = 0] /\ n.ok = m.ok /\ n.ref = m.ref
BY Constants, MemoryAssumption DEF MemType, Entries, page_alloc

LEMMA DecrefFields ==
    ASSUME NEW m \in MemType, NEW q \in Pages
    PROVE  LET n == page_decref(m, q)
           IN /\ n \in MemType /\ n.entry = m.entry /\ n.data = m.data /\ n.ok = m.ok
              /\ \/ n.link = m.link /\ n.free = m.free
                 \/ n.link = [m.link EXCEPT ![q] = m.free] /\ n.free = q
BY Counts DEF MemType, Entries, page_decref, page_free

\* Directory d has a table i in w, and had it in m or gets the first free page.
Walked(m, d, i, w) ==
    /\ w \in MemType
    /\ \/ m.entry[d][i] # Nil /\ w = m
       \/ m.entry[d][i] = Nil /\ w.ok = FALSE
       \/ /\ m.entry[d][i] = Nil /\ m.free \in Pages
          /\ w.link = m.link /\ w.free = m.link[m.free] /\ w.ok = m.ok
          /\ w.entry[d][i] = m.free
          /\ \A x \in Pages \ {d, m.free} : w.entry[x] = m.entry[x]
          /\ \A x \in Pages \ {m.free} : w.data[x] = m.data[x]
          /\ d # m.free =>
                /\ \A k \in Index : w.entry[d][k] = IF k = i THEN m.free ELSE m.entry[d][k]
                /\ \A k \in Index : w.entry[m.free][k] = Nil

LEMMA WalkFields ==
    ASSUME NEW m \in MemType, NEW d \in Pages, NEW i \in Index
    PROVE  Walked(m, d, i, pgdir_walk(m, d, i))
<1> DEFINE v == pgdir_walk(m, d, i)
<1>1. CASE m.entry[d][i] # Nil
  BY <1>1 DEF pgdir_walk, Walked
<1>2. CASE m.entry[d][i] = Nil /\ m.free = Nil
  BY <1>2 DEF pgdir_walk, Failed, MemType, Walked
<1>3. CASE m.entry[d][i] = Nil /\ m.free # Nil
  <2> DEFINE r == Up(m.ref[m.free])
             n == [page_alloc(m) EXCEPT !.ref[m.free] = r]
  <2>1. r \in 0 .. RefMod - 1
    BY <1>3, Counts DEF MemType
  <2>2. page_alloc(m).ref = m.ref
    BY <1>3, AllocFields
  <2>3. v = [n EXCEPT !.entry[d][i] = m.free]
    BY <1>3, <2>2 DEF pgdir_walk, page_alloc, MemType
  <2> HIDE DEF r
  <2>4. /\ n \in MemType /\ m.free \in Pages /\ n.link = m.link /\ n.free = m.link[m.free]
        /\ n.entry = [m.entry EXCEPT ![m.free] = Empty]
        /\ n.data = [m.data EXCEPT ![m.free] = 0] /\ n.ok = m.ok
    BY <1>3, <2>1, TakenFields
  <2> HIDE DEF n, v
  <2>5. v \in MemType
    BY <2>3, <2>4 DEF MemType, Entries
  <2>6. /\ v.link = n.link /\ v.free = n.free /\ v.ok = n.ok /\ v.data = n.data
        /\ v.entry = [n.entry EXCEPT ![d][i] = m.free]
    BY <2>3, <2>4 DEF MemType
  <2>7. /\ \A x \in Pages \ {d, m.free} : v.entry[x] = m.entry[x]
        /\ \A x \in Pages \ {m.free} : v.data[x] = m.data[x]
    BY <2>4, <2>6 DEF MemType, Entries
  <2>8. ASSUME d # m.free
        PROVE  /\ \A k \in Index : v.entry[d][k] = IF k = i THEN m.free ELSE m.entry[d][k]
               /\ \A k \in Index : v.entry[m.free][k] = Nil
    BY <2>4, <2>6, <2>8 DEF MemType, Entries, Empty
  <2>9. v.entry[d][i] = m.free
    BY <2>4, <2>6 DEF MemType, Entries
  <2>10. QED BY <1>3, <2>4, <2>5, <2>6, <2>7, <2>8, <2>9 DEF v, Walked
<1>4. QED BY <1>1, <1>2, <1>3

\* Page p comes to entry j of the table t; the one that was there may be free now.
Placed(m, t, j, p, n) ==
    /\ n \in MemType /\ n.ok = m.ok /\ n.data = m.data
    /\ \A l \in Index : n.entry[t][l] = IF l = j THEN p ELSE m.entry[t][l]
    /\ \A x \in Pages \ {t} : n.entry[x] = m.entry[x]
    /\ \/ n.link = m.link /\ n.free = m.free
       \/ /\ m.entry[t][j] \in Pages
          /\ n.link = [m.link EXCEPT ![m.entry[t][j]] = m.free] /\ n.free = m.entry[t][j]

LEMMA PlaceFields ==
    ASSUME NEW m \in MemType, NEW t \in Pages, NEW j \in Index, NEW p \in Pages
    PROVE  Placed(m, t, j, p, [page_remove(m, t, j) EXCEPT !.entry[t][j] = p])
<1> DEFINE q == m.entry[t][j]
<1>1. q \in Pages \cup {Nil} /\ m.entry \in Entries
  BY DEF MemType, Entries
<1>2. CASE q = Nil
  BY <1>2 DEF page_remove, MemType, Entries, Placed
<1>3. CASE q # Nil
  <2> DEFINE n == page_decref(m, q)
             o == [page_remove(m, t, j) EXCEPT !.entry[t][j] = p]
  <2>1. /\ n \in MemType /\ n.entry = m.entry /\ n.data = m.data /\ n.ok = m.ok
        /\ \/ n.link = m.link /\ n.free = m.free
           \/ n.link = [m.link EXCEPT ![q] = m.free] /\ n.free = q
    BY <1>1, <1>3, DecrefFields
  <2>2. o = [[n EXCEPT !.entry[t][j] = Nil] EXCEPT !.entry[t][j] = p]
    BY <1>3 DEF page_remove
  <2> HIDE DEF n, o
  <2> DEFINE k == [n EXCEPT !.entry[t][j] = Nil]
  <2>3. /\ k \in MemType /\ k.entry = [m.entry EXCEPT ![t][j] = Nil]
        /\ k.link = n.link /\ k.free = n.free /\ k.data = n.data /\ k.ok = n.ok
    BY <1>1, <2>1 DEF MemType, Entries
  <2>4. o = [k EXCEPT !.entry[t][j] = p]
    BY <2>2
  <2> HIDE DEF k
  <2>5. /\ o \in MemType /\ o.entry = [k.entry EXCEPT ![t][j] = p]
        /\ o.link = k.link /\ o.free = k.free /\ o.data = k.data /\ o.ok = k.ok
    BY <2>3, <2>4 DEF MemType, Entries
  <2>6. o.entry = [m.entry EXCEPT ![t][j] = p]
    BY <1>1, <2>3, <2>5 DEF Entries
  <2>7. /\ \A l \in Index : o.entry[t][l] = IF l = j THEN p ELSE m.entry[t][l]
        /\ \A x \in Pages \ {t} : o.entry[x] = m.entry[x]
    BY <1>1, <2>6 DEF Entries
  <2>8. Placed(m, t, j, p, o)
    BY <1>1, <1>3, <2>1, <2>3, <2>5, <2>7 DEF Placed
  <2>9. QED BY <2>8 DEF o
<1>4. QED BY <1>2, <1>3
-----------------------------------------------------------------------------
(***************************************************************************)
(* Building a directory d, next to pages K that are left alone             *)
(***************************************************************************)

\* What is at entry j of table i for who runs in d.
Sees(m, d, i, j) ==
    IF At(m.entry, d, i, j) = Nil THEN Nil ELSE m.data[At(m.entry, d, i, j)]

Apart(m, d, K, F) ==
    /\ IsList(m.link, m.free, F)
    /\ F \cap Own(m.entry, d) = {} /\ F \cap K = {} /\ Own(m.entry, d) \cap K = {}

Build(m, d, K) ==
    /\ m \in MemType /\ m.ok = TRUE /\ Tree(m.entry, d)
    /\ \E F \in SUBSET Pages : Apart(m, d, K, F)

Kept(m, n, K) == \A x \in K : n.entry[x] = m.entry[x] /\ n.data[x] = m.data[x]

SameTree(m, n, d) ==
    \A i, j \in Index : /\ At(n.entry, d, i, j) = At(m.entry, d, i, j)
                        /\ Sees(n, d, i, j) = Sees(m, d, i, j)

\* A free page p is taken from the list.
LEMMA TakeBuilds ==
    ASSUME NEW m, NEW d, NEW K \in SUBSET Pages, Build(m, d, K), m.free # Nil,
           NEW n \in MemType, n.link = m.link, n.free = m.link[m.free], n.ok = m.ok,
           \A x \in Pages \ {m.free} : n.entry[x] = m.entry[x] /\ n.data[x] = m.data[x]
    PROVE  /\ m.free \in Pages \ K /\ m.free \notin Own(m.entry, d)
           /\ Build(n, d, K \cup {m.free}) /\ Kept(m, n, K)
           /\ n.entry[d] = m.entry[d] /\ SameTree(m, n, d)
<1>1. PICK F \in SUBSET Pages : Apart(m, d, K, F)
  BY DEF Build
<1> DEFINE p == m.free
<1>2. p \in F /\ p \in Pages /\ d \in Pages /\ Nil \notin F
  BY <1>1, Constants DEF Apart, IsList, Build, Tree
<1>3. IsList(m.link, m.link[p], F \ {p})
  BY <1>1, <1>2, ListPop DEF Apart
<1>4. p \notin Own(m.entry, d) /\ p \notin K /\ d # p
  BY <1>1, <1>2, OwnOf DEF Apart
<1>5. \A x \in Pages \ {p} : n.entry[x] = m.entry[x] /\ n.data[x] = m.data[x]
  OBVIOUS
<1>6. Own(m.entry, d) \subseteq Pages
  <2>1. m.entry \in Entries
    BY DEF Build, MemType
  <2>2. \A i \in Index : m.entry[d][i] \in Pages \cup {Nil}
    BY <1>2, <2>1 DEF Entries
  <2>3. \A i, j \in Index : At(m.entry, d, i, j) \in Pages \cup {Nil}
    BY <1>2, <2>1, <2>2 DEF At, Entries
  <2>4. QED BY <1>2, <2>2, <2>3, OwnOf
<1>7. \A x \in Own(m.entry, d) : n.entry[x] = m.entry[x] /\ n.data[x] = m.data[x]
  BY <1>4, <1>5, <1>6
<1>8. /\ \A i, j \in Index : At(n.entry, d, i, j) = At(m.entry, d, i, j)
      /\ Own(n.entry, d) = Own(m.entry, d) /\ Tree(n.entry, d)
  <2> DEFINE en == m.entry
             fn == n.entry
  <2>1. \A x \in Own(en, d) : fn[x] = en[x]
    BY <1>7
  <2>2. Tree(en, d)
    BY DEF Build
  <2> HIDE DEF en, fn
  <2>3. /\ \A i, j \in Index : At(fn, d, i, j) = At(en, d, i, j)
        /\ Own(fn, d) = Own(en, d) /\ Tree(fn, d)
    BY <1>2, <2>1, <2>2, TreeFrame
  <2>4. QED BY <2>3 DEF en, fn
<1>9. SameTree(m, n, d)
  <2> SUFFICES ASSUME NEW i \in Index, NEW j \in Index PROVE Sees(n, d, i, j) = Sees(m, d, i, j)
    BY <1>8 DEF SameTree
  <2>1. At(m.entry, d, i, j) # Nil => At(m.entry, d, i, j) \in Own(m.entry, d)
    BY OwnOf
  <2>2. QED BY <1>7, <1>8, <2>1 DEF Sees
<1>10. Apart(n, d, K \cup {p}, F \ {p})
  BY <1>1, <1>3, <1>4, <1>8 DEF Apart
<1>11. Build(n, d, K \cup {p})
  BY <1>8, <1>10 DEF Build
<1>12. Kept(m, n, K)
  BY <1>4, <1>5 DEF Kept
<1>13. QED BY <1>2, <1>4, <1>5, <1>9, <1>11, <1>12

\* The tree of d has a table i.
Reached(m, d, K, i, w) ==
    /\ Build(w, d, K) /\ Kept(m, w, K) /\ SameTree(m, w, d)
    /\ w.entry[d][i] \in Pages
    /\ \A k \in Index : k # i => w.entry[d][k] = m.entry[d][k]

LEMMA WalkBuilds ==
    ASSUME NEW m, NEW d, NEW K \in SUBSET Pages, Build(m, d, K), NEW i \in Index,
           pgdir_walk(m, d, i).ok = TRUE
    PROVE  Reached(m, d, K, i, pgdir_walk(m, d, i))
<1> DEFINE w == pgdir_walk(m, d, i)
<1>0. w.ok = TRUE /\ w = pgdir_walk(m, d, i)
  OBVIOUS
<1> SUFFICES Reached(m, d, K, i, w)
  OBVIOUS
<1> HIDE DEF w
<1>1. m \in MemType /\ d \in Pages
  BY DEF Build, Tree
<1>2. /\ w \in MemType
      /\ \/ m.entry[d][i] # Nil /\ w = m
         \/ /\ m.entry[d][i] = Nil /\ m.free \in Pages
            /\ w.link = m.link /\ w.free = m.link[m.free] /\ w.ok = m.ok
            /\ \A x \in Pages \ {d, m.free} : w.entry[x] = m.entry[x]
            /\ \A x \in Pages \ {m.free} : w.data[x] = m.data[x]
            /\ d # m.free =>
                  /\ \A k \in Index : w.entry[d][k] = IF k = i THEN m.free ELSE m.entry[d][k]
                  /\ \A k \in Index : w.entry[m.free][k] = Nil
  <2>1. Walked(m, d, i, w)
    BY <1>1, WalkFields DEF w
  <2>2. QED BY <1>0, <2>1 DEF Walked
<1>3. CASE m.entry[d][i] # Nil /\ w = m
  BY <1>1, <1>3 DEF Kept, SameTree, MemType, Entries, Reached
<1>4. CASE m.entry[d][i] = Nil
  <2> DEFINE p == m.free
             n == [w EXCEPT !.entry = [m.entry EXCEPT ![p] = Empty]]
  <2>1. m.free # Nil
    BY <1>2, <1>4, Constants
  <2>2. /\ n \in MemType /\ n.link = w.link /\ n.free = w.free /\ n.ok = w.ok
        /\ n.entry = [m.entry EXCEPT ![p] = Empty] /\ n.data = w.data
    BY <1>1, <1>2, <1>4, Constants DEF MemType, Entries
  <2>3. \A x \in Pages \ {p} : n.entry[x] = m.entry[x] /\ n.data[x] = m.data[x]
    BY <1>1, <1>2, <1>4, <2>2 DEF MemType, Entries
  <2>4. \A l \in Index : n.entry[p][l] = Nil
    BY <1>1, <1>2, <1>4, <2>2 DEF MemType, Entries, Empty
  <2> HIDE DEF n
  <2>5. /\ p \in Pages \ K /\ p \notin Own(m.entry, d)
        /\ Build(n, d, K \cup {p}) /\ Kept(m, n, K)
        /\ n.entry[d] = m.entry[d] /\ SameTree(m, n, d)
    <3>1. n.link = m.link /\ n.free = m.link[m.free] /\ n.ok = m.ok
      BY <1>2, <1>4, <2>2
    <3>2. QED BY <2>1, <2>2, <2>3, <3>1, TakeBuilds
  <2>6. PICK F \in SUBSET Pages : Apart(n, d, K \cup {p}, F)
    BY <2>5 DEF Build
  <2>7. d \in Own(n.entry, d) /\ p \notin Own(n.entry, d)
    BY <1>1, <2>6, Constants, OwnOf DEF Apart
  <2>8. n.entry \in Entries /\ Tree(n.entry, d)
    BY <2>2, <2>5 DEF Build, MemType
  <2>9. /\ \A k \in Index : w.entry[d][k] = IF k = i THEN p ELSE n.entry[d][k]
        /\ \A x \in Pages \ {d, p} : w.entry[x] = n.entry[x]
        /\ \A l \in Index : w.entry[p][l] = Nil
    BY <1>2, <1>4, <2>3, <2>5, <2>7
  <2>10. n.entry[d][i] = Nil
    BY <1>4, <2>5
  <2>11. /\ Tree(w.entry, d) /\ Own(w.entry, d) \subseteq Own(n.entry, d) \cup {p}
         /\ \A k, l \in Index : At(w.entry, d, k, l) = At(n.entry, d, k, l)
    BY <1>1, <2>5, <2>7, <2>8, <2>9, <2>10, TreeTable
  <2>12. SameTree(m, w, d)
    BY <2>2, <2>5, <2>11 DEF SameTree, Sees
  <2>13. Apart(w, d, K, F)
    BY <2>2, <2>5, <2>6, <2>11 DEF Apart
  <2>14. Build(w, d, K)
    BY <1>2, <2>11, <2>13 DEF Build
  <2>15. d \notin K
    BY <2>6, <2>7 DEF Apart
  <2>16. Kept(m, w, K)
    BY <2>2, <2>5, <2>9, <2>15 DEF Kept
  <2>17. w.entry[d][i] \in Pages /\ \A k \in Index : k # i => w.entry[d][k] = m.entry[d][k]
    BY <1>2, <1>4, <2>5, <2>9
  <2>18. QED BY <2>12, <2>14, <2>16, <2>17 DEF Reached
<1>5. QED BY <1>2, <1>3, <1>4

\* Page p, which was taken, is in the tree of d.
Inserted(m, d, K, p, a, n) ==
    /\ Build(n, d, K) /\ Kept(m, n, K \cup {p})
    /\ \A k, l \in Index :
          /\ At(n.entry, d, k, l) = IF k = a[1] /\ l = a[2] THEN p ELSE At(m.entry, d, k, l)
          /\ Sees(n, d, k, l) = IF k = a[1] /\ l = a[2] THEN m.data[p] ELSE Sees(m, d, k, l)
    /\ n.entry[d][a[1]] \in Pages
    /\ \A k \in Index : k # a[1] => n.entry[d][k] = m.entry[d][k]

LEMMA InsertBuilds ==
    ASSUME NEW m, NEW d, NEW K \in SUBSET Pages, NEW p \in Pages \ K,
           Build(m, d, K \cup {p}), NEW a \in Addresses, page_insert(m, d, p, a).ok = TRUE
    PROVE  Inserted(m, d, K, p, a, page_insert(m, d, p, a))
<1> DEFINE w == pgdir_walk(m, d, a[1])
           t == w.entry[d][a[1]]
           v == [w EXCEPT !.ref[p] = Up(@)]
           n == [page_remove(v, t, a[2]) EXCEPT !.entry[t][a[2]] = p]
<1>1. a[1] \in Index /\ a[2] \in Index /\ d \in Pages /\ m \in MemType
  BY DEF Addresses, Build, Tree
<1>2. w \in MemType
  BY <1>1, WalkFields DEF Walked
<1>3. w.ok = TRUE /\ page_insert(m, d, p, a) = n
  BY <1>2 DEF page_insert, MemType
<1> HIDE DEF w
<1>4. /\ Build(w, d, K \cup {p}) /\ Kept(m, w, K \cup {p}) /\ SameTree(m, w, d) /\ t \in Pages
      /\ \A k \in Index : k # a[1] => w.entry[d][k] = m.entry[d][k]
  <2> DEFINE i == a[1]
             L == K \cup {p}
  <2>1. L \in SUBSET Pages /\ Build(m, d, L) /\ i \in Index
    BY <1>1
  <2>2. pgdir_walk(m, d, i).ok = TRUE
    BY <1>3 DEF w
  <2> HIDE DEF i, L
  <2>3. Reached(m, d, L, i, pgdir_walk(m, d, i))
    BY <2>1, <2>2, WalkBuilds
  <2>4. QED BY <2>3 DEF w, i, L, Reached
<1>5. /\ v \in MemType /\ v.entry = w.entry /\ v.data = w.data /\ v.ok = w.ok
      /\ v.link = w.link /\ v.free = w.free
  BY <1>2, Counts DEF MemType
<1> HIDE DEF v
<1>6. Placed(v, t, a[2], p, n)
  BY <1>1, <1>4, <1>5, PlaceFields
<1> HIDE DEF n
<1>7. PICK F \in SUBSET Pages : Apart(w, d, K \cup {p}, F)
  BY <1>4 DEF Build
<1> DEFINE q == w.entry[t][a[2]]
<1>8. /\ n \in MemType /\ n.ok = TRUE /\ n.data = w.data
      /\ \A l \in Index : n.entry[t][l] = IF l = a[2] THEN p ELSE w.entry[t][l]
      /\ \A x \in Pages \ {t} : n.entry[x] = w.entry[x]
      /\ \/ n.link = w.link /\ n.free = w.free
         \/ q \in Pages /\ n.link = [w.link EXCEPT ![q] = w.free] /\ n.free = q
  <2>1. /\ n \in MemType /\ n.ok = v.ok /\ n.data = v.data
        /\ \A l \in Index : n.entry[t][l] = IF l = a[2] THEN p ELSE v.entry[t][l]
        /\ \A x \in Pages \ {t} : n.entry[x] = v.entry[x]
        /\ \/ n.link = v.link /\ n.free = v.free
           \/ /\ v.entry[t][a[2]] \in Pages
              /\ n.link = [v.link EXCEPT ![v.entry[t][a[2]]] = v.free]
              /\ n.free = v.entry[t][a[2]]
    BY <1>6 DEF Placed
  <2> HIDE DEF t
  <2>2. QED BY <1>3, <1>5, <2>1
<1>9. w.entry \in Entries /\ Tree(w.entry, d) /\ p \notin Own(w.entry, d)
  BY <1>2, <1>4, <1>7 DEF Build, MemType, Apart
<1>10. /\ Tree(n.entry, d) /\ Own(n.entry, d) \subseteq (Own(w.entry, d) \ {q}) \cup {p}
       /\ n.entry[d] = w.entry[d] /\ t \in Own(w.entry, d)
       /\ \A k, l \in Index :
             At(n.entry, d, k, l) = IF k = a[1] /\ l = a[2] THEN p ELSE At(w.entry, d, k, l)
  <2> DEFINE en == w.entry
             fn == n.entry
  <2>1. /\ \A l \in Index : fn[t][l] = IF l = a[2] THEN p ELSE en[t][l]
        /\ \A x \in Pages \ {t} : fn[x] = en[x]
        /\ en \in Entries /\ Tree(en, d) /\ p \in Pages \ Own(en, d)
        /\ t \in Pages /\ en[d][a[1]] = t
    <3>1. /\ en \in Entries /\ Tree(en, d) /\ p \in Pages \ Own(en, d)
      BY <1>9
    <3>2. t \in Pages /\ en[d][a[1]] = t
      BY <1>4
    <3> HIDE DEF t
    <3>3. /\ \A l \in Index : fn[t][l] = IF l = a[2] THEN p ELSE en[t][l]
          /\ \A x \in Pages \ {t} : fn[x] = en[x]
      BY <1>8
    <3>4. QED BY <3>1, <3>2, <3>3
  <2>2. q = en[t][a[2]]
    OBVIOUS
  <2> HIDE DEF en, fn, q
  <2>3. /\ Tree(fn, d) /\ Own(fn, d) \subseteq (Own(en, d) \ {q}) \cup {p}
        /\ fn[d] = en[d] /\ t \in Own(en, d)
        /\ \A k, l \in Index :
              At(fn, d, k, l) = IF k = a[1] /\ l = a[2] THEN p ELSE At(en, d, k, l)
    <3> DEFINE i == a[1]
               j == a[2]
    <3>1. /\ i \in Index /\ j \in Index /\ d \in Pages /\ t \in Pages /\ en[d][i] = t
          /\ en \in Entries /\ Tree(en, d) /\ p \in Pages \ Own(en, d)
          /\ \A l \in Index : fn[t][l] = IF l = j THEN p ELSE en[t][l]
          /\ \A x \in Pages \ {t} : fn[x] = en[x]
      BY <1>1, <2>1
    <3> HIDE DEF i, j, t
    <3>2. /\ Tree(fn, d) /\ Own(fn, d) \subseteq (Own(en, d) \ {en[t][j]}) \cup {p}
          /\ fn[d] = en[d] /\ t \in Own(en, d)
          /\ \A k, l \in Index :
                At(fn, d, k, l) = IF k = i /\ l = j THEN p ELSE At(en, d, k, l)
      BY <3>1, TreePage
    <3>3. QED BY <2>2, <3>2 DEF i, j
  <2>4. QED BY <2>3 DEF en, fn
<1>11. \E G \in SUBSET Pages : Apart(n, d, K, G)
  <2>1. CASE n.link = w.link /\ n.free = w.free
    <3>1. Apart(n, d, K, F)
      BY <1>7, <1>10, <2>1 DEF Apart
    <3>2. QED BY <3>1
  <2>2. CASE /\ q \in Pages /\ n.link = [w.link EXCEPT ![q] = w.free] /\ n.free = q
    <3>1. At(w.entry, d, a[1], a[2]) = q
      BY <1>4, Constants DEF At
    <3>2. q \in Own(w.entry, d)
      BY <1>1, <2>2, <3>1, OwnOf, Constants
    <3>3. q \notin F /\ q \notin K /\ q # p
      BY <1>7, <1>9, <3>2 DEF Apart
    <3>4. w.link \in [Pages -> Pages \cup {Nil}] /\ IsList(w.link, w.free, F)
      BY <1>2, <1>7 DEF MemType, Apart
    <3>5. IsList(n.link, n.free, F \cup {q})
      <4> DEFINE link == w.link
                 head == w.free
      <4>1. link \in [Pages -> Pages \cup {Nil}] /\ IsList(link, head, F)
        BY <3>4
      <4> HIDE DEF link, head, q
      <4>2. IsList([link EXCEPT ![q] = head], q, F \cup {q})
        BY <2>2, <3>3, <4>1, ListPush, Constants
      <4>3. QED BY <2>2, <4>2 DEF link, head
    <3>6. Apart(n, d, K, F \cup {q})
      BY <1>7, <1>10, <3>2, <3>3, <3>5 DEF Apart
    <3>7. QED BY <2>2, <3>6
  <2>3. QED BY <1>8, <2>1, <2>2
<1>12. Build(n, d, K)
  BY <1>8, <1>10, <1>11 DEF Build
<1>13. Kept(m, n, K \cup {p})
  <2>1. t \notin K \cup {p}
    BY <1>7, <1>10 DEF Apart
  <2>2. ASSUME NEW x \in K \cup {p} PROVE n.entry[x] = m.entry[x] /\ n.data[x] = m.data[x]
    <3>1. x \in Pages \ {t}
      BY <2>1
    <3>2. n.entry[x] = w.entry[x] /\ n.data[x] = w.data[x]
      BY <1>8, <3>1
    <3>3. w.entry[x] = m.entry[x] /\ w.data[x] = m.data[x]
      BY <1>4 DEF Kept
    <3>4. QED BY <3>2, <3>3
  <2>3. QED BY <2>2 DEF Kept
<1>14. ASSUME NEW k \in Index, NEW l \in Index
       PROVE  /\ At(n.entry, d, k, l) = IF k = a[1] /\ l = a[2] THEN p ELSE At(m.entry, d, k, l)
              /\ Sees(n, d, k, l) = IF k = a[1] /\ l = a[2] THEN m.data[p] ELSE Sees(m, d, k, l)
  <2>1. At(w.entry, d, k, l) = At(m.entry, d, k, l) /\ Sees(w, d, k, l) = Sees(m, d, k, l)
    BY <1>4 DEF SameTree
  <2>2. w.data[p] = m.data[p]
    BY <1>4 DEF Kept
  <2>3. At(n.entry, d, k, l) = IF k = a[1] /\ l = a[2] THEN p ELSE At(m.entry, d, k, l)
    BY <1>10, <2>1
  <2>4. n.data = w.data /\ p # Nil
    BY <1>8, Constants
  <2>5. Sees(n, d, k, l) = IF k = a[1] /\ l = a[2] THEN m.data[p] ELSE Sees(m, d, k, l)
    <3>1. CASE k = a[1] /\ l = a[2]
      BY <2>2, <2>3, <2>4, <3>1 DEF Sees
    <3>2. CASE ~ (k = a[1] /\ l = a[2])
      BY <2>1, <2>3, <2>4, <3>2 DEF Sees
    <3>3. QED BY <3>1, <3>2
  <2>6. QED BY <2>3, <2>5
<1>15. n.entry[d][a[1]] \in Pages /\ \A k \in Index : k # a[1] => n.entry[d][k] = m.entry[d][k]
  BY <1>4, <1>10
<1>16. Inserted(m, d, K, p, a, n)
  BY <1>12, <1>13, <1>14, <1>15 DEF Inserted
<1>17. QED BY <1>3, <1>16
-----------------------------------------------------------------------------
(***************************************************************************)
(* Loading a program into directory d                                      *)
(***************************************************************************)

LEMMA InsertType ==
    ASSUME NEW m \in MemType, NEW d \in Pages, NEW p \in Pages, NEW a \in Addresses
    PROVE  page_insert(m, d, p, a) \in MemType
<1> DEFINE w == pgdir_walk(m, d, a[1])
           t == w.entry[d][a[1]]
           v == [w EXCEPT !.ref[p] = Up(@)]
<1>1. a[1] \in Index /\ a[2] \in Index
  BY DEF Addresses
<1>2. Walked(m, d, a[1], w)
  BY <1>1, WalkFields
<1> HIDE DEF w
<1>3. w \in MemType /\ (w.ok = TRUE => t \in Pages)
  <2>1. m.entry[d][a[1]] \in Pages \cup {Nil}
    BY <1>1 DEF MemType, Entries
  <2>2. QED BY <1>2, <2>1 DEF Walked
<1>4. v \in MemType
  BY <1>3, Counts DEF MemType
<1>5. CASE w.ok = TRUE
  <2>1. page_insert(m, d, p, a) = [page_remove(v, t, a[2]) EXCEPT !.entry[t][a[2]] = p]
    BY <1>5 DEF page_insert, w
  <2> HIDE DEF v, t
  <2>2. Placed(v, t, a[2], p, [page_remove(v, t, a[2]) EXCEPT !.entry[t][a[2]] = p])
    BY <1>1, <1>3, <1>4, <1>5, PlaceFields
  <2>3. QED BY <2>1, <2>2 DEF Placed
<1>6. CASE w.ok = FALSE
  BY <1>3, <1>6 DEF page_insert, w
<1>7. QED BY <1>3, <1>5, <1>6 DEF MemType

LayoutPage == [at : Addresses, holds : Values]

LEMMA FailedType == \A m \in MemType : Failed(m) \in MemType /\ Failed(m).ok = FALSE
BY DEF MemType, Failed

LEMMA MallocType ==
    ASSUME NEW m \in MemType, NEW d \in Pages, NEW a \in Addresses
    PROVE  mm_malloc(m, d, a) \in MemType
<1> DEFINE w == pgdir_walk(m, d, a[1])
<1>1. w \in MemType
  BY WalkFields DEF Walked, Addresses
<1>2. mm_malloc(m, d, a) =
        IF ~w.ok \/ w.free = Nil THEN Failed(m) ELSE page_insert(page_alloc(w), d, w.free, a)
  BY DEF mm_malloc
<1> HIDE DEF w
<1>3. ASSUME w.free # Nil PROVE page_insert(page_alloc(w), d, w.free, a) \in MemType
  <2>1. page_alloc(w) \in MemType /\ w.free \in Pages
    BY <1>1, <1>3, AllocFields
  <2>2. QED BY <2>1, InsertType
<1>4. QED BY <1>2, <1>3, FailedType

LEMMA LoadPageType ==
    ASSUME NEW m \in MemType, NEW d \in Pages, NEW page \in LayoutPage
    PROVE  LoadPage(m, d, page) \in MemType
<1> DEFINE n == mm_malloc(m, d, page.at)
           x == n.entry[n.entry[d][page.at[1]]][page.at[2]]
<1>1. n \in MemType /\ page.holds \in Values
  BY MallocType DEF LayoutPage
<1>2. LoadPage(m, d, page) = IF ~n.ok THEN n ELSE [n EXCEPT !.data[x] = page.holds]
  BY DEF LoadPage
<1> HIDE DEF n, x
<1>3. [n EXCEPT !.data[x] = page.holds] \in MemType
  BY <1>1 DEF MemType
<1>4. QED BY <1>1, <1>2, <1>3

\* The page is in the tree of d, and holds v.
Mapped(m, d, K, a, v, n) ==
    /\ Build(n, d, K) /\ Kept(m, n, K)
    /\ \A k, l \in Index :
          Sees(n, d, k, l) = IF k = a[1] /\ l = a[2] THEN v ELSE Sees(m, d, k, l)
    /\ \A k \in Index : k # a[1] => n.entry[d][k] = m.entry[d][k]

\* Filling the page that was inserted.
LEMMA FillBuilds ==
    ASSUME NEW m, NEW d, NEW K \in SUBSET Pages, NEW p \in Pages \ K, NEW a \in Addresses,
           NEW n, Inserted(m, d, K, p, a, n), NEW v \in Values
    PROVE  Mapped(m, d, K, a, v, [n EXCEPT !.data[p] = v])
<1> DEFINE o == [n EXCEPT !.data[p] = v]
<1> SUFFICES Mapped(m, d, K, a, v, o)
  OBVIOUS
<1>1. n \in MemType /\ n.ok = TRUE /\ a[1] \in Index /\ a[2] \in Index
  BY DEF Inserted, Build, Addresses
<1>2. /\ o \in MemType /\ o.ok = n.ok /\ o.link = n.link /\ o.free = n.free
      /\ o.entry = n.entry /\ o.data[p] = v
      /\ \A x \in Pages \ {p} : o.data[x] = n.data[x]
  BY <1>1 DEF MemType
<1> HIDE DEF o
<1>3. Build(o, d, K)
  BY <1>1, <1>2 DEF Inserted, Build, Apart
<1>4. Kept(m, o, K)
  BY <1>2 DEF Inserted, Kept
<1>5. /\ At(n.entry, d, a[1], a[2]) = p /\ p # Nil
      /\ Tree(n.entry, d) /\ n.entry \in Entries /\ d \in Pages
  BY <1>1, Constants DEF Inserted, Build, MemType, Tree
<1>6. ASSUME NEW k \in Index, NEW l \in Index
      PROVE  Sees(o, d, k, l) = IF k = a[1] /\ l = a[2] THEN v ELSE Sees(m, d, k, l)
  <2>1. CASE k = a[1] /\ l = a[2]
    BY <1>2, <1>5, <2>1 DEF Sees
  <2>2. CASE ~ (k = a[1] /\ l = a[2])
    <3>1. At(n.entry, d, k, l) # p
      BY <1>1, <1>5, <2>2 DEF Tree
    <3>2. At(n.entry, d, k, l) \in Pages \cup {Nil}
      BY <1>5 DEF At, Entries
    <3>3. Sees(o, d, k, l) = Sees(n, d, k, l)
      BY <1>2, <3>1, <3>2 DEF Sees
    <3>4. Sees(n, d, k, l) = Sees(m, d, k, l)
      BY <2>2 DEF Inserted
    <3>5. QED BY <2>2, <3>3, <3>4
  <2>3. QED BY <2>1, <2>2
<1>7. \A k \in Index : k # a[1] => o.entry[d][k] = m.entry[d][k]
  BY <1>2 DEF Inserted
<1>8. QED BY <1>3, <1>4, <1>6, <1>7 DEF Mapped

\* One page of a program is mapped and read.
LEMMA LoadPageBuilds ==
    ASSUME NEW m, NEW d, NEW K \in SUBSET Pages, Build(m, d, K), NEW page \in LayoutPage,
           LoadPage(m, d, page).ok = TRUE
    PROVE  Mapped(m, d, K, page.at, page.holds, LoadPage(m, d, page))
<1> DEFINE a == page.at
           i == a[1]
           w == pgdir_walk(m, d, i)
           p == w.free
           u == page_alloc(w)
           n == page_insert(u, d, p, a)
<1>1. /\ a \in Addresses /\ i \in Index /\ a[2] \in Index /\ page.holds \in Values
      /\ m \in MemType /\ d \in Pages
  BY DEF LayoutPage, Addresses, Build, Tree
<1>0. w \in MemType
  <2>1. Walked(m, d, i, w)
    BY <1>1, WalkFields
  <2> HIDE DEF w
  <2>2. QED BY <2>1 DEF Walked
<1>2. w.ok = TRUE /\ p # Nil
  <2>2. ~ w.ok \/ p = Nil => mm_malloc(m, d, a) = Failed(m)
    BY DEF mm_malloc
  <2>3. ~ mm_malloc(m, d, a).ok => LoadPage(m, d, page) = mm_malloc(m, d, a)
    BY DEF LoadPage
  <2>4. ~ Failed(m).ok
    BY <1>1, FailedType
  <2>5. ~ (~ w.ok \/ p = Nil)
    BY <2>2, <2>3, <2>4
  <2>6. QED BY <1>0, <2>5 DEF MemType
<1>3. /\ LoadPage(m, d, page).ok = n.ok
      /\ LoadPage(m, d, page) =
            IF ~ n.ok THEN n ELSE [n EXCEPT !.data[n.entry[n.entry[d][i]][a[2]]] = page.holds]
  <2>1. mm_malloc(m, d, a) = n
    BY <1>2 DEF mm_malloc
  <2>2. n \in MemType
    <3>1. u \in MemType /\ p \in Pages
      BY <1>0, <1>2, AllocFields
    <3>2. QED BY <1>1, <3>1, InsertType
  <2>3. LoadPage(m, d, page) =
            IF ~ n.ok THEN n ELSE [n EXCEPT !.data[n.entry[n.entry[d][i]][a[2]]] = page.holds]
    BY <2>1 DEF LoadPage
  <2> HIDE DEF n
  <2>4. QED BY <2>2, <2>3 DEF MemType
<1>4. Reached(m, d, K, i, w)
  BY <1>1, <1>2, WalkBuilds
<1> HIDE DEF w
<1>5. /\ u \in MemType /\ p \in Pages /\ u.link = w.link /\ u.free = w.link[p] /\ u.ok = w.ok
      /\ \A x \in Pages \ {p} : u.entry[x] = w.entry[x] /\ u.data[x] = w.data[x]
  <2>1. w \in MemType
    BY <1>4 DEF Reached, Build
  <2>2. /\ u \in MemType /\ p \in Pages /\ u.link = w.link /\ u.free = w.link[p] /\ u.ok = w.ok
        /\ u.entry = [w.entry EXCEPT ![p] = Empty] /\ u.data = [w.data EXCEPT ![p] = 0]
    BY <1>2, <2>1, AllocFields
  <2> HIDE DEF u, p
  <2>3. QED BY <2>1, <2>2 DEF MemType, Entries
<1> HIDE DEF u
<1>6. /\ p \in Pages \ K /\ Build(u, d, K \cup {p}) /\ Kept(w, u, K)
      /\ u.entry[d] = w.entry[d] /\ SameTree(w, u, d)
  <2>1. Build(w, d, K)
    BY <1>4 DEF Reached
  <2>2. QED BY <1>2, <1>5, <2>1, TakeBuilds
<1> HIDE DEF p
<1>7. n.ok = TRUE
  BY <1>3
<1>8. Inserted(u, d, K, p, a, n)
  BY <1>1, <1>6, <1>7, InsertBuilds
<1> HIDE DEF n
<1>9. n.entry[n.entry[d][i]][a[2]] = p
  <2>1. At(n.entry, d, i, a[2]) = p /\ n.entry[d][i] \in Pages
    BY <1>1, <1>8 DEF Inserted
  <2>2. QED BY <2>1, Constants DEF At
<1> DEFINE o == [n EXCEPT !.data[p] = page.holds]
<1>10. LoadPage(m, d, page) = o
  BY <1>3, <1>7, <1>9
<1>11. Mapped(u, d, K, a, page.holds, o)
  BY <1>1, <1>6, <1>8, FillBuilds
<1> HIDE DEF o
<1>12. Kept(m, o, K)
  BY <1>4, <1>6, <1>11 DEF Kept, Reached, Mapped
<1>13. ASSUME NEW k \in Index, NEW l \in Index
       PROVE  Sees(o, d, k, l) = IF k = i /\ l = a[2] THEN page.holds ELSE Sees(m, d, k, l)
  BY <1>4, <1>6, <1>11 DEF Reached, Mapped, SameTree
<1>14. ASSUME NEW k \in Index, k # i PROVE o.entry[d][k] = m.entry[d][k]
  BY <1>4, <1>6, <1>11, <1>14 DEF Reached, Mapped
<1>15. Mapped(m, d, K, a, page.holds, o)
  BY <1>11, <1>12, <1>13, <1>14 DEF Mapped
<1>16. QED BY <1>10, <1>15

\* load_icode goes through the pages one by one; g[k] is after k of them.
Loads(m, d, g) ==
    /\ g[0] = m
    /\ \A k \in 1 .. Len(Layout) :
          g[k] = IF ~ g[k - 1].ok THEN g[k - 1] ELSE LoadPage(g[k - 1], d, Layout[k])

LEMMA LayoutType == Len(Layout) \in Nat /\ \A k \in 1 .. Len(Layout) : Layout[k] \in LayoutPage
<1>1. Layout \in Seq(LayoutPage)
  BY MemoryAssumption DEF LayoutPage
<1>2. QED BY <1>1

LEMMA LoadRuns ==
    ASSUME NEW m \in MemType, NEW d \in Pages
    PROVE  \E g \in [0 .. Len(Layout) -> MemType] :
              Loads(m, d, g) /\ load_icode(m, d) = g[Len(Layout)]
<1> DEFINE n == Len(Layout)
           G == [k \in 1 .. n |->
                    [x \in MemType |-> IF ~ x.ok THEN x ELSE LoadPage(x, d, Layout[k])]]
           F(k, f) == IF k = 0 THEN m
                      ELSE IF ~ f[k - 1].ok THEN f[k - 1] ELSE LoadPage(f[k - 1], d, Layout[k])
           s == CHOOSE f : f = [k \in 0 .. n |-> F(k, f)]
<1>1. n \in Nat
  BY LayoutType
<1>2. G \in [1 .. n -> [MemType -> MemType]]
  BY LoadPageType, LayoutType
<1>3. PICK g : Repeats(g, n, MemType, G, m)
  <2> HIDE DEF G, n
  <2>1. QED BY <1>1, <1>2, Repeated
<1>4. g \in [0 .. n -> MemType] /\ g[0] = m /\ \A k \in 1 .. n : g[k] = G[k][g[k - 1]]
  BY <1>3 DEF Repeats
<1>5. \A k \in 1 .. n :
         k - 1 \in 0 .. n /\ g[k - 1] \in MemType
  BY <1>1, <1>4
<1>6. Loads(m, d, g)
  BY <1>4, <1>5 DEF Loads
<1>7. g = [k \in 0 .. n |-> F(k, g)]
  <2>1. \A k \in 0 .. n : g[k] = F(k, g)
    <3>1. \A k \in 0 .. n : k = 0 \/ k \in 1 .. n
      BY <1>1
    <3>2. QED BY <1>6, <3>1 DEF Loads
  <2> HIDE DEF F
  <2>2. QED BY <1>4, <2>1
<1>8. s = [k \in 0 .. n |-> F(k, s)]
  <2> HIDE DEF F
  <2>1. QED BY <1>7
<1>9. load_icode(m, d) = s[n]
  BY DEF load_icode
<1> HIDE DEF s
<1>10. \A k \in 0 .. n : s[k] = g[k]
  <2> DEFINE T == {k \in 0 .. n : s[k] = g[k]}
  <2>1. 0 \in T
    BY <1>1, <1>4, <1>8
  <2>2. ASSUME NEW k \in 1 .. n, k - 1 \in T PROVE k \in T
    <3>1. k \in 0 .. n /\ k # 0 /\ s[k - 1] = g[k - 1]
      BY <1>1, <2>2
    <3>2. s[k] = F(k, s)
      BY <1>8, <3>1
    <3>3. s[k] = IF ~ s[k - 1].ok THEN s[k - 1] ELSE LoadPage(s[k - 1], d, Layout[k])
      BY <3>1, <3>2
    <3>4. g[k] = IF ~ g[k - 1].ok THEN g[k - 1] ELSE LoadPage(g[k - 1], d, Layout[k])
      BY <1>6 DEF Loads
    <3>5. s[k] = g[k]
      BY <3>1, <3>3, <3>4
    <3>6. QED BY <3>1, <3>5
  <2> HIDE DEF T, n
  <2>3. \A k \in 0 .. n : k \in T
    BY <1>1, <2>1, <2>2, UpTo
  <2>4. QED BY <2>3 DEF T
<1>11. QED BY <1>1, <1>4, <1>6, <1>9, <1>10

\* What k pages of the program put at an address: the last one there, or nothing.
Shows(k, i, j, v) ==
    \/ \E l \in 1 .. k :
          /\ Layout[l].at = <<i, j>> /\ v = Layout[l].holds
          /\ \A r \in 1 .. k : Layout[r].at = <<i, j>> => r <= l
    \/ v = Nil /\ \A l \in 1 .. k : Layout[l].at # <<i, j>>

Loaded(m, d, K, n) ==
    /\ n \in MemType
    /\ n.ok = TRUE => /\ Build(n, d, K) /\ Kept(m, n, K)
                      /\ \A i, j \in Index : Sees(n, d, i, j) = Image[<<i, j>>]

LEMMA LoadBuilds ==
    ASSUME NEW m, NEW d, NEW K \in SUBSET Pages, Build(m, d, K),
           \A i, j \in Index : Sees(m, d, i, j) = Nil
    PROVE  Loaded(m, d, K, load_icode(m, d))
<1> DEFINE len == Len(Layout)
           Fine(k, n) == /\ Build(n, d, K) /\ Kept(m, n, K)
                         /\ \A i, j \in Index : Shows(k, i, j, Sees(n, d, i, j))
<1>1. m \in MemType /\ d \in Pages /\ len \in Nat
  BY LayoutType DEF Build, Tree
<1>2. PICK g \in [0 .. len -> MemType] : Loads(m, d, g) /\ load_icode(m, d) = g[len]
  BY <1>1, LoadRuns
<1> DEFINE T == {k \in 0 .. len : g[k].ok => Fine(k, g[k])}
<1>3. 0 \in T
  <2>1. g[0] = m /\ 0 \in 0 .. len
    BY <1>1, <1>2 DEF Loads
  <2>2. Fine(0, m)
    BY DEF Kept, Shows
  <2>3. QED BY <2>1, <2>2
<1>4. ASSUME NEW k \in 1 .. len, k - 1 \in T PROVE k \in T
  <2> SUFFICES ASSUME g[k].ok PROVE Fine(k, g[k])
    BY <1>1
  <2>1. g[k] = IF ~ g[k - 1].ok THEN g[k - 1] ELSE LoadPage(g[k - 1], d, Layout[k])
    BY <1>2 DEF Loads
  <2>2. g[k - 1].ok /\ Fine(k - 1, g[k - 1]) /\ g[k] = LoadPage(g[k - 1], d, Layout[k])
    BY <1>4, <2>1
  <2> DEFINE x == g[k - 1]
             y == g[k]
             page == Layout[k]
  <2>3. Build(x, d, K) /\ Kept(m, x, K) /\ page \in LayoutPage /\ y.ok = TRUE
    BY <1>1, <1>2, <2>2, LayoutType DEF MemType
  <2>4. y = LoadPage(x, d, page)
    BY <2>2
  <2> HIDE DEF x, y, page
  <2>5. Mapped(x, d, K, page.at, page.holds, y)
    BY <2>3, <2>4, LoadPageBuilds
  <2>6. Build(y, d, K) /\ Kept(m, y, K)
    BY <2>3, <2>5 DEF Mapped, Kept
  <2>7. ASSUME NEW i \in Index, NEW j \in Index PROVE Shows(k, i, j, Sees(y, d, i, j))
    <3>1. /\ Shows(k - 1, i, j, Sees(x, d, i, j))
          /\ Sees(y, d, i, j) =
                IF i = page.at[1] /\ j = page.at[2] THEN page.holds ELSE Sees(x, d, i, j)
      BY <2>2, <2>5 DEF x, Mapped
    <3>2. page.at = <<page.at[1], page.at[2]>>
      BY <2>3 DEF LayoutPage, Addresses
    <3>3. \A l \in 1 .. k : l = k \/ l \in 1 .. k - 1
      BY <1>1
    <3>4. k \in 1 .. k /\ \A l \in 1 .. k - 1 : l \in 1 .. k /\ l <= k
      BY <1>1
    <3>5. CASE page.at = <<i, j>>
      <4>1. Sees(y, d, i, j) = page.holds
        BY <3>1, <3>5
      <4>2. QED BY <3>4, <3>5, <4>1 DEF Shows, page
    <3>6. CASE page.at # <<i, j>>
      <4>1. Sees(y, d, i, j) = Sees(x, d, i, j)
        BY <3>1, <3>2, <3>6
      <4>2. QED BY <3>1, <3>3, <3>4, <3>6, <4>1 DEF Shows, page
    <3>7. QED BY <3>5, <3>6
  <2>8. QED BY <2>6, <2>7 DEF y
<1> DEFINE n == g[len]
<1>5. (n.ok = TRUE => Fine(len, n)) /\ load_icode(m, d) = n /\ n \in MemType
  <2> HIDE DEF T, len
  <2>1. \A k \in 0 .. len : k \in T
    BY <1>1, <1>3, <1>4, UpTo
  <2>2. len \in T
    BY <1>1, <2>1
  <2>3. len \in 0 .. len
    BY <1>1 DEF len
  <2>4. QED BY <1>2, <2>2, <2>3 DEF T
<1> HIDE DEF n
<1>6. ASSUME n.ok = TRUE, NEW i \in Index, NEW j \in Index PROVE Sees(n, d, i, j) = Image[<<i, j>>]
  <2> DEFINE a == <<i, j>>
             mapped == {k \in DOMAIN Layout : Layout[k].at = a}
             last == CHOOSE k \in mapped : \A l \in mapped : l <= k
  <2>1. DOMAIN Layout = 1 .. len
    BY MemoryAssumption
  <2>2. Image[a] = IF mapped = {} THEN Nil ELSE Layout[last].holds
    BY DEF Image, Addresses
  <2>3. Shows(len, i, j, Sees(n, d, i, j))
    BY <1>5, <1>6
  <2>4. CASE \E l \in 1 .. len :
                /\ Layout[l].at = a /\ Sees(n, d, i, j) = Layout[l].holds
                /\ \A r \in 1 .. len : Layout[r].at = a => r <= l
    <3>1. PICK l \in 1 .. len :
                /\ Layout[l].at = a /\ Sees(n, d, i, j) = Layout[l].holds
                /\ \A r \in 1 .. len : Layout[r].at = a => r <= l
      BY <2>4
    <3>2. l \in mapped /\ \A r \in mapped : r <= l
      BY <2>1, <3>1
    <3>3. mapped \subseteq Int
      BY <1>1, <2>1
    <3>4. last = l
      <4> HIDE DEF mapped
      <4>1. last \in mapped /\ \A r \in mapped : r <= last
        BY <3>2
      <4> HIDE DEF last
      <4>2. l <= last /\ last <= l /\ l \in Int /\ last \in Int
        BY <3>2, <3>3, <4>1
      <4>3. QED BY <4>2
    <3>5. QED BY <2>2, <3>1, <3>2, <3>4
  <2>5. CASE Sees(n, d, i, j) = Nil /\ \A l \in 1 .. len : Layout[l].at # a
    BY <2>1, <2>2, <2>5
  <2>6. QED BY <2>3, <2>4, <2>5 DEF Shows
<1>7. QED BY <1>5, <1>6 DEF Loaded

-----------------------------------------------------------------------------
(***************************************************************************)
(* Copying directory p, whose tree is in K, to directory c                 *)
(***************************************************************************)

Copied(m, c, K, a, v, n) == n \in MemType /\ (n.ok = TRUE => Mapped(m, c, K, a, v, n))

LEMMA CopyPageBuilds ==
    ASSUME NEW m, NEW c, NEW K \in SUBSET Pages, Build(m, c, K), NEW a \in Addresses,
           NEW table \in K, m.entry[table][a[2]] \in K
    PROVE  Copied(m, c, K, a, m.data[m.entry[table][a[2]]], CopyPage(m, table, c, a))
<1> DEFINE p == m.free
           q == m.entry[table][a[2]]
           v == m.data[q]
           u == [page_alloc(m) EXCEPT !.ref[p] = 1]
           n == page_insert(u, c, p, a)
<1>1. m \in MemType /\ c \in Pages /\ q \in Pages /\ table \in Pages /\ v \in Values
  BY DEF Build, Tree, MemType
<1>2. CASE p = Nil
  <2>1. CopyPage(m, table, c, a) = Failed(m)
    BY <1>2 DEF CopyPage
  <2>2. QED BY <1>1, <2>1, FailedType DEF Copied
<1>3. CASE p # Nil
  <2>1. /\ u \in MemType /\ p \in Pages /\ u.link = m.link /\ u.free = m.link[p] /\ u.ok = m.ok
        /\ \A x \in Pages \ {p} : u.entry[x] = m.entry[x] /\ u.data[x] = m.data[x]
    <3>1. 1 \in 0 .. RefMod - 1
      BY MemoryAssumption
    <3>2. /\ u \in MemType /\ p \in Pages /\ u.link = m.link /\ u.free = m.link[p] /\ u.ok = m.ok
          /\ u.entry = [m.entry EXCEPT ![p] = Empty] /\ u.data = [m.data EXCEPT ![p] = 0]
      BY <1>1, <1>3, <3>1, TakenFields
    <3> HIDE DEF u, p
    <3>3. QED BY <1>1, <3>2 DEF MemType, Entries
  <2>2. CopyPage(m, table, c, a) =
           IF ~ n.ok THEN n ELSE [n EXCEPT !.data[p] = n.data[n.entry[table][a[2]]]]
    BY <1>3 DEF CopyPage
  <2> HIDE DEF u
  <2>3. n \in MemType
    BY <1>1, <2>1, InsertType
  <2>4. /\ p \in Pages \ K /\ Build(u, c, K \cup {p}) /\ Kept(m, u, K)
        /\ u.entry[c] = m.entry[c] /\ SameTree(m, u, c)
    <3>1. /\ Build(m, c, K) /\ m.free # Nil /\ u \in MemType
          /\ u.link = m.link /\ u.free = m.link[m.free] /\ u.ok = m.ok
          /\ \A x \in Pages \ {m.free} : u.entry[x] = m.entry[x] /\ u.data[x] = m.data[x]
      BY <1>3, <2>1
    <3>2. QED BY ONLY <3>1, TakeBuilds, K \in SUBSET Pages
  <2>5. CASE ~ n.ok
    <3> HIDE DEF n
    <3>1. QED BY <2>2, <2>3, <2>5 DEF Copied
  <2>6. CASE n.ok
    <3>1. n.ok = TRUE
      BY <2>3, <2>6 DEF MemType
    <3>2. Inserted(u, c, K, p, a, n)
      BY <2>4, <3>1, InsertBuilds
    <3> HIDE DEF n
    <3>3. n.entry[table] = m.entry[table] /\ n.data[q] = v
      BY <2>4, <3>2 DEF Kept, Inserted
    <3> DEFINE o == [n EXCEPT !.data[p] = v]
    <3>4. CopyPage(m, table, c, a) = o
      BY <2>2, <2>6, <3>3
    <3>5. Mapped(u, c, K, a, v, o)
      BY <1>1, <2>4, <3>2, FillBuilds
    <3> HIDE DEF o, v
    <3>6. Kept(m, o, K)
      BY <2>4, <3>5 DEF Kept, Mapped
    <3>7. \A k, l \in Index :
             Sees(o, c, k, l) = IF k = a[1] /\ l = a[2] THEN v ELSE Sees(m, c, k, l)
      BY <2>4, <3>5 DEF Mapped, SameTree
    <3>8. \A k \in Index : k # a[1] => o.entry[c][k] = m.entry[c][k]
      BY <2>4, <3>5 DEF Mapped
    <3>9. Mapped(m, c, K, a, v, o) /\ o \in MemType
      BY <3>5, <3>6, <3>7, <3>8 DEF Mapped, Build
    <3>10. QED BY <3>4, <3>9 DEF Copied, v
  <2>7. QED BY <2>5, <2>6
<1>4. QED BY <1>2, <1>3

\* Entry i of directory c is as that of p.
TableCopied(m, p, c, K, i, n) ==
    /\ n \in MemType
    /\ n.ok = TRUE =>
          /\ Build(n, c, K) /\ Kept(m, n, K)
          /\ \A k \in Index : k # i => n.entry[c][k] = m.entry[c][k]
          /\ \A k, l \in Index :
                Sees(n, c, k, l) = IF k = i THEN Sees(m, p, k, l) ELSE Sees(m, c, k, l)

\* Before page j of the table is copied.
PartCopied(m, p, c, K, i, j, n) ==
    /\ n \in MemType
    /\ n.ok = TRUE =>
          /\ Build(n, c, K) /\ Kept(m, n, K)
          /\ \A k \in Index : k # i => n.entry[c][k] = m.entry[c][k]
          /\ \A k, l \in Index :
                Sees(n, c, k, l) = IF k = i /\ l < j THEN Sees(m, p, k, l) ELSE Sees(m, c, k, l)

LEMMA CopyTableStep ==
    ASSUME NEW m, NEW c, NEW K \in SUBSET Pages, Build(m, c, K),
           NEW p \in K, Own(m.entry, p) \subseteq K,
           NEW i \in Index, m.entry[p][i] # Nil, m.entry[c][i] = Nil,
           NEW j \in Index, NEW x, PartCopied(m, p, c, K, i, j, x)
    PROVE  PartCopied(m, p, c, K, i, j + 1,
                      IF x.ok /\ x.entry[m.entry[p][i]][j] # Nil
                      THEN CopyPage(x, m.entry[p][i], c, <<i, j>>) ELSE x)
<1> DEFINE table == m.entry[p][i]
           q == m.entry[table][j]
<1>1. /\ m \in MemType /\ c \in Pages /\ p \in Pages /\ i \in Index /\ j \in Int
      /\ \A l \in Index : l \in Int
  BY DEF Build, Tree, Index
<1>2. table \in K /\ At(m.entry, p, i, j) = q
  BY OwnOf DEF At
<1>3. q # Nil => q \in K
  BY <1>2, OwnOf
<1>4. \A k, l \in Index : k = i => Sees(m, c, k, l) = Nil
  BY DEF Sees, At
<1>5. Sees(m, p, i, j) = IF q = Nil THEN Nil ELSE m.data[q]
  BY <1>2 DEF Sees
<1> HIDE DEF table, q
<1>6. CASE x.ok /\ x.entry[table][j] # Nil
  <2> DEFINE y == CopyPage(x, table, c, <<i, j>>)
  <2>1. /\ Build(x, c, K) /\ Kept(m, x, K)
        /\ \A k \in Index : k # i => x.entry[c][k] = m.entry[c][k]
        /\ \A k, l \in Index :
              Sees(x, c, k, l) = IF k = i /\ l < j THEN Sees(m, p, k, l) ELSE Sees(m, c, k, l)
    BY <1>6 DEF PartCopied, MemType
  <2>2. x.entry[table] = m.entry[table]
    BY <1>2, <2>1 DEF Kept
  <2>3. x.entry[table][j] = q /\ q \in K
    BY <1>3, <1>6, <2>2 DEF q
  <2>4. x.data[q] = m.data[q] /\ Sees(m, p, i, j) = m.data[q]
    BY <1>3, <1>5, <2>1, <2>3, Constants DEF Kept
  <2> DEFINE a == <<i, j>>
  <2>5. a \in Addresses /\ a[1] = i /\ a[2] = j
    BY DEF Addresses
  <2>6. Copied(x, c, K, a, x.data[x.entry[table][a[2]]], CopyPage(x, table, c, a))
    <3>1. x.entry[table][a[2]] \in K
      BY <2>3, <2>5
    <3> HIDE DEF a
    <3>2. QED BY <1>2, <2>1, <2>5, <3>1, CopyPageBuilds
  <2>7. Copied(x, c, K, a, m.data[q], y)
    BY <2>3, <2>4, <2>6
  <2> HIDE DEF y
  <2>8. y \in MemType
    BY <2>7 DEF Copied
  <2>9. ASSUME y.ok = TRUE
        PROVE  /\ Build(y, c, K) /\ Kept(m, y, K)
               /\ \A k \in Index : k # i => y.entry[c][k] = m.entry[c][k]
               /\ \A k, l \in Index :
                     Sees(y, c, k, l) =
                        IF k = i /\ l < j + 1 THEN Sees(m, p, k, l) ELSE Sees(m, c, k, l)
    <3>1. Mapped(x, c, K, a, m.data[q], y)
      BY <2>7, <2>9 DEF Copied
    <3>2. /\ Build(y, c, K) /\ Kept(x, y, K)
          /\ \A k, l \in Index :
                Sees(y, c, k, l) = IF k = i /\ l = j THEN m.data[q] ELSE Sees(x, c, k, l)
          /\ \A k \in Index : k # i => y.entry[c][k] = x.entry[c][k]
      BY <2>5, <3>1 DEF Mapped
    <3>3. Kept(m, y, K)
      BY <2>1, <3>2 DEF Kept
    <3>4. \A k \in Index : k # i => y.entry[c][k] = m.entry[c][k]
      BY <2>1, <3>2
    <3>5. ASSUME NEW k \in Index, NEW l \in Index
          PROVE  Sees(y, c, k, l) =
                    IF k = i /\ l < j + 1 THEN Sees(m, p, k, l) ELSE Sees(m, c, k, l)
      <4>1. l < j + 1 <=> l < j \/ l = j
        BY <1>1
      <4>2. ~ (l < j /\ l = j)
        BY <1>1
      <4>3. QED BY <2>1, <2>4, <3>2, <4>1, <4>2
    <3>6. QED BY <3>2, <3>3, <3>4, <3>5
  <2>10. PartCopied(m, p, c, K, i, j + 1, y)
    BY <2>8, <2>9 DEF PartCopied
  <2>11. QED BY <1>6, <2>10 DEF y, table
<1>7. CASE ~ (x.ok /\ x.entry[table][j] # Nil)
  <2>1. x \in MemType
    BY DEF PartCopied
  <2>2. ASSUME x.ok = TRUE
        PROVE  /\ Build(x, c, K) /\ Kept(m, x, K)
               /\ \A k \in Index : k # i => x.entry[c][k] = m.entry[c][k]
               /\ \A k, l \in Index :
                     Sees(x, c, k, l) =
                        IF k = i /\ l < j + 1 THEN Sees(m, p, k, l) ELSE Sees(m, c, k, l)
    <3>1. /\ Build(x, c, K) /\ Kept(m, x, K)
          /\ \A k \in Index : k # i => x.entry[c][k] = m.entry[c][k]
          /\ \A k, l \in Index :
                Sees(x, c, k, l) = IF k = i /\ l < j THEN Sees(m, p, k, l) ELSE Sees(m, c, k, l)
      BY <2>2 DEF PartCopied
    <3>2. x.entry[table] = m.entry[table]
      BY <1>2, <3>1 DEF Kept
    <3>3. q = Nil
      BY <1>7, <2>2, <3>2 DEF q
    <3>4. Sees(m, p, i, j) = Nil /\ Sees(m, c, i, j) = Nil
      BY <1>4, <1>5, <3>3
    <3>5. ASSUME NEW k \in Index, NEW l \in Index
          PROVE  Sees(x, c, k, l) =
                    IF k = i /\ l < j + 1 THEN Sees(m, p, k, l) ELSE Sees(m, c, k, l)
      <4>1. l < j + 1 <=> l < j \/ l = j
        BY <1>1
      <4>2. ~ (l < j /\ l = j)
        BY <1>1
      <4>3. QED BY <3>1, <3>4, <4>1, <4>2
    <3>6. QED BY <3>1, <3>5
  <2>3. PartCopied(m, p, c, K, i, j + 1, x)
    BY <2>1, <2>2 DEF PartCopied
  <2>4. QED BY <1>7, <2>3 DEF table
<1>8. QED BY <1>6, <1>7

LEMMA CopyTableBuilds ==
    ASSUME NEW m, NEW c, NEW K \in SUBSET Pages, Build(m, c, K),
           NEW p \in K, Own(m.entry, p) \subseteq K,
           NEW i \in Index, m.entry[c][i] = Nil
    PROVE  TableCopied(m, p, c, K, i, CopyTable(m, p, c, i))
<1> DEFINE table == m.entry[p][i]
           Step(j, x) == IF x.ok /\ x.entry[table][j - 1] # Nil
                         THEN CopyPage(x, table, c, <<i, j - 1>>) ELSE x
           F(j, f) == IF j = 0 THEN m ELSE Step(j, f[j - 1])
           s == CHOOSE f : f = [j \in 0 .. NENTRIES |-> F(j, f)]
           Part(j, n) == PartCopied(m, p, c, K, i, j, n)
<1>1. m \in MemType /\ m.ok = TRUE
  BY DEF Build
<1>2. \A l \in Index : At(m.entry, c, i, l) = Nil /\ Sees(m, c, i, l) = Nil
  BY DEF Sees, At
<1>3. CASE table = Nil
  <2>1. CopyTable(m, p, c, i) = m
    BY <1>3 DEF CopyTable
  <2>2. \A l \in Index : Sees(m, p, i, l) = Nil
    BY <1>3 DEF Sees, At
  <2>3. TableCopied(m, p, c, K, i, m)
    BY <1>1, <1>2, <2>2 DEF TableCopied, Kept
  <2>4. QED BY <2>1, <2>3
<1>4. CASE table # Nil
  <2> DEFINE G == [j \in 1 .. NENTRIES |->
                     [x \in MemType |-> IF Step(j, x) \in MemType THEN Step(j, x) ELSE x]]
  <2>1. CopyTable(m, p, c, i) = s[NENTRIES]
    BY <1>1, <1>4 DEF CopyTable
  <2> HIDE DEF s
  <2>2. G \in [1 .. NENTRIES -> [MemType -> MemType]]
    <3> HIDE DEF Step
    <3>1. QED OBVIOUS
  <2>3. PICK g : Repeats(g, NENTRIES, MemType, G, m)
    <3> HIDE DEF G
    <3>1. QED BY <1>1, <2>2, Constants, Repeated
  <2>4. /\ g \in [0 .. NENTRIES -> MemType] /\ g[0] = m
        /\ \A j \in 1 .. NENTRIES : g[j] = G[j][g[j - 1]]
    <3> HIDE DEF G
    <3>1. QED BY <2>3 DEF Repeats
  <2>5. \A j \in 1 .. NENTRIES : j - 1 \in Index /\ j - 1 \in 0 .. NENTRIES /\ (j - 1) + 1 = j
    BY Constants DEF Index
  <2>6. ASSUME NEW j \in 1 .. NENTRIES, NEW x, Part(j - 1, x) PROVE Part(j, Step(j, x))
    <3> DEFINE h == j - 1
    <3>1. h \in Index /\ h + 1 = j
      BY <2>5
    <3>2. PartCopied(m, p, c, K, i, h, x)
      BY <2>6
    <3> HIDE DEF h
    <3>3. PartCopied(m, p, c, K, i, h + 1,
                     IF x.ok /\ x.entry[m.entry[p][i]][h] # Nil
                     THEN CopyPage(x, m.entry[p][i], c, <<i, h>>) ELSE x)
      BY <1>4, <3>1, <3>2, CopyTableStep
    <3>4. QED BY <3>1, <3>3 DEF h
  <2> DEFINE T == {j \in 0 .. NENTRIES :
                      Part(j, g[j]) /\ (j # 0 => g[j] = Step(j, g[j - 1]))}
  <2>7. 0 \in T
    <3>1. Part(0, m)
      <4>1. \A l \in Index : ~ (l < 0)
        BY DEF Index
      <4>2. QED BY <1>1, <4>1 DEF PartCopied, Kept
    <3>2. QED BY <2>4, <3>1, Constants
  <2>8. ASSUME NEW j \in 1 .. NENTRIES, j - 1 \in T PROVE j \in T
    <3> HIDE DEF Step, Part
    <3>1. g[j] = G[j][g[j - 1]] /\ g[j - 1] \in MemType /\ j \in 0 .. NENTRIES
      BY <2>4, <2>5
    <3>6. Part(j - 1, g[j - 1])
      BY <2>8
    <3>2. Part(j, Step(j, g[j - 1]))
      BY <2>6, <3>6
    <3>3. Step(j, g[j - 1]) \in MemType
      BY <3>2 DEF Part, PartCopied
    <3>4. g[j] = Step(j, g[j - 1])
      BY <3>1, <3>3
    <3>5. QED BY <3>1, <3>2, <3>4
  <2>9. \A j \in 0 .. NENTRIES : j \in T
    <3> HIDE DEF T
    <3>1. QED BY <2>7, <2>8, Constants, UpTo
  <2>10. g = [j \in 0 .. NENTRIES |-> F(j, g)]
    <3> HIDE DEF Step, Part, G
    <3>1. ASSUME NEW j \in 0 .. NENTRIES PROVE g[j] = F(j, g)
      <4>1. j # 0 => g[j] = Step(j, g[j - 1])
        BY <2>9
      <4>2. QED BY <2>4, <4>1
    <3> HIDE DEF F
    <3>2. QED BY <2>4, <3>1
  <2>11. s = [j \in 0 .. NENTRIES |-> F(j, s)]
    <3> HIDE DEF F, G, Step, T
    <3>1. QED BY <2>10 DEF s
  <2>12. s[NENTRIES] = g[NENTRIES]
    <3> DEFINE U == {j \in 0 .. NENTRIES : s[j] = g[j]}
    <3> HIDE DEF Step, G, T, Part
    <3>1. 0 \in U
      BY <2>4, <2>11, Constants
    <3>2. ASSUME NEW j \in 1 .. NENTRIES, j - 1 \in U PROVE j \in U
      <4>1. j \in 0 .. NENTRIES /\ j # 0 /\ s[j - 1] = g[j - 1]
        BY <3>2
      <4>2. s[j] = Step(j, s[j - 1]) /\ g[j] = Step(j, g[j - 1])
        BY <2>10, <2>11, <4>1
      <4>3. QED BY <4>1, <4>2
    <3> HIDE DEF U
    <3>3. \A j \in 0 .. NENTRIES : j \in U
      BY <3>1, <3>2, Constants, UpTo
    <3>4. QED BY <3>3, Constants DEF U
  <2>13. Part(NENTRIES, s[NENTRIES])
    <3> HIDE DEF Part, Step
    <3>1. NENTRIES \in 0 .. NENTRIES
      BY Constants
    <3>2. Part(NENTRIES, g[NENTRIES])
      BY <2>9, <3>1
    <3>3. QED BY <2>12, <3>2
  <2> DEFINE n == s[NENTRIES]
  <2>14. TableCopied(m, p, c, K, i, n)
    <3>1. \A l \in Index : l < NENTRIES
      BY Constants DEF Index
    <3>2. PartCopied(m, p, c, K, i, NENTRIES, n)
      BY <2>13
    <3> HIDE DEF n
    <3>3. QED BY <3>1, <3>2 DEF PartCopied, TableCopied
  <2>15. QED BY <2>1, <2>14
<1>5. QED BY <1>3, <1>4

\* What is kept is seen as before.
LEMMA KeptSees ==
    ASSUME NEW m, NEW n, NEW K, NEW p \in Pages, Own(m.entry, p) \subseteq K, Kept(m, n, K)
    PROVE  /\ Own(n.entry, p) = Own(m.entry, p) /\ (Tree(m.entry, p) => Tree(n.entry, p))
           /\ \A i, j \in Index : /\ At(n.entry, p, i, j) = At(m.entry, p, i, j)
                                  /\ Sees(n, p, i, j) = Sees(m, p, i, j)
<1> DEFINE en == m.entry
           fn == n.entry
<1>1. \A x \in Own(en, p) : fn[x] = en[x]
  BY DEF Kept
<1> HIDE DEF en, fn
<1>2. /\ Own(fn, p) = Own(en, p) /\ (Tree(en, p) => Tree(fn, p))
      /\ \A i, j \in Index : At(fn, p, i, j) = At(en, p, i, j)
  BY <1>1, TreeFrame
<1>3. ASSUME NEW i \in Index, NEW j \in Index PROVE Sees(n, p, i, j) = Sees(m, p, i, j)
  <2>1. At(en, p, i, j) # Nil => At(en, p, i, j) \in K
    BY OwnOf DEF en
  <2>2. QED BY <1>2, <2>1 DEF Sees, Kept, en, fn
<1>4. QED BY <1>2, <1>3 DEF en, fn

\* Before entry i of directory p is copied.
PartForked(m, p, c, K, i, x) ==
    /\ x \in MemType
    /\ x.ok = TRUE =>
          /\ Build(x, c, K) /\ Kept(m, x, K)
          /\ \A k \in Index : k >= i => x.entry[c][k] = Nil
          /\ \A k, l \in Index : k < i => Sees(x, c, k, l) = Sees(m, p, k, l)

LEMMA ForkStep ==
    ASSUME NEW m, NEW c, NEW K \in SUBSET Pages, NEW p \in K, Own(m.entry, p) \subseteq K,
           NEW i \in Index, NEW x, PartForked(m, p, c, K, i, x)
    PROVE  PartForked(m, p, c, K, i + 1, CopyTable(x, p, c, i))
<1> DEFINE n == CopyTable(x, p, c, i)
<1>1. /\ p \in Pages /\ x \in MemType /\ \A k \in Index : k \in Int
      /\ \A k \in Index : (k < i + 1 <=> k < i \/ k = i) /\ (k >= i + 1 => k >= i /\ k # i)
      /\ i >= i
  BY DEF PartForked, Index
<1>2. CASE x.ok = TRUE
  <2>1. /\ Build(x, c, K) /\ Kept(m, x, K)
        /\ \A k \in Index : k >= i => x.entry[c][k] = Nil
        /\ \A k, l \in Index : k < i => Sees(x, c, k, l) = Sees(m, p, k, l)
    BY <1>2 DEF PartForked
  <2>2. /\ Own(x.entry, p) \subseteq K
        /\ \A k, l \in Index : Sees(x, p, k, l) = Sees(m, p, k, l)
    BY <1>1, <2>1, KeptSees
  <2>3. x.entry[c][i] = Nil
    BY <1>1, <2>1
  <2>4. TableCopied(x, p, c, K, i, n)
    BY <2>1, <2>2, <2>3, CopyTableBuilds
  <2> HIDE DEF n
  <2>5. n \in MemType
    BY <2>4 DEF TableCopied
  <2>6. ASSUME n.ok = TRUE
        PROVE  /\ Build(n, c, K) /\ Kept(m, n, K)
               /\ \A k \in Index : k >= i + 1 => n.entry[c][k] = Nil
               /\ \A k, l \in Index : k < i + 1 => Sees(n, c, k, l) = Sees(m, p, k, l)
    <3>1. /\ Build(n, c, K) /\ Kept(x, n, K)
          /\ \A k \in Index : k # i => n.entry[c][k] = x.entry[c][k]
          /\ \A k, l \in Index :
                Sees(n, c, k, l) = IF k = i THEN Sees(x, p, k, l) ELSE Sees(x, c, k, l)
      BY <2>4, <2>6 DEF TableCopied
    <3>2. Kept(m, n, K)
      BY <2>1, <3>1 DEF Kept
    <3>3. \A k \in Index : k >= i + 1 => n.entry[c][k] = Nil
      BY <1>1, <2>1, <3>1
    <3>4. \A k, l \in Index : k < i + 1 => Sees(n, c, k, l) = Sees(m, p, k, l)
      BY <1>1, <2>1, <2>2, <3>1
    <3>5. QED BY <3>1, <3>2, <3>3, <3>4
  <2>7. PartForked(m, p, c, K, i + 1, n)
    BY <2>5, <2>6 DEF PartForked
  <2>8. QED BY <2>7 DEF n
<1>3. CASE x.ok = FALSE
  <2>1. n = x
    BY <1>3 DEF CopyTable
  <2> HIDE DEF n
  <2>2. PartForked(m, p, c, K, i + 1, n)
    BY <1>1, <1>3, <2>1 DEF PartForked
  <2>3. QED BY <2>2 DEF n
<1>4. QED BY <1>1, <1>2, <1>3 DEF MemType

Forked(m, p, c, K, n) ==
    /\ n \in MemType
    /\ n.ok = TRUE => /\ Build(n, c, K) /\ Kept(m, n, K)
                      /\ \A k, l \in Index : Sees(n, c, k, l) = Sees(m, p, k, l)

LEMMA ForkBuilds ==
    ASSUME NEW m, NEW c, NEW K \in SUBSET Pages, Build(m, c, K),
           NEW p \in K, Own(m.entry, p) \subseteq K,
           \A k \in Index : m.entry[c][k] = Nil
    PROVE  Forked(m, p, c, K, fork_store_pgdir(m, p, c))
<1> DEFINE Step(i, x) == CopyTable(x, p, c, i - 1)
           F(i, f) == IF i = 0 THEN m ELSE Step(i, f[i - 1])
           s == CHOOSE f : f = [i \in 0 .. NENTRIES |-> F(i, f)]
           Part(i, x) == PartForked(m, p, c, K, i, x)
           G == [i \in 1 .. NENTRIES |->
                   [x \in MemType |-> IF Step(i, x) \in MemType THEN Step(i, x) ELSE x]]
<1>1. m \in MemType /\ m.ok = TRUE
  BY DEF Build
<1>2. fork_store_pgdir(m, p, c) = s[NENTRIES]
  BY DEF fork_store_pgdir
<1> HIDE DEF s
<1>3. G \in [1 .. NENTRIES -> [MemType -> MemType]]
  <2> HIDE DEF Step
  <2>1. QED OBVIOUS
<1>4. PICK g : Repeats(g, NENTRIES, MemType, G, m)
  <2> HIDE DEF G
  <2>1. QED BY <1>1, <1>3, Constants, Repeated
<1>5. /\ g \in [0 .. NENTRIES -> MemType] /\ g[0] = m
      /\ \A i \in 1 .. NENTRIES : g[i] = G[i][g[i - 1]]
  <2> HIDE DEF G
  <2>1. QED BY <1>4 DEF Repeats
<1>6. \A i \in 1 .. NENTRIES : i - 1 \in Index /\ i - 1 \in 0 .. NENTRIES /\ (i - 1) + 1 = i
  BY Constants DEF Index
<1>7. ASSUME NEW i \in 1 .. NENTRIES, NEW x, Part(i - 1, x) PROVE Part(i, Step(i, x))
  <2> DEFINE h == i - 1
  <2>1. h \in Index /\ h + 1 = i
    BY <1>6
  <2>2. PartForked(m, p, c, K, h, x)
    BY <1>7
  <2> HIDE DEF h
  <2>3. PartForked(m, p, c, K, h + 1, CopyTable(x, p, c, h))
    BY <2>1, <2>2, ForkStep
  <2>4. QED BY <2>1, <2>3 DEF h
<1> DEFINE T == {i \in 0 .. NENTRIES : Part(i, g[i]) /\ (i # 0 => g[i] = Step(i, g[i - 1]))}
<1>8. 0 \in T
  <2>1. Part(0, m)
    <3>1. \A k \in Index : ~ (k < 0)
      BY DEF Index
    <3>2. QED BY <1>1, <3>1 DEF PartForked, Kept
  <2>2. QED BY <1>5, <2>1, Constants
<1>9. ASSUME NEW i \in 1 .. NENTRIES, i - 1 \in T PROVE i \in T
  <2> HIDE DEF Step, Part
  <2>1. g[i] = G[i][g[i - 1]] /\ g[i - 1] \in MemType /\ i \in 0 .. NENTRIES
    BY <1>5, <1>6
  <2>2. Part(i - 1, g[i - 1])
    BY <1>9
  <2>3. Part(i, Step(i, g[i - 1]))
    BY <1>7, <2>2
  <2>4. Step(i, g[i - 1]) \in MemType
    BY <2>3 DEF Part, PartForked
  <2>5. g[i] = Step(i, g[i - 1])
    BY <2>1, <2>4
  <2>6. QED BY <2>1, <2>3, <2>5
<1>10. \A i \in 0 .. NENTRIES : i \in T
  <2> HIDE DEF T
  <2>1. QED BY <1>8, <1>9, Constants, UpTo
<1>11. g = [i \in 0 .. NENTRIES |-> F(i, g)]
  <2> HIDE DEF Step, Part, G
  <2>1. ASSUME NEW i \in 0 .. NENTRIES PROVE g[i] = F(i, g)
    <3>1. i # 0 => g[i] = Step(i, g[i - 1])
      BY <1>10
    <3>2. QED BY <1>5, <3>1
  <2> HIDE DEF F
  <2>2. QED BY <1>5, <2>1
<1>12. s = [i \in 0 .. NENTRIES |-> F(i, s)]
  <2> HIDE DEF F, G, Step, T
  <2>1. QED BY <1>11 DEF s
<1>13. s[NENTRIES] = g[NENTRIES]
  <2> DEFINE U == {i \in 0 .. NENTRIES : s[i] = g[i]}
  <2> HIDE DEF Step, G, T, Part
  <2>1. 0 \in U
    BY <1>5, <1>12, Constants
  <2>2. ASSUME NEW i \in 1 .. NENTRIES, i - 1 \in U PROVE i \in U
    <3>1. i \in 0 .. NENTRIES /\ i # 0 /\ s[i - 1] = g[i - 1]
      BY <2>2
    <3>2. s[i] = Step(i, s[i - 1]) /\ g[i] = Step(i, g[i - 1])
      BY <1>11, <1>12, <3>1
    <3>3. QED BY <3>1, <3>2
  <2> HIDE DEF U
  <2>3. \A i \in 0 .. NENTRIES : i \in U
    BY <2>1, <2>2, Constants, UpTo
  <2>4. QED BY <2>3, Constants DEF U
<1>14. Part(NENTRIES, s[NENTRIES])
  <2> HIDE DEF Part, Step
  <2>1. NENTRIES \in 0 .. NENTRIES
    BY Constants
  <2>2. Part(NENTRIES, g[NENTRIES])
    BY <1>10, <2>1
  <2>3. QED BY <1>13, <2>2
<1> DEFINE n == s[NENTRIES]
<1>15. PartForked(m, p, c, K, NENTRIES, n)
  BY <1>14
<1> HIDE DEF n
<1>16. Forked(m, p, c, K, n)
  <2>1. \A k \in Index : k < NENTRIES
    BY Constants DEF Index
  <2>2. QED BY <1>15, <2>1 DEF PartForked, Forked
<1>17. QED BY <1>2, <1>16 DEF n

-----------------------------------------------------------------------------
(***************************************************************************)
(* All directories D together                                              *)
(***************************************************************************)

Owned(m, D) == UNION {Own(m.entry, d) : d \in D}

\* The inductive invariant: the directories are trees that share no page with
\* each other or with the list of free pages.
Sound(m, D) ==
    /\ D \subseteq Pages
    /\ \A d \in D : Tree(m.entry, d)
    /\ \A c, d \in D : c # d => Own(m.entry, c) \cap Own(m.entry, d) = {}
    /\ \E F \in SUBSET Pages : IsList(m.link, m.free, F) /\ F \cap Owned(m, D) = {}

LEMMA OwnPages ==
    ASSUME NEW m \in MemType, NEW d \in Pages
    PROVE  Own(m.entry, d) \subseteq Pages /\ d \in Own(m.entry, d)
<1>1. \A i \in Index : m.entry[d][i] \in Pages \cup {Nil}
  BY DEF MemType, Entries
<1>2. \A i, j \in Index : At(m.entry, d, i, j) \in Pages \cup {Nil}
  BY <1>1 DEF At, MemType, Entries
<1>3. d \in Own(m.entry, d)
  BY OwnOf, Constants
<1>4. QED BY <1>1, <1>2, <1>3, OwnOf

\* A directory that was set up: empty, and apart from the others.
SetUp(m, D, p, n) ==
    /\ n \in MemType /\ Build(n, p, Owned(m, D)) /\ Kept(m, n, Owned(m, D))
    /\ \A k \in Index : n.entry[p][k] = Nil
    /\ \A i, j \in Index : Sees(n, p, i, j) = Nil

LEMMA SetupBuilds ==
    ASSUME NEW m \in MemType, m.ok = TRUE, m.free # Nil, NEW D, Sound(m, D)
    PROVE  SetUp(m, D, m.free, env_setup_vm(m)) /\ m.free \in Pages \ Owned(m, D)
<1> DEFINE p == m.free
           n == env_setup_vm(m)
           K == Owned(m, D)
<1>1. PICK F \in SUBSET Pages : IsList(m.link, m.free, F) /\ F \cap K = {}
  BY DEF Sound
<1>2. p \in F /\ p \in Pages /\ p \notin K /\ IsList(m.link, m.link[p], F \ {p})
  BY <1>1, ListPop
<1>3. /\ n \in MemType /\ n.link = m.link /\ n.free = m.link[p] /\ n.ok = m.ok
      /\ n.entry = [m.entry EXCEPT ![p] = Empty] /\ n.data = [m.data EXCEPT ![p] = 0]
  <2> DEFINE r == Up(m.ref[p])
  <2>1. r \in 0 .. RefMod - 1
    BY <1>2, Counts DEF MemType
  <2>2. page_alloc(m).ref = m.ref
    BY AllocFields
  <2>3. n = [page_alloc(m) EXCEPT !.ref[p] = r]
    BY <2>2 DEF env_setup_vm
  <2> HIDE DEF n, r, p
  <2>4. QED BY <2>1, <2>3, TakenFields DEF p
<1> HIDE DEF n, p
<1>4. /\ \A x \in Pages \ {p} : n.entry[x] = m.entry[x] /\ n.data[x] = m.data[x]
      /\ \A k \in Index : n.entry[p][k] = Nil
  BY <1>2, <1>3 DEF MemType, Entries, Empty
<1>5. K \subseteq Pages
  BY OwnPages DEF Sound, Owned
<1> HIDE DEF K
<1>6. Kept(m, n, K)
  BY <1>2, <1>4, <1>5 DEF Kept
<1>7. \A i, j \in Index : At(n.entry, p, i, j) = Nil /\ Sees(n, p, i, j) = Nil
  BY <1>4 DEF At, Sees
<1>8. Own(n.entry, p) = {p}
  BY <1>2, <1>4, <1>7, Constants, OwnOf
<1>9. Tree(n.entry, p)
  BY <1>2, <1>4, <1>7, Constants DEF Tree
<1>10. Apart(n, p, K, F \ {p})
  BY <1>1, <1>2, <1>3, <1>8 DEF Apart
<1>11. Build(n, p, K)
  BY <1>3, <1>9, <1>10 DEF Build
<1>12. QED BY <1>2, <1>3, <1>4, <1>6, <1>7, <1>11 DEF SetUp, p, n, K

\* A directory that is built joins the others, or is dropped.
LEMMA JoinSound ==
    ASSUME NEW m \in MemType, NEW D, Sound(m, D),
           NEW p, NEW n, Build(n, p, Owned(m, D)), Kept(m, n, Owned(m, D))
    PROVE  Sound(n, D \cup {p}) /\ Sound(n, D)
<1> DEFINE K == Owned(m, D)
<1>1. ASSUME NEW d \in D
      PROVE  Own(n.entry, d) = Own(m.entry, d) /\ Tree(n.entry, d) /\ Own(m.entry, d) \subseteq K
  <2>1. Own(m.entry, d) \subseteq K /\ d \in Pages /\ Tree(m.entry, d) /\ Kept(m, n, K)
    BY DEF Owned, Sound
  <2> HIDE DEF K
  <2>2. QED BY <2>1, KeptSees
<1>2. p \in Pages /\ Tree(n.entry, p) /\ D \subseteq Pages
  BY DEF Build, Tree, Sound
<1>3. PICK F \in SUBSET Pages : Apart(n, p, K, F)
  BY DEF Build
<1>4. Owned(n, D) = K
  BY <1>1 DEF Owned
<1>5. Owned(n, D \cup {p}) = K \cup Own(n.entry, p)
  BY <1>4 DEF Owned
<1> HIDE DEF K
<1>6. ASSUME NEW c \in D, NEW d \in D, c # d PROVE Own(n.entry, c) \cap Own(n.entry, d) = {}
  BY <1>1, <1>6 DEF Sound
<1>7. \A d \in D : Own(n.entry, d) \cap Own(n.entry, p) = {}
  BY <1>1, <1>3 DEF Apart
<1>8. \A c, d \in D \cup {p} : c # d => Own(n.entry, c) \cap Own(n.entry, d) = {}
  BY <1>6, <1>7
<1>9. /\ IsList(n.link, n.free, F) /\ F \cap Owned(n, D) = {} /\ F \cap Owned(n, D \cup {p}) = {}
  BY <1>3, <1>4, <1>5 DEF Apart
<1>10. Sound(n, D \cup {p})
  BY <1>1, <1>2, <1>8, <1>9 DEF Sound
<1>11. Sound(n, D)
  BY <1>1, <1>2, <1>6, <1>9 DEF Sound
<1>12. QED BY <1>10, <1>11

\* The last who has a directory returns it.
LEMMA LeaveSound ==
    ASSUME NEW m \in MemType, NEW D, Sound(m, D), NEW d \in D
    PROVE  Sound(page_decref(m, d), D \ {d})
<1> DEFINE n == page_decref(m, d)
           E == D \ {d}
<1>1. d \in Pages
  BY DEF Sound
<1>2. /\ n \in MemType /\ n.entry = m.entry
      /\ \/ n.link = m.link /\ n.free = m.free
         \/ n.link = [m.link EXCEPT ![d] = m.free] /\ n.free = d
  BY <1>1, DecrefFields
<1> HIDE DEF n
<1>3. /\ Owned(n, E) \subseteq Owned(m, D) /\ d \notin Owned(n, E) /\ d \in Owned(m, D)
  BY <1>1, <1>2, OwnPages DEF Owned, Sound
<1>4. PICK F \in SUBSET Pages : IsList(m.link, m.free, F) /\ F \cap Owned(m, D) = {}
  BY DEF Sound
<1>5. \E G \in SUBSET Pages : IsList(n.link, n.free, G) /\ G \cap Owned(n, E) = {}
  <2>1. CASE n.link = m.link /\ n.free = m.free
    BY <1>3, <1>4, <2>1
  <2>2. CASE n.link = [m.link EXCEPT ![d] = m.free] /\ n.free = d
    <3> DEFINE link == m.link
               head == m.free
    <3>1. link \in [Pages -> Pages \cup {Nil}] /\ IsList(link, head, F) /\ d \notin F
      BY <1>3, <1>4 DEF MemType
    <3> HIDE DEF link, head
    <3>2. IsList([link EXCEPT ![d] = head], d, F \cup {d})
      BY <1>1, <3>1, ListPush, Constants
    <3>3. (F \cup {d}) \cap Owned(n, E) = {} /\ F \cup {d} \in SUBSET Pages
      BY <1>1, <1>3, <1>4
    <3>4. IsList(n.link, n.free, F \cup {d})
      BY <2>2, <3>2 DEF link, head
    <3>5. QED BY <3>3, <3>4
  <2>3. QED BY <1>2, <2>1, <2>2
<1>6. Sound(n, E)
  BY <1>2, <1>5 DEF Sound
<1>7. QED BY <1>6 DEF n

-----------------------------------------------------------------------------
(***************************************************************************)
(* What the programs see                                                   *)
(***************************************************************************)

\* Views, when the pages are as in m and slot e has directory dir[e].
ViewOf(m, d) == [a \in Addresses |-> IF d = Nil THEN Nil ELSE Sees(m, d, a[1], a[2])]
Look(m, dir) == [e \in Envs |-> ViewOf(m, dir[e])]

DirsOf(dir) == {dir[e] : e \in Envs} \ {Nil}

LEMMA ViewsLook == Views = Look(Mem, env_pgdir) /\ Dirs = DirsOf(env_pgdir)
<1>1. ASSUME NEW e \in Envs, NEW a \in Addresses
      PROVE  Views[e][a] = IF env_pgdir[e] = Nil THEN Nil ELSE Sees(Mem, env_pgdir[e], a[1], a[2])
  BY DEF Views, Alive, Lookup, Sees, At, Mem
<1>2. Views = [e \in Envs |-> [a \in Addresses |-> Views[e][a]]]
  BY DEF Views
<1>3. Views = Look(Mem, env_pgdir)
  BY <1>1, <1>2 DEF Look, ViewOf
<1>4. Dirs = DirsOf(env_pgdir)
  BY DEF Dirs, Alive, DirsOf
<1>5. QED BY <1>3, <1>4

\* What slot c sees changes with its directory; the others see what they saw.
Switched(m, n, dir, c, q) ==
    Look(n, [dir EXCEPT ![c] = q]) = [Look(m, dir) EXCEPT ![c] = ViewOf(n, q)]

LEMMA LookChange ==
    ASSUME NEW m, NEW n, NEW dir \in [Envs -> Pages \cup {Nil}], NEW c \in Envs,
           NEW q \in Pages \cup {Nil}, Kept(m, n, Owned(m, DirsOf(dir)))
    PROVE  Switched(m, n, dir, c, q)
<1> DEFINE K == Owned(m, DirsOf(dir))
           new == [dir EXCEPT ![c] = q]
           view == ViewOf(n, q)
<1>1. new[c] = q /\ \A e \in Envs : e # c => new[e] = dir[e]
  OBVIOUS
<1> HIDE DEF new
<1>2. ASSUME NEW e \in Envs, e # c, dir[e] # Nil, NEW a \in Addresses
      PROVE  Sees(n, dir[e], a[1], a[2]) = Sees(m, dir[e], a[1], a[2])
  <2> DEFINE d == dir[e]
             i == a[1]
             j == a[2]
  <2>1. d \in Pages /\ Own(m.entry, d) \subseteq K /\ Kept(m, n, K) /\ i \in Index /\ j \in Index
    BY <1>2 DEF DirsOf, Owned, Addresses
  <2> HIDE DEF d, i, j, K
  <2>2. Sees(n, d, i, j) = Sees(m, d, i, j)
    BY <2>1, KeptSees
  <2>3. QED BY <2>2 DEF d, i, j
<1>3. ASSUME NEW e \in Envs, e # c PROVE Look(n, new)[e] = Look(m, dir)[e]
  BY <1>1, <1>2, <1>3 DEF Look, ViewOf
<1>4. Look(n, new)[c] = view
  BY <1>1 DEF Look
<1>5. /\ Look(n, new) = [e \in Envs |-> Look(n, new)[e]]
      /\ [Look(m, dir) EXCEPT ![c] = view] =
            [e \in Envs |-> IF e = c THEN view ELSE Look(m, dir)[e]]
  BY DEF Look
<1> HIDE DEF view
<1>6. Look(n, new) = [Look(m, dir) EXCEPT ![c] = view]
  BY <1>3, <1>4, <1>5
<1>7. QED BY <1>6 DEF new, view, Switched

LEMMA SlotFilled ==
    ASSUME NEW dir \in [Envs -> Pages \cup {Nil}], NEW c \in Envs, dir[c] = Nil, NEW q \in Pages
    PROVE  /\ DirsOf([dir EXCEPT ![c] = q]) = DirsOf(dir) \cup {q}
           /\ [dir EXCEPT ![c] = q] \in [Envs -> Pages \cup {Nil}]
BY Constants DEF DirsOf

LEMMA SlotEmptied ==
    ASSUME NEW dir \in [Envs -> Pages \cup {Nil}], NEW c \in Envs,
           \A e \in Envs \ {c} : dir[e] # dir[c]
    PROVE  /\ DirsOf([dir EXCEPT ![c] = Nil]) = DirsOf(dir) \ {dir[c]}
           /\ [dir EXCEPT ![c] = Nil] \in [Envs -> Pages \cup {Nil}]
BY Constants DEF DirsOf

\* A value is stored at an address of e's directory: whoever has that one sees it.
Stored(m, n, dir, e, b, v) ==
    Look(n, dir) = [f \in Envs |-> IF dir[f] = dir[e] THEN [Look(m, dir)[f] EXCEPT ![b] = v]
                                                     ELSE Look(m, dir)[f]]

LEMMA LookStore ==
    ASSUME NEW m \in MemType, NEW dir \in [Envs -> Pages \cup {Nil}], Sound(m, DirsOf(dir)),
           NEW e \in Envs, dir[e] # Nil, NEW b \in Addresses,
           At(m.entry, dir[e], b[1], b[2]) # Nil, NEW v,
           NEW n, n.entry = m.entry,
           n.data = [m.data EXCEPT ![At(m.entry, dir[e], b[1], b[2])] = v]
    PROVE  Stored(m, n, dir, e, b, v)
<1> DEFINE q == At(m.entry, dir[e], b[1], b[2])
           en == m.entry
<1>1. /\ q \in Pages /\ q \in Own(en, dir[e]) /\ dir[e] \in DirsOf(dir)
      /\ b[1] \in Index /\ b[2] \in Index /\ b = <<b[1], b[2]>>
  <2>1. b[1] \in Index /\ b[2] \in Index /\ b = <<b[1], b[2]>> /\ dir[e] \in Pages
    BY DEF Addresses
  <2>2. q \in Own(en, dir[e])
    BY <2>1, OwnOf
  <2>3. Own(en, dir[e]) \subseteq Pages
    BY <2>1, OwnPages
  <2>4. dir[e] \in DirsOf(dir)
    BY DEF DirsOf
  <2>5. QED BY <2>1, <2>2, <2>3, <2>4
<1>2. n.entry = en /\ n.data[q] = v /\ \A x \in Pages \ {q} : n.data[x] = m.data[x]
  BY <1>1 DEF MemType
<1> HIDE DEF q, en
<1>3. ASSUME NEW f \in Envs, dir[f] # Nil, NEW i \in Index, NEW j \in Index
      PROVE  Sees(n, dir[f], i, j) =
                IF dir[f] = dir[e] /\ <<i, j>> = b THEN v ELSE Sees(m, dir[f], i, j)
  <2>1. /\ At(en, dir[f], i, j) \in Pages \cup {Nil} /\ dir[f] \in DirsOf(dir)
        /\ At(en, dir[f], i, j) # Nil => At(en, dir[f], i, j) \in Own(en, dir[f])
    <3>1. dir[f] \in DirsOf(dir) /\ dir[f] \in Pages
      BY <1>3 DEF DirsOf
    <3>2. At(en, dir[f], i, j) # Nil => At(en, dir[f], i, j) \in Own(en, dir[f])
      BY OwnOf
    <3>3. Own(en, dir[f]) \subseteq Pages
      BY <3>1, OwnPages DEF en
    <3>4. QED BY <3>1, <3>2, <3>3
  <2>2. CASE dir[f] = dir[e] /\ <<i, j>> = b
    <3>1. At(en, dir[f], i, j) = q /\ q # Nil
      BY <1>1, <2>2, Constants DEF q, en
    <3>2. QED BY <1>2, <2>2, <3>1 DEF Sees
  <2>3. CASE ~ (dir[f] = dir[e] /\ <<i, j>> = b)
    <3>1. At(en, dir[f], i, j) # q
      <4>1. CASE dir[f] # dir[e]
        <5>1. Own(en, dir[f]) \cap Own(en, dir[e]) = {}
          BY <1>1, <2>1, <4>1 DEF Sound, en
        <5>2. QED BY <1>1, <2>1, <5>1, Constants
      <4>2. CASE dir[f] = dir[e]
        <5>1. Tree(en, dir[e])
          BY <1>1 DEF Sound, en
        <5>2. q = At(en, dir[e], b[1], b[2]) /\ ~ (i = b[1] /\ j = b[2]) /\ q # Nil
          BY <1>1, <2>3, <4>2, Constants DEF q, en
        <5>3. QED BY <1>1, <4>2, <5>1, <5>2 DEF Tree
      <4>3. QED BY <4>1, <4>2
    <3>2. QED BY <1>2, <2>1, <2>3, <3>1 DEF Sees, en
  <2>4. QED BY <2>2, <2>3
<1>4. ASSUME NEW f \in Envs
      PROVE  Look(n, dir)[f] = IF dir[f] = dir[e] THEN [Look(m, dir)[f] EXCEPT ![b] = v]
                                                 ELSE Look(m, dir)[f]
  <2>1. ASSUME NEW a \in Addresses
        PROVE  a[1] \in Index /\ a[2] \in Index /\ a = <<a[1], a[2]>>
    BY DEF Addresses
  <2>2. /\ Look(n, dir)[f] = [a \in Addresses |->
              IF dir[f] = Nil THEN Nil ELSE Sees(n, dir[f], a[1], a[2])]
        /\ Look(m, dir)[f] = [a \in Addresses |->
              IF dir[f] = Nil THEN Nil ELSE Sees(m, dir[f], a[1], a[2])]
    BY DEF Look, ViewOf
  <2>3. QED BY <1>3, <2>1, <2>2
<1>5. Look(n, dir) = [f \in Envs |-> Look(n, dir)[f]]
  BY DEF Look
<1>6. QED BY <1>4, <1>5 DEF Stored

-----------------------------------------------------------------------------
(***************************************************************************)
(* What is safe while the directories are sound                            *)
(***************************************************************************)

DirType == env_pgdir \in [Envs -> Pages \cup {Nil}] /\ kernel \in KernelState

MemTyped == Mem \in MemType /\ DirType

LEMMA TypesOf == MemTyped => TypeOK
BY DEF MemTyped, DirType, TypeOK, Mem, MemType, Entries

\* The free pages are those of the list.
LEMMA FreeListed ==
    ASSUME MemTyped, NEW F \in SUBSET Pages, IsList(pp_link, page_free_list, F)
    PROVE  FreePages = F /\ NthFree[NPAGES] = Nil
<1> DEFINE D == Pages \cup {Nil}
           G == [k \in 1 .. NPAGES |-> [x \in D |-> IF x = Nil THEN Nil ELSE pp_link[x]]]
           H(k, f) == IF k = 0 THEN page_free_list
                      ELSE IF f[k - 1] = Nil THEN Nil ELSE pp_link[f[k - 1]]
<1>1. pp_link \in [Pages -> D] /\ page_free_list \in D /\ NPAGES \in Nat
  BY Constants DEF MemTyped, MemType, Mem
<1>2. G \in [1 .. NPAGES -> [D -> D]]
  BY <1>1
<1>3. PICK g : Repeats(g, NPAGES, D, G, page_free_list)
  <2> HIDE DEF G, D
  <2>1. QED BY <1>1, <1>2, Repeated
<1>4. g = [k \in 0 .. NPAGES |-> H(k, g)]
  <2>1. /\ g \in [0 .. NPAGES -> D] /\ g[0] = page_free_list
        /\ \A k \in 1 .. NPAGES : g[k] = G[k][g[k - 1]]
    <3> HIDE DEF G, D
    <3>1. QED BY <1>3 DEF Repeats
  <2>2. ASSUME NEW k \in 0 .. NPAGES PROVE g[k] = H(k, g)
    <3>1. k # 0 => k \in 1 .. NPAGES /\ g[k - 1] \in D
      BY <1>1, <2>1
    <3>2. QED BY <2>1, <3>1
  <2> HIDE DEF H
  <2>3. QED BY <2>1, <2>2
<1>5. NthFree = [k \in 0 .. NPAGES |-> H(k, NthFree)]
  <2> HIDE DEF H
  <2>1. NthFree = CHOOSE f : f = [k \in 0 .. NPAGES |-> H(k, f)]
    BY DEF NthFree, H
  <2>2. QED BY <1>4, <2>1
<1>6. Hops(NthFree, NPAGES, pp_link, page_free_list)
  <2>1. 0 \in 0 .. NPAGES /\ \A k \in 1 .. NPAGES : k \in 0 .. NPAGES /\ k # 0
    BY <1>1
  <2>2. QED BY <1>5, <2>1 DEF Hops
<1>7. F \in SUBSET (0 .. NPAGES - 1)
  BY DEF Pages
<1>8. HopSet(NthFree, NPAGES) = F /\ NthFree[NPAGES] = Nil
  BY <1>1, <1>6, <1>7, HopsReach, HopsOver
<1>9. QED BY <1>8 DEF FreePages, HopSet

\* A use of a page, as it lies in the tree of a directory.
LEMMA UseOwned ==
    ASSUME NEW u \in Uses, UsedPage(u) # Nil
    PROVE  u[1] \in Dirs /\ UsedPage(u) \in Own(entry, u[1])
<1>1. CASE \E d \in Dirs : u = <<d>>
  BY <1>1, OwnOf DEF UsedPage
<1>2. CASE \E d \in Dirs, i \in Index : u = <<d, i>>
  BY <1>2, OwnOf DEF UsedPage
<1>3. CASE \E d \in Dirs, i \in Index, j \in Index : u = <<d, i, j>>
  <2>1. PICK d \in Dirs, i \in Index, j \in Index : u = <<d, i, j>>
    BY <1>3
  <2>2. UsedPage(u) = At(entry, d, i, j)
    BY <2>1 DEF UsedPage, Lookup, At
  <2>3. QED BY <2>1, <2>2, OwnOf
<1>4. QED BY <1>1, <1>2, <1>3 DEF Uses

\* A tree has a page in one place only.
LEMMA UseOnce ==
    ASSUME NEW u \in Uses, NEW w \in Uses, u[1] = w[1], Tree(entry, u[1]),
           UsedPage(u) # Nil, UsedPage(u) = UsedPage(w)
    PROVE  u = w
<1> DEFINE d == u[1]
           Is1(x) == x = <<d>> /\ UsedPage(x) = d
           Is2(x) == \E i \in Index : x = <<d, i>> /\ UsedPage(x) = entry[d][i]
           Is3(x) == \E i, j \in Index : x = <<d, i, j>> /\ UsedPage(x) = At(entry, d, i, j)
<1>1. ASSUME NEW x \in Uses, x[1] = d PROVE Is1(x) \/ Is2(x) \/ Is3(x)
  <2>1. CASE \E c \in Dirs : x = <<c>>
    BY <1>1, <2>1 DEF UsedPage
  <2>2. CASE \E c \in Dirs, i \in Index : x = <<c, i>>
    BY <1>1, <2>2 DEF UsedPage
  <2>3. CASE \E c \in Dirs, i \in Index, j \in Index : x = <<c, i, j>>
    BY <1>1, <2>3 DEF UsedPage, Lookup, At
  <2>4. QED BY <2>1, <2>2, <2>3 DEF Uses
<1>2. Is1(u) \/ Is2(u) \/ Is3(u)
  BY <1>1
<1>3. Is1(w) \/ Is2(w) \/ Is3(w)
  BY <1>1
<1> HIDE DEF d
<1>4. Tree(entry, d)
  BY DEF d
<1>5. CASE Is1(u)
  BY <1>3, <1>4, <1>5 DEF Tree
<1>6. CASE Is2(u)
  BY <1>3, <1>4, <1>6 DEF Tree
<1>7. CASE Is3(u)
  BY <1>3, <1>4, <1>7 DEF Tree
<1>8. QED BY <1>2, <1>5, <1>6, <1>7

LEMMA SoundMapped ==
    MemTyped /\ Sound(Mem, Dirs) => TypeOK /\ PageListOK /\ MappedOnce
<1> SUFFICES ASSUME MemTyped, Sound(Mem, Dirs) PROVE TypeOK /\ PageListOK /\ MappedOnce
  OBVIOUS
<1>1. Mem.entry = entry /\ Mem.link = pp_link /\ Mem.free = page_free_list
  BY DEF Mem
<1>2. PICK F \in SUBSET Pages : IsList(pp_link, page_free_list, F) /\ F \cap Owned(Mem, Dirs) = {}
  BY <1>1 DEF Sound
<1>3. FreePages = F /\ PageListOK
  BY <1>2, FreeListed DEF PageListOK
<1>4. ASSUME NEW u \in Uses, UsedPage(u) # Nil
      PROVE  /\ UsedPage(u) \notin FreePages
             /\ \A w \in Uses : UsedPage(w) = UsedPage(u) => w = u
  <2>1. u[1] \in Dirs /\ UsedPage(u) \in Own(entry, u[1])
    BY <1>4, UseOwned
  <2>2. UsedPage(u) \in Owned(Mem, Dirs)
    BY <1>1, <2>1 DEF Owned
  <2>3. ASSUME NEW w \in Uses, UsedPage(w) = UsedPage(u) PROVE w = u
    <3>1. w[1] \in Dirs /\ UsedPage(u) \in Own(entry, w[1])
      BY <1>4, <2>3, UseOwned
    <3>2. w[1] = u[1] /\ Tree(entry, u[1])
      BY <1>1, <2>1, <3>1 DEF Sound
    <3>3. QED BY <1>4, <2>3, <3>2, UseOnce
  <2>4. QED BY <1>2, <1>3, <2>2, <2>3
<1>5. QED BY <1>3, <1>4, TypesOf DEF MappedOnce

-----------------------------------------------------------------------------
(***************************************************************************)
(* The steps                                                               *)
(***************************************************************************)

Good(m, dir) ==
    m \in MemType /\ dir \in [Envs -> Pages \cup {Nil}] /\ Sound(m, DirsOf(dir))

\* What is to be shown of a step while nobody leaves others without a directory.
StepFine ==
    /\ Good(Mem, env_pgdir)' /\ kernel' \in KernelState
    /\ [Private!MemNext]_(Private!memVars)

LEMMA ViewsNext == Views' = Look(Mem', env_pgdir')
<1>1. (Views = Look(Mem, env_pgdir))'
  BY ViewsLook, PTL
<1>2. QED BY <1>1

LEMMA MemSame == UNCHANGED pageVars => Mem' = Mem
BY DEF Mem, pageVars

\* A step of Becomes is one to n, or the kernel stops.
LEMMA BecomesMem ==
    ASSUME NEW n \in MemType, NEW e \in Envs, NEW d, Becomes(n, e, d)
    PROVE  \/ UNCHANGED <<pageVars, env_pgdir>> /\ kernel' = "no_page"
           \/ /\ n.ok = TRUE /\ Mem' = n /\ env_pgdir' = [env_pgdir EXCEPT ![e] = d]
              /\ kernel' = kernel
<1>1. CASE n.ok = FALSE
  BY <1>1 DEF Becomes, Stops
<1>2. CASE n.ok = TRUE
  <2>1. /\ pp_ref' = n.ref /\ pp_link' = n.link /\ page_free_list' = n.free
        /\ entry' = n.entry /\ data' = n.data
        /\ env_pgdir' = [env_pgdir EXCEPT ![e] = d] /\ kernel' = kernel
    BY <1>2 DEF Becomes
  <2>2. Mem' = n
    BY <1>2, <2>1 DEF Mem, MemType
  <2>3. QED BY <1>2, <2>1, <2>2
<1>3. QED BY <1>1, <1>2 DEF MemType

LEMMA StillFine ==
    ASSUME Good(Mem, env_pgdir), UNCHANGED <<pageVars, env_pgdir>>, kernel' \in KernelState
    PROVE  StepFine
<1>1. Mem' = Mem /\ env_pgdir' = env_pgdir
  BY MemSame
<1>2. Good(Mem, env_pgdir)'
  BY <1>1
<1>3. Views' = Views
  BY <1>1, ViewsLook, ViewsNext
<1>4. QED BY <1>1, <1>2, <1>3 DEF StepFine, Private!memVars

\* A directory q that was built for the new program c, with memory of its own.
LEMMA NewFine ==
    ASSUME Good(Mem, env_pgdir), NEW c \in Envs, env_pgdir[c] = Nil,
           NEW q \in Pages \ Owned(Mem, Dirs), NEW n, Build(n, q, Owned(Mem, Dirs)),
           Kept(Mem, n, Owned(Mem, Dirs)),
           Mem' = n, env_pgdir' = [env_pgdir EXCEPT ![c] = q]
    PROVE  /\ Good(Mem, env_pgdir)' /\ q \in Pages \ Dirs
           /\ Views' = [Views EXCEPT ![c] = ViewOf(n, q)]
<1>1. PICK m : m = Mem
  OBVIOUS
<1>2. PICK dir : dir = env_pgdir
  OBVIOUS
<1> DEFINE D == DirsOf(dir)
           K == Owned(m, D)
<1>3. /\ Good(m, dir) /\ dir[c] = Nil /\ q \in Pages \ K /\ Build(n, q, K) /\ Kept(m, n, K)
      /\ Mem' = n /\ env_pgdir' = [dir EXCEPT ![c] = q] /\ Views = Look(m, dir) /\ Dirs = D
  BY <1>1, <1>2, ViewsLook
<1>4. m \in MemType /\ dir \in [Envs -> Pages \cup {Nil}] /\ Sound(m, D)
  BY <1>3 DEF Good
<1>5. Sound(n, D \cup {q})
  <2> HIDE DEF D
  <2>1. QED BY <1>3, <1>4, JoinSound
<1>6. Good(n, [dir EXCEPT ![c] = q])
  <2>1. /\ DirsOf([dir EXCEPT ![c] = q]) = D \cup {q}
        /\ [dir EXCEPT ![c] = q] \in [Envs -> Pages \cup {Nil}]
    BY <1>3, <1>4, SlotFilled
  <2> HIDE DEF D
  <2>2. QED BY <1>3, <1>5, <2>1 DEF Good, Build
<1>7. q \notin D
  <2>1. \A d \in D : d \in Own(m.entry, d)
    BY <1>4, OwnPages DEF Sound
  <2>2. QED BY <1>3, <2>1 DEF Owned
<1>8. Switched(m, n, dir, c, q)
  <2>1. /\ dir \in [Envs -> Pages \cup {Nil}] /\ q \in Pages \cup {Nil}
        /\ Kept(m, n, Owned(m, DirsOf(dir)))
    BY <1>3, <1>4
  <2>2. QED BY <2>1, LookChange
<1>9. Views' = [Views EXCEPT ![c] = ViewOf(n, q)]
  BY <1>3, <1>8, ViewsNext DEF Switched
<1>10. QED BY <1>3, <1>6, <1>7, <1>9

LEMMA LoadFine ==
    ASSUME Good(Mem, env_pgdir), kernel \in KernelState, NEW c \in Envs, Load(c)
    PROVE  StepFine
<1> DEFINE q == page_free_list
           u == env_setup_vm(Mem)
           n == load_icode(u, q)
           K == Owned(Mem, Dirs)
<1>1. /\ q # Nil /\ env_pgdir[c] = Nil /\ Becomes(n, c, q) /\ Mem.free = q /\ Mem.ok = TRUE
      /\ Mem \in MemType /\ Sound(Mem, Dirs)
  BY ViewsLook DEF Load, Alive, Mem, Good
<1>2. SetUp(Mem, Dirs, q, u) /\ q \in Pages \ K
  BY <1>1, SetupBuilds
<1> HIDE DEF u
<1>3. /\ u \in MemType /\ Build(u, q, K) /\ Kept(Mem, u, K)
      /\ \A i, j \in Index : Sees(u, q, i, j) = Nil
  BY <1>2 DEF SetUp
<1>4. K \in SUBSET Pages
  BY <1>1, OwnPages DEF Owned, Sound
<1> HIDE DEF K
<1>5. Loaded(u, q, K, n)
  BY <1>3, <1>4, LoadBuilds
<1> HIDE DEF n
<1>6. n \in MemType
  BY <1>5 DEF Loaded
<1>7. CASE UNCHANGED <<pageVars, env_pgdir>> /\ kernel' = "no_page"
  BY <1>7, StillFine DEF KernelState
<1>8. CASE /\ n.ok = TRUE /\ Mem' = n /\ env_pgdir' = [env_pgdir EXCEPT ![c] = q]
           /\ kernel' = kernel
  <2>1. /\ Build(n, q, K) /\ Kept(Mem, n, K)
        /\ \A i, j \in Index : Sees(n, q, i, j) = Image[<<i, j>>]
    BY <1>3, <1>5, <1>8 DEF Loaded, Kept
  <2>2. /\ Good(Mem, env_pgdir)' /\ q \in Pages \ Dirs
        /\ Views' = [Views EXCEPT ![c] = ViewOf(n, q)]
    <3>1. /\ q \in Pages \ Owned(Mem, Dirs) /\ Build(n, q, Owned(Mem, Dirs))
          /\ Kept(Mem, n, Owned(Mem, Dirs)) /\ Mem' = n
          /\ env_pgdir' = [env_pgdir EXCEPT ![c] = q] /\ env_pgdir[c] = Nil
      BY <1>1, <1>2, <1>8, <2>1 DEF K
    <3> HIDE DEF q
    <3>2. QED BY <3>1, NewFine
  <2>3. ViewOf(n, q) = Image
    <3>1. \A a \in Addresses : Sees(n, q, a[1], a[2]) = Image[a]
      BY <2>1 DEF Addresses
    <3>2. Image = [a \in Addresses |-> Image[a]]
      BY DEF Image
    <3>3. QED BY <1>1, <3>1, <3>2 DEF ViewOf
  <2>4. Private!Appear(c)
    <3>1. c \in Private!Absent /\ q \in Pages \ Private!Taken
      BY <1>1, <2>2 DEF Private!Absent, Private!Taken, Dirs, Alive
    <3>2. Private!Gets(c, q, Image)
      BY <1>8, <2>2, <2>3 DEF Private!Gets
    <3>3. QED BY <3>1, <3>2 DEF Private!Appear
  <2>5. QED BY <1>8, <2>2, <2>4 DEF StepFine, Private!MemNext
<1>9. QED BY <1>1, <1>6, <1>7, <1>8, BecomesMem

LEMMA ForkFine ==
    ASSUME Good(Mem, env_pgdir), kernel \in KernelState, NEW e \in Envs, NEW c \in Envs, Fork(e, c)
    PROVE  StepFine
<1> DEFINE q == page_free_list
           p == env_pgdir[e]
           u == env_setup_vm(Mem)
           n == fork_store_pgdir(u, p, q)
           K == Owned(Mem, Dirs)
<1>1. /\ q # Nil /\ env_pgdir[c] = Nil /\ Becomes(n, c, q) /\ Mem.free = q /\ Mem.ok = TRUE
      /\ Mem \in MemType /\ Sound(Mem, Dirs) /\ p # Nil /\ p \in Dirs
  BY ViewsLook DEF Fork, CanRun, Alive, Mem, Good, Dirs
<1>2. SetUp(Mem, Dirs, q, u) /\ q \in Pages \ K
  BY <1>1, SetupBuilds
<1> HIDE DEF u
<1>3. /\ u \in MemType /\ Build(u, q, K) /\ Kept(Mem, u, K)
      /\ \A k \in Index : u.entry[q][k] = Nil
  BY <1>2 DEF SetUp
<1>4. K \in SUBSET Pages /\ Own(Mem.entry, p) \subseteq K /\ p \in K /\ p \in Pages
  BY <1>1, OwnPages DEF Owned, Sound
<1> HIDE DEF K, p
<1>5. /\ Own(u.entry, p) \subseteq K
      /\ \A k, l \in Index : Sees(u, p, k, l) = Sees(Mem, p, k, l)
  BY <1>3, <1>4, KeptSees
<1>6. Forked(u, p, q, K, n)
  BY <1>3, <1>4, <1>5, ForkBuilds
<1> HIDE DEF n
<1>7. n \in MemType
  BY <1>6 DEF Forked
<1>8. CASE UNCHANGED <<pageVars, env_pgdir>> /\ kernel' = "no_page"
  BY <1>8, StillFine DEF KernelState
<1>9. CASE /\ n.ok = TRUE /\ Mem' = n /\ env_pgdir' = [env_pgdir EXCEPT ![c] = q]
           /\ kernel' = kernel
  <2>1. /\ Build(n, q, K) /\ Kept(Mem, n, K)
        /\ \A k, l \in Index : Sees(n, q, k, l) = Sees(Mem, p, k, l)
    BY <1>3, <1>5, <1>6, <1>9 DEF Forked, Kept
  <2>2. /\ Good(Mem, env_pgdir)' /\ q \in Pages \ Dirs
        /\ Views' = [Views EXCEPT ![c] = ViewOf(n, q)]
    <3>1. /\ q \in Pages \ Owned(Mem, Dirs) /\ Build(n, q, Owned(Mem, Dirs))
          /\ Kept(Mem, n, Owned(Mem, Dirs)) /\ Mem' = n
          /\ env_pgdir' = [env_pgdir EXCEPT ![c] = q] /\ env_pgdir[c] = Nil
      BY <1>1, <1>2, <1>9, <2>1 DEF K
    <3> HIDE DEF q
    <3>2. QED BY <3>1, NewFine
  <2>3. ViewOf(n, q) = Views[e]
    <3>1. \A a \in Addresses : Sees(n, q, a[1], a[2]) = Sees(Mem, p, a[1], a[2])
      BY <2>1 DEF Addresses
    <3>2. Views[e] = ViewOf(Mem, p)
      BY ViewsLook DEF Look, p
    <3>3. q # Nil /\ p # Nil
      BY <1>1
    <3> HIDE DEF q
    <3>4. QED BY <3>1, <3>2, <3>3 DEF ViewOf
  <2>4. Private!Copy(e, c)
    <3>1. e \notin Private!Absent /\ c \in Private!Absent /\ q \in Pages \ Private!Taken
      BY <1>1, <2>2 DEF Private!Absent, Private!Taken, Dirs, Alive, p
    <3>2. Private!Gets(c, q, Views[e])
      BY <1>9, <2>2, <2>3 DEF Private!Gets
    <3>3. QED BY <3>1, <3>2 DEF Private!Copy
  <2>5. QED BY <1>9, <2>2, <2>4 DEF StepFine, Private!MemNext
<1>10. QED BY <1>1, <1>7, <1>8, <1>9, BecomesMem

LEMMA ThreadFine ==
    ASSUME Good(Mem, env_pgdir), kernel \in KernelState, NEW e \in Envs, NEW c \in Envs,
           CreateThread(e, c)
    PROVE  StepFine
<1> DEFINE n == env_setup_vm(Mem)
<1>0. PICK m : m = Mem
  OBVIOUS
<1>1. PICK dir : dir = env_pgdir
  OBVIOUS
<1> DEFINE p == dir[e]
           D == DirsOf(dir)
           K == Owned(m, D)
<1>2. /\ dir[c] = Nil /\ Becomes(n, c, p) /\ m.free # Nil /\ m.ok = TRUE
      /\ m \in MemType /\ Sound(m, D) /\ p # Nil /\ p \in D /\ p \in Pages
      /\ dir \in [Envs -> Pages \cup {Nil}] /\ Views = Look(m, dir)
  BY <1>0, <1>1, ViewsLook DEF CreateThread, CanRun, Alive, Mem, Good, DirsOf
<1>3. SetUp(m, D, m.free, n)
  BY <1>0, <1>2, SetupBuilds
<1> HIDE DEF n
<1>4. n \in MemType /\ Build(n, m.free, K) /\ Kept(m, n, K)
  BY <1>3 DEF SetUp
<1>5. Sound(n, D)
  <2> HIDE DEF D
  <2>1. QED BY <1>2, <1>4, JoinSound
<1>6. CASE UNCHANGED <<pageVars, env_pgdir>> /\ kernel' = "no_page"
  BY <1>6, StillFine DEF KernelState
<1>7. CASE /\ n.ok = TRUE /\ Mem' = n /\ env_pgdir' = [env_pgdir EXCEPT ![c] = p]
           /\ kernel' = kernel
  <2>1. /\ DirsOf([dir EXCEPT ![c] = p]) = D \cup {p}
        /\ [dir EXCEPT ![c] = p] \in [Envs -> Pages \cup {Nil}]
    <3>1. dir[c] = Nil /\ p \in Pages /\ dir \in [Envs -> Pages \cup {Nil}]
      BY <1>2
    <3> HIDE DEF p
    <3>2. QED BY <3>1, SlotFilled
  <2>2. Good(n, [dir EXCEPT ![c] = p])
    <3>1. D \cup {p} = D
      BY <1>2
    <3> HIDE DEF D, p
    <3>2. QED BY <1>4, <1>5, <2>1, <3>1 DEF Good
  <2>3. Good(Mem, env_pgdir)'
    BY <1>1, <1>7, <2>2
  <2>4. Switched(m, n, dir, c, p)
    <3>1. /\ dir \in [Envs -> Pages \cup {Nil}] /\ p \in Pages \cup {Nil}
          /\ Kept(m, n, Owned(m, DirsOf(dir)))
      BY <1>2, <1>4
    <3> HIDE DEF p
    <3>2. QED BY <3>1, LookChange
  <2>5. ViewOf(n, p) = ViewOf(m, p)
    <3>1. Own(m.entry, p) \subseteq K /\ p \in Pages
      BY <1>2 DEF Owned
    <3> HIDE DEF p, K
    <3>2. \A k, l \in Index : Sees(n, p, k, l) = Sees(m, p, k, l)
      BY <1>4, <3>1, KeptSees
    <3>3. QED BY <3>2 DEF ViewOf, Addresses
  <2>6. Views' = [Views EXCEPT ![c] = Views[e]]
    <3>1. Views[e] = ViewOf(m, p)
      BY <1>2 DEF Look
    <3> HIDE DEF p
    <3>2. QED BY <1>1, <1>2, <1>7, <2>4, <2>5, <3>1, ViewsNext DEF Switched
  <2>7. Private!Share(e, c)
    <3>1. e \notin Private!Absent /\ c \in Private!Absent
      BY <1>1, <1>2 DEF Private!Absent
    <3>2. Private!Gets(c, env_pgdir[e], Views[e])
      BY <1>1, <1>7, <2>6 DEF Private!Gets
    <3>3. QED BY <3>1, <3>2 DEF Private!Share
  <2>8. QED BY <1>7, <2>3, <2>7 DEF StepFine, Private!MemNext
<1>8. QED BY <1>2, <1>4, <1>6, <1>7, BecomesMem

\* As long as no other runs in its directory.
LEMMA ExitFine ==
    ASSUME Good(Mem, env_pgdir), kernel \in KernelState, NEW e \in Envs, Exit(e), ExitsAlone
    PROVE  StepFine
<1> DEFINE n == page_decref(Mem, env_pgdir[e])
<1>0. PICK m : m = Mem
  OBVIOUS
<1>1. PICK dir : dir = env_pgdir
  OBVIOUS
<1> DEFINE p == dir[e]
           D == DirsOf(dir)
           new == [dir EXCEPT ![e] = Nil]
<1>2. /\ Becomes(n, e, Nil) /\ m.ok = TRUE /\ m \in MemType /\ Sound(m, D)
      /\ p # Nil /\ p \in D /\ p \in Pages
      /\ dir \in [Envs -> Pages \cup {Nil}] /\ Views = Look(m, dir) /\ e \in Alive
  BY <1>0, <1>1, ViewsLook DEF Exit, CanRun, Alive, Mem, Good, DirsOf
<1>3. n = page_decref(m, p)
  BY <1>0, <1>1
<1> HIDE DEF n
<1>4. n \in MemType /\ n.entry = m.entry /\ n.data = m.data /\ n.ok = m.ok
  <2> HIDE DEF p
  <2>1. QED BY <1>2, <1>3, DecrefFields
<1>5. Sound(n, D \ {p})
  <2> HIDE DEF D, p
  <2>1. QED BY <1>2, <1>3, LeaveSound
<1>6. Mem' = n /\ env_pgdir' = new /\ kernel' = kernel
  <2>1. \/ UNCHANGED <<pageVars, env_pgdir>> /\ kernel' = "no_page"
        \/ /\ n.ok = TRUE /\ Mem' = n /\ env_pgdir' = [env_pgdir EXCEPT ![e] = Nil]
           /\ kernel' = kernel
    BY <1>2, <1>4, BecomesMem
  <2>2. ~ (kernel' = "no_page" /\ UNCHANGED <<pageVars, env_pgdir>>)
    <3>1. env_pgdir' = [env_pgdir EXCEPT ![e] = Nil]
      BY <1>2, <1>4 DEF Becomes
    <3>2. env_pgdir'[e] = Nil /\ env_pgdir[e] # Nil
      BY <1>1, <1>2, <3>1
    <3>3. QED BY <3>2
  <2>3. QED BY <1>1, <2>1, <2>2
<1>7. \A f \in Envs \ {e} : dir[f] # dir[e]
  <2>1. env_pgdir'[e] = Nil
    BY <1>2, <1>6
  <2>2. \A f \in Alive \ {e} : env_pgdir[f] # env_pgdir[e]
    BY <1>2, <2>1 DEF ExitsAlone
  <2>3. QED BY <1>1, <1>2, <2>2 DEF Alive
<1>8. Good(n, new)
  <2>1. DirsOf(new) = D \ {p} /\ new \in [Envs -> Pages \cup {Nil}]
    BY <1>2, <1>7, SlotEmptied
  <2> HIDE DEF new, D, p
  <2>2. QED BY <1>4, <1>5, <2>1 DEF Good
<1>9. Good(Mem, env_pgdir)'
  <2> HIDE DEF new
  <2>1. QED BY <1>6, <1>8
<1>10. Switched(m, n, dir, e, Nil)
  <2>1. Kept(m, n, Owned(m, DirsOf(dir))) /\ Nil \in Pages \cup {Nil}
    BY <1>4 DEF Kept
  <2>2. QED BY <1>2, <2>1, LookChange
<1>11. Private!Vanish(e)
  <2>1. ViewOf(n, Nil) = Private!Nothing
    BY DEF ViewOf, Private!Nothing
  <2>2. Views' = [Views EXCEPT ![e] = Private!Nothing]
    BY <1>2, <1>6, <1>10, <2>1, ViewsNext DEF Switched
  <2>3. e \notin Private!Absent
    BY <1>1, <1>2 DEF Private!Absent
  <2>4. env_pgdir' = [env_pgdir EXCEPT ![e] = Nil]
    BY <1>1, <1>6
  <2>5. QED BY <2>2, <2>3, <2>4 DEF Private!Vanish, Private!Gets
<1>12. QED BY <1>6, <1>9, <1>11 DEF StepFine, Private!MemNext

LEMMA WriteFine ==
    ASSUME Good(Mem, env_pgdir), kernel \in KernelState, NEW e \in Envs, NEW a \in Addresses,
           NEW v \in Values, Write(e, a, v)
    PROVE  StepFine
<1>0. PICK m : m = Mem
  OBVIOUS
<1>1. PICK dir : dir = env_pgdir
  OBVIOUS
<1>2. PICK n : n = Mem'
  OBVIOUS
<1> DEFINE q == At(m.entry, dir[e], a[1], a[2])
<1>3. /\ m \in MemType /\ dir \in [Envs -> Pages \cup {Nil}] /\ Sound(m, DirsOf(dir))
      /\ dir[e] # Nil /\ Views = Look(m, dir)
  BY <1>0, <1>1, ViewsLook DEF Write, CanRun, Alive, Good
<1>4. q = Lookup(env_pgdir[e], a) /\ q # Nil
  BY <1>0, <1>1 DEF Write, Lookup, At, Mem
<1>5. /\ n.entry = m.entry /\ n.link = m.link /\ n.free = m.free /\ n.ref = m.ref
      /\ n.ok = m.ok /\ n.data = [m.data EXCEPT ![q] = v]
      /\ env_pgdir' = dir /\ kernel' = kernel
  BY <1>0, <1>1, <1>2, <1>4 DEF Write, Mem
<1>6. n \in MemType
  <2>1. n = [ref |-> n.ref, link |-> n.link, free |-> n.free, entry |-> n.entry,
             data |-> n.data, ok |-> n.ok]
    BY <1>2 DEF Mem
  <2> HIDE DEF q
  <2>2. n.data \in [Pages -> Values]
    BY <1>3, <1>5 DEF MemType
  <2>3. QED BY <1>3, <1>5, <2>1, <2>2 DEF MemType
<1>7. Sound(n, DirsOf(dir))
  BY <1>3, <1>5 DEF Sound, Owned
<1>8. Good(Mem, env_pgdir)'
  BY <1>2, <1>3, <1>5, <1>6, <1>7 DEF Good
<1>9. Stored(m, n, dir, e, a, v)
  BY <1>3, <1>4, <1>5, LookStore
<1>10. Views' = Look(n, dir)
  BY <1>2, <1>5, ViewsNext
<1>11. Private!Store(e, a, v)
  <2>1. Views[e][a] # Nil
    <3>1. Views[e][a] = m.data[q]
      BY <1>3, <1>4 DEF Look, ViewOf, Sees
    <3>2. q \in Pages
      BY <1>3, <1>4 DEF MemType, Entries, At, Addresses
    <3>3. QED BY <1>3, <3>1, <3>2, MemoryAssumption DEF MemType
  <2>2. e \notin Private!Absent
    BY <1>1, <1>3 DEF Private!Absent
  <2>3. UNCHANGED env_pgdir
    BY <1>1, <1>5
  <2>4. Views' = [f \in Envs |-> IF env_pgdir[f] = env_pgdir[e]
                                 THEN [Views[f] EXCEPT ![a] = v] ELSE Views[f]]
    BY <1>1, <1>3, <1>9, <1>10 DEF Stored
  <2>5. QED BY <2>1, <2>2, <2>3, <2>4 DEF Private!Store
<1>12. QED BY <1>5, <1>8, <1>11 DEF StepFine, Private!MemNext

MemInv == apart => Good(Mem, env_pgdir) /\ kernel \in KernelState

LEMMA InitFine == MCInit => MemInv /\ (apart => Private!MemInit)
<1> SUFFICES ASSUME Init PROVE Good(Mem, env_pgdir) /\ kernel \in KernelState /\ Private!MemInit
  BY DEF MCInit, MemInv
<1>1. Mem \in MemType
  BY Constants, MemoryAssumption DEF Init, Mem, MemType, Entries, Pages, Nil
<1>2. env_pgdir \in [Envs -> Pages \cup {Nil}] /\ DirsOf(env_pgdir) = {}
  BY DEF Init, DirsOf
<1>3. IsList(pp_link, page_free_list, Pages)
  <2>1. pp_link = [e \in 0 .. NPAGES - 1 |-> IF e = NPAGES - 1 THEN Nil ELSE e + 1]
    BY DEF Init, Pages
  <2>2. IsList(pp_link, 0, 0 .. NPAGES - 1)
    BY <2>1, MemoryAssumption, InitialList
  <2>3. QED BY <2>2 DEF Init, Pages
<1>4. Sound(Mem, {})
  <2>1. Mem.link = pp_link /\ Mem.free = page_free_list
    BY DEF Mem
  <2>2. QED BY <1>3, <2>1 DEF Sound, Owned
<1>5. Views = [e \in Envs |-> Private!Nothing]
  BY DEF Init, Views, Alive, Private!Nothing
<1>6. Private!MemInit
  BY <1>5 DEF Init, Private!MemInit
<1>7. QED BY <1>1, <1>2, <1>4, <1>6 DEF Good, Init, KernelState

LEMMA NextFine ==
    MemInv /\ [MCNext]_<<vars, apart>> =>
        MemInv' /\ (apart => [Private!MemNext]_(Private!memVars)) /\ apart' = apart
<1> SUFFICES ASSUME MemInv, [MCNext]_<<vars, apart>>
             PROVE  MemInv' /\ (apart => [Private!MemNext]_(Private!memVars)) /\ apart' = apart
  OBVIOUS
<1>1. apart' = apart
  BY DEF MCNext
<1>2. ASSUME apart PROVE StepFine
  <2>1. Good(Mem, env_pgdir) /\ kernel \in KernelState
    BY <1>2 DEF MemInv
  <2>2. CASE UNCHANGED <<vars, apart>>
    <3>1. UNCHANGED <<pageVars, env_pgdir>> /\ kernel' \in KernelState
      BY <2>1, <2>2 DEF vars
    <3>2. QED BY <2>1, <3>1, StillFine
  <2>3. CASE MCNext
    <3>1. Next /\ ExitsAlone
      BY <1>2, <2>3 DEF MCNext
    <3>2. CASE AllocFails
      BY <2>1, <3>2, StillFine DEF AllocFails, Stops, KernelState
    <3>3. ASSUME NEW c \in Envs, Load(c) PROVE StepFine
      BY <2>1, <3>3, LoadFine
    <3>4. ASSUME NEW e \in Envs, NEW c \in Envs, Fork(e, c) PROVE StepFine
      BY <2>1, <3>4, ForkFine
    <3>5. ASSUME NEW e \in Envs, NEW c \in Envs, CreateThread(e, c) PROVE StepFine
      BY <2>1, <3>5, ThreadFine
    <3>6. ASSUME NEW e \in Envs, Exit(e) PROVE StepFine
      BY <2>1, <3>1, <3>6, ExitFine
    <3>7. ASSUME NEW e \in Envs, NEW a \in Addresses, NEW v \in Values, Write(e, a, v)
          PROVE  StepFine
      BY <2>1, <3>7, WriteFine
    <3>8. ASSUME NEW e \in Envs, Fault(e) PROVE StepFine
      BY <2>1, <3>8, StillFine DEF Fault, Stops, KernelState
    <3>9. QED BY <3>1, <3>2, <3>3, <3>4, <3>5, <3>6, <3>7, <3>8 DEF Next
  <2>4. QED BY <2>2, <2>3
<1>3. MemInv'
  BY <1>1, <1>2 DEF MemInv, StepFine
<1>4. QED BY <1>1, <1>2, <1>3 DEF StepFine

LEMMA InvMapped == MemInv => MappedOnceApart
<1> SUFFICES ASSUME MemInv, apart PROVE MappedOnce
  BY DEF MappedOnceApart
<1>1. MemTyped /\ Sound(Mem, Dirs)
  BY ViewsLook DEF MemInv, Good, MemTyped, DirType
<1>2. QED BY <1>1, SoundMapped

LEMMA MemInvHolds == MCSpec => []MemInv
<1>1. MemInv /\ [MCNext]_<<vars, apart>> => MemInv'
  BY NextFine
<1>2. QED BY <1>1, InitFine, PTL DEF MCSpec

-----------------------------------------------------------------------------
(***************************************************************************)
(* The free pages, whoever shares and exits                                *)
(***************************************************************************)

\* The pages there are: tables T, pages of programs P, pages lost to threads L; and
\* directories, those that were, and free pages.  Only directories have tables, and
\* only tables have pages of programs, each once.  That a directory is in use by
\* somebody does not matter.
Kinds(en, T, P, L) ==
    /\ T \in SUBSET Pages /\ P \in SUBSET Pages /\ L \in SUBSET Pages
    /\ T \cap P = {} /\ L \cap (T \cup P) = {}
    /\ \A x \in P \cup L, i \in Index : en[x][i] = Nil
    /\ \A x \in T, i \in Index : en[x][i] \in P \cup {Nil}
    /\ \A x \in Pages \ T, i \in Index : en[x][i] \in T \cup {Nil}
    /\ \A x, y \in T, i, j \in Index : en[x][i] = en[y][j] /\ en[x][i] # Nil => x = y /\ i = j

\* How a count looks that was counted to k, below 0 too.
Wrap(k) == IF k >= 0 THEN k ELSE k + RefMod

\* The list F of free pages, and the counts s of directories and free pages: h[x] slots
\* name x as their directory, and there are at most lost more of them than were
\* counted.  No free page has a count that would be 0 if it was given back again.
Counted(m, T, P, L, F, s, h, lost) ==
    /\ F \in SUBSET Pages /\ F \cap (T \cup P \cup L) = {} /\ IsList(m.link, m.free, F)
    /\ s \in [Pages -> Int]
    /\ \A x \in Pages \ (T \cup P \cup L) :
          m.ref[x] = Wrap(s[x]) /\ s[x] <= 1 /\ h[x] <= s[x] + lost
    /\ \A x \in F : s[x] <= 0
    /\ \A x \in P : h[x] <= lost

LEMMA UpWrap ==
    ASSUME NEW k \in Int, k <= 0, k > -RefMod
    PROVE  Up(Wrap(k)) = Wrap(k + 1)
<1>1. CASE k = 0
  BY <1>1, MemoryAssumption DEF Up, Wrap
<1>2. CASE k = -1
  BY <1>2, MemoryAssumption DEF Up, Wrap
<1>3. CASE k < -1
  <2> DEFINE r == k + RefMod + 1
  <2>1. Wrap(k) + 1 = r /\ Wrap(k + 1) = r /\ r \in 0 .. RefMod - 1
    BY <1>3, MemoryAssumption DEF Wrap
  <2> HIDE DEF r
  <2>2. r % RefMod = r
    BY <2>1, MemoryAssumption
  <2>3. QED BY <2>1, <2>2 DEF Up
<1>4. QED BY <1>1, <1>2, <1>3

LEMMA DownWrap ==
    ASSUME NEW k \in Int, k <= 1, k > 1 - RefMod
    PROVE  Down(Wrap(k)) = Wrap(k - 1) /\ (Wrap(k - 1) = 0 <=> k = 1)
<1>1. CASE k = 1
  BY <1>1, MemoryAssumption DEF Down, Wrap
<1>2. CASE k = 0
  BY <1>2, MemoryAssumption DEF Down, Wrap
<1>3. CASE k < 0
  <2> DEFINE r == k + RefMod - 1
  <2>1. /\ Wrap(k) = r + 1 /\ Wrap(k - 1) = r /\ r \in 1 .. RefMod - 1
    BY <1>3, MemoryAssumption DEF Wrap
  <2>2. Down(Wrap(k)) = (r + RefMod) % RefMod
    BY <2>1, MemoryAssumption DEF Down
  <2> HIDE DEF r
  <2>3. (r + RefMod) % RefMod = r
    BY <2>1, MemoryAssumption
  <2>4. QED BY <1>3, <2>1, <2>2, <2>3
<1>4. QED BY <1>1, <1>2, <1>3

\* Directory c is being built, next to whatever there is; its program counts in h
\* already.  Pages Q are taken for it but are in no table yet.
Shape(m, c, Q, T, P, L, F, s, h, lost) ==
    /\ Kinds(m.entry, T, P, L) /\ Counted(m, T, P, L, F, s, h, lost)
    /\ c \notin P \cup F /\ Q \subseteq P
    /\ \A x \in T, i \in Index : m.entry[x][i] \notin Q

Under(m, c, Q, T, L, h, lost) ==
    /\ m \in MemType /\ m.ok = TRUE /\ c \in Pages \ (T \cup L)
    /\ \E P, F \in SUBSET Pages, s \in [Pages -> Int] : Shape(m, c, Q, T, P, L, F, s, h, lost)

\* The first free page is taken and cleared.
Taken(m, n) ==
    /\ n \in MemType /\ n.ok = m.ok /\ n.link = m.link /\ n.free = m.link[m.free]
    /\ \A x \in Pages \ {m.free} : n.entry[x] = m.entry[x] /\ n.ref[x] = m.ref[x]
    /\ \A i \in Index : n.entry[m.free][i] = Nil

\* It is for a program, or a table.
LEMMA TakeShape ==
    ASSUME NEW m, NEW c, NEW Q, NEW T, NEW L, NEW h, NEW lost \in Nat,
           h \in [Pages -> Nat], Under(m, c, Q, T, L, h, lost), m.free # Nil,
           NEW n, Taken(m, n)
    PROVE  /\ Under(n, c, Q \cup {m.free}, T, L, h, lost)
           /\ Under(n, c, Q, T \cup {m.free}, L, h, lost)
           /\ m.free \in Pages \ T /\ m.free # c
<1> DEFINE p == m.free
<1>1. /\ m \in MemType /\ n \in MemType /\ n.ok = TRUE /\ c \in Pages \ (T \cup L)
  BY DEF Under, Taken
<1>2. PICK P \in SUBSET Pages, F \in SUBSET Pages, s \in [Pages -> Int] :
         Shape(m, c, Q, T, P, L, F, s, h, lost)
  BY DEF Under
<1>3. Kinds(m.entry, T, P, L) /\ Counted(m, T, P, L, F, s, h, lost)
  BY <1>2 DEF Shape
<1>4. /\ p \in F /\ p \in Pages \ (T \cup P \cup L) /\ p # c /\ Nil \notin Pages
      /\ IsList(m.link, m.link[p], F \ {p}) /\ F \subseteq Pages
  <2>1. IsList(m.link, p, F) /\ p # Nil
    BY <1>3 DEF Counted
  <2> HIDE DEF p
  <2>2. p \in F /\ IsList(m.link, m.link[p], F \ {p})
    BY <2>1, ListPop
  <2>3. QED BY <1>2, <1>3, <2>2, Constants DEF Counted, Shape
<1>5. /\ \A x \in Pages \ {p} : n.entry[x] = m.entry[x] /\ n.ref[x] = m.ref[x]
      /\ \A i \in Index : n.entry[p][i] = Nil
      /\ n.link = m.link /\ n.free = m.link[p]
  BY DEF Taken
<1> HIDE DEF p
<1>6. h[p] <= lost /\ h[p] \in Nat
  <2>1. h[p] <= s[p] + lost /\ s[p] <= 0 /\ s[p] \in Int /\ h[p] \in Nat
    BY <1>3, <1>4 DEF Counted
  <2>2. QED BY <2>1
<1>7. Shape(n, c, Q \cup {p}, T, P \cup {p}, L, F \ {p}, s, h, lost)
  <2>1. Kinds(n.entry, T, P \cup {p}, L)
    BY <1>3, <1>4, <1>5 DEF Kinds
  <2>2. Counted(n, T, P \cup {p}, L, F \ {p}, s, h, lost)
    BY <1>3, <1>4, <1>5, <1>6 DEF Counted
  <2>3. \A x \in T, i \in Index : n.entry[x][i] \notin Q \cup {p}
    BY <1>2, <1>3, <1>4, <1>5 DEF Shape, Kinds
  <2>4. QED BY <1>2, <1>4, <2>1, <2>2, <2>3 DEF Shape
<1>8. Shape(n, c, Q, T \cup {p}, P, L, F \ {p}, s, h, lost)
  <2>1. Kinds(n.entry, T \cup {p}, P, L)
    BY <1>3, <1>4, <1>5 DEF Kinds
  <2>2. Counted(n, T \cup {p}, P, L, F \ {p}, s, h, lost)
    BY <1>3, <1>4, <1>5 DEF Counted
  <2>3. \A x \in T \cup {p}, i \in Index : n.entry[x][i] \notin Q
    <3>1. T \subseteq Pages /\ Nil \notin Q /\ \A x \in T, i \in Index : m.entry[x][i] \notin Q
      BY <1>2, <1>3, <1>4 DEF Shape, Kinds
    <3>2. QED BY <1>4, <1>5, <3>1
  <2>4. QED BY <1>2, <1>4, <2>1, <2>2, <2>3 DEF Shape
<1>9. Under(n, c, Q \cup {p}, T, L, h, lost)
  BY <1>1, <1>4, <1>7 DEF Under
<1>10. Under(n, c, Q, T \cup {p}, L, h, lost)
  BY <1>1, <1>4, <1>8 DEF Under
<1>11. QED BY <1>4, <1>9, <1>10 DEF p, Kinds

\* What is not about links, entries and counts makes no difference.
LEMMA ShapeFrame ==
    ASSUME NEW m, NEW c, NEW Q, NEW T, NEW L, NEW h, NEW lost,
           Under(m, c, Q, T, L, h, lost),
           NEW n \in MemType, n.ok = m.ok, n.link = m.link, n.free = m.free,
           n.entry = m.entry, NEW R, R \subseteq Q, \A x \in Pages \ R : n.ref[x] = m.ref[x]
    PROVE  Under(n, c, Q, T, L, h, lost)
<1>1. PICK P \in SUBSET Pages, F \in SUBSET Pages, s \in [Pages -> Int] :
         Shape(m, c, Q, T, P, L, F, s, h, lost)
  BY DEF Under
<1>2. Counted(n, T, P, L, F, s, h, lost)
  BY <1>1 DEF Shape, Counted
<1>3. Shape(n, c, Q, T, P, L, F, s, h, lost)
  BY <1>1, <1>2 DEF Shape
<1>4. QED BY <1>3 DEF Under

LEMMA WalkRefs ==
    ASSUME NEW m \in MemType, NEW d \in Pages, NEW i \in Index, m.entry[d][i] = Nil,
           m.free # Nil
    PROVE  LET n == [page_alloc(m) EXCEPT !.ref[m.free] = Up(@)]
           IN Taken(m, n) /\ pgdir_walk(m, d, i) = [n EXCEPT !.entry[d][i] = m.free]
<1> DEFINE r == Up(m.ref[m.free])
           n == [page_alloc(m) EXCEPT !.ref[m.free] = r]
<1>1. r \in 0 .. RefMod - 1 /\ m.free \in Pages /\ m.entry \in Entries
  BY Counts DEF MemType
<1>2. page_alloc(m).ref = m.ref
  BY AllocFields
<1>3. [page_alloc(m) EXCEPT !.ref[m.free] = Up(@)] = n
  BY <1>2
<1>4. pgdir_walk(m, d, i) = [n EXCEPT !.entry[d][i] = m.free]
  BY <1>2 DEF pgdir_walk, page_alloc, MemType
<1>5. \A x \in Pages \ {m.free} : n.ref[x] = m.ref[x]
  BY DEF page_alloc, MemType
<1> HIDE DEF r
<1>6. /\ n \in MemType /\ n.ok = m.ok /\ n.link = m.link /\ n.free = m.link[m.free]
      /\ n.entry = [m.entry EXCEPT ![m.free] = Empty]
  BY <1>1, TakenFields
<1> HIDE DEF n
<1>7. Taken(m, n)
  BY <1>1, <1>5, <1>6 DEF Taken, Entries, Empty
<1>8. QED BY <1>3, <1>4, <1>7

\* Directory c has a table i in w.
Deeper(m, c, Q, i, T, L, h, lost, w) ==
    \E U \in SUBSET Pages :
       /\ T \subseteq U /\ Under(w, c, Q, U, L, h, lost) /\ w.entry[c][i] \in U
       /\ \A x \in T : w.entry[x] = m.entry[x]

LEMMA WalkShape ==
    ASSUME NEW m, NEW c, NEW Q, NEW T, NEW L, NEW h \in [Pages -> Nat], NEW lost \in Nat,
           Under(m, c, Q, T, L, h, lost), NEW i \in Index, pgdir_walk(m, c, i).ok = TRUE
    PROVE  Deeper(m, c, Q, i, T, L, h, lost, pgdir_walk(m, c, i))
<1> DEFINE w == pgdir_walk(m, c, i)
           p == m.free
<1>1. /\ m \in MemType /\ m.ok = TRUE /\ c \in Pages \ (T \cup L)
      /\ m.entry \in Entries
  BY DEF Under, MemType
<1>2. T \in SUBSET Pages /\ \A x \in Pages \ T, j \in Index : m.entry[x][j] \in T \cup {Nil}
  BY DEF Under, Shape, Kinds
<1>3. CASE m.entry[c][i] # Nil
  <2>1. w = m
    BY <1>3 DEF pgdir_walk
  <2>2. m.entry[c][i] \in T
    BY <1>1, <1>2, <1>3
  <2>3. QED BY <1>2, <2>1, <2>2 DEF Deeper
<1>4. CASE m.entry[c][i] = Nil
  <2> DEFINE n == [page_alloc(m) EXCEPT !.ref[p] = Up(@)]
             U == T \cup {p}
  <2>1. p # Nil
    BY <1>4 DEF pgdir_walk, Failed, MemType, Under
  <2>2. Taken(m, n) /\ w = [n EXCEPT !.entry[c][i] = m.free]
    BY <1>1, <1>4, <2>1, WalkRefs
  <2> HIDE DEF n, w
  <2>3. Under(n, c, Q, T \cup {m.free}, L, h, lost) /\ m.free \in Pages \ T /\ m.free # c
    BY <2>1, <2>2, TakeShape
  <2>4. Under(n, c, Q, U, L, h, lost) /\ p \in Pages \ T /\ p # c /\ U \in SUBSET Pages
    BY <1>2, <2>3
  <2>5. /\ w \in MemType /\ w.ok = TRUE /\ w.link = n.link /\ w.free = n.free /\ w.ref = n.ref
        /\ \A x \in Pages \ {c} : w.entry[x] = n.entry[x]
        /\ \A k \in Index : w.entry[c][k] = IF k = i THEN p ELSE n.entry[c][k]
    <3>1. w = [n EXCEPT !.entry[c][i] = p] /\ p \in Pages /\ n \in MemType /\ n.ok = TRUE
      BY <1>1, <2>2, <2>4 DEF Taken, p
    <3> HIDE DEF p
    <3>2. QED BY <1>1, <3>1 DEF MemType, Entries
  <2> HIDE DEF U, p
  <2>6. PICK P \in SUBSET Pages, F \in SUBSET Pages, s \in [Pages -> Int] :
           Shape(n, c, Q, U, P, L, F, s, h, lost)
    BY <2>4 DEF Under
  <2>7. c \in Pages \ (U \cup P \cup L) /\ p \in U /\ U \subseteq Pages
    BY <1>1, <2>4, <2>6 DEF Under, Shape, U
  <2>8. Shape(w, c, Q, U, P, L, F, s, h, lost)
    <3>1. Kinds(n.entry, U, P, L) /\ Counted(n, U, P, L, F, s, h, lost)
      BY <2>6 DEF Shape
    <3>2. Kinds(w.entry, U, P, L)
      BY <2>5, <2>7, <3>1 DEF Kinds
    <3>3. Counted(w, U, P, L, F, s, h, lost)
      BY <2>5, <3>1 DEF Counted
    <3>4. QED BY <2>5, <2>6, <2>7, <3>2, <3>3 DEF Shape
  <2>9. Under(w, c, Q, U, L, h, lost)
    BY <2>5, <2>6, <2>7, <2>8 DEF Under
  <2>10. w.entry[c][i] \in U
    BY <2>5, <2>7
  <2>11. \A x \in T : w.entry[x] = m.entry[x]
    BY <1>1, <1>2, <2>2, <2>4, <2>5 DEF Taken, p
  <2>12. QED BY <2>4, <2>9, <2>10, <2>11 DEF U, w, Deeper
<1>5. QED BY <1>3, <1>4

\* Page p comes to entry j of the table t, and the page that was there may be free
\* now: then nothing names it any more.
Released(m, q, n) ==
    /\ \A x \in Pages \ {q} : n.ref[x] = m.ref[x]
    /\ \/ n.link = m.link /\ n.free = m.free
       \/ /\ q \in Pages /\ n.ref[q] = 0
          /\ n.link = [m.link EXCEPT ![q] = m.free] /\ n.free = q

LEMMA PlaceRefs ==
    ASSUME NEW m \in MemType, NEW t \in Pages, NEW j \in Index, NEW p \in Pages
    PROVE  Released(m, m.entry[t][j], [page_remove(m, t, j) EXCEPT !.entry[t][j] = p])
<1> DEFINE q == m.entry[t][j]
           k == page_remove(m, t, j)
           n == [k EXCEPT !.entry[t][j] = p]
<1>1. q \in Pages \cup {Nil}
  BY DEF MemType, Entries
<1>2. CASE q = Nil
  <2>1. k = m
    BY <1>2 DEF page_remove
  <2> HIDE DEF k
  <2>2. n.ref = m.ref /\ n.link = m.link /\ n.free = m.free
    BY <2>1 DEF MemType
  <2> HIDE DEF n, q
  <2>3. Released(m, q, n)
    BY <2>2 DEF Released
  <2>4. QED BY <2>3 DEF n, q, k
<1>3. CASE q # Nil
  <2> DEFINE o == page_decref(m, q)
  <2>1. o \in MemType
    BY <1>1, <1>3, DecrefFields
  <2>2. Released(m, q, o)
    <3> HIDE DEF q
    <3>1. QED BY <1>1, <1>3 DEF page_decref, page_free, MemType, Released
  <2>3. k = [o EXCEPT !.entry[t][j] = Nil]
    BY <1>3 DEF page_remove
  <2> HIDE DEF o, q, k
  <2>4. k.ref = o.ref /\ k.link = o.link /\ k.free = o.free /\ k \in MemType
    BY <2>1, <2>3 DEF MemType, Entries
  <2>5. n.ref = o.ref /\ n.link = o.link /\ n.free = o.free
    BY <2>4 DEF MemType
  <2> HIDE DEF n
  <2>6. Released(m, q, n)
    BY <2>2, <2>5 DEF Released
  <2>7. QED BY <2>6 DEF n, q, k
<1>4. QED BY <1>2, <1>3

PutIn(m, c, p, T, L, h, lost, t, j, n) ==
    /\ n \in MemType /\ Under(n, c, {}, T, L, h, lost) /\ p # Nil
    /\ \A l \in Index : n.entry[t][l] = IF l = j THEN p ELSE m.entry[t][l]
    /\ \A x \in Pages \ {t} : n.entry[x] = m.entry[x]

LEMMA PlaceShape ==
    ASSUME NEW m, NEW c, NEW p, NEW T, NEW L, NEW h, NEW lost \in Nat, h \in [Pages -> Nat],
           Under(m, c, {p}, T, L, h, lost), NEW t \in T, NEW j \in Index
    PROVE  PutIn(m, c, p, T, L, h, lost, t, j, [page_remove(m, t, j) EXCEPT !.entry[t][j] = p])
<1> DEFINE n == [page_remove(m, t, j) EXCEPT !.entry[t][j] = p]
           q == m.entry[t][j]
<1>1. m \in MemType /\ m.ok = TRUE /\ c \in Pages \ (T \cup L)
  BY DEF Under
<1>2. PICK P \in SUBSET Pages, F \in SUBSET Pages, s \in [Pages -> Int] :
         Shape(m, c, {p}, T, P, L, F, s, h, lost)
  BY DEF Under
<1>3. /\ Kinds(m.entry, T, P, L) /\ Counted(m, T, P, L, F, s, h, lost) /\ c \notin P \cup F
      /\ p \in P /\ \A x \in T, i \in Index : m.entry[x][i] # p
  BY <1>2 DEF Shape
<1>4. /\ t \in Pages \ P /\ p \in Pages /\ q \in P \cup {Nil} /\ q # p /\ T \subseteq Pages
      /\ Nil \notin Pages /\ t # c
  BY <1>1, <1>3, Constants DEF Kinds
<1>5. Placed(m, t, j, p, n) /\ Released(m, q, n)
  BY <1>1, <1>4, PlaceFields, PlaceRefs
<1>6. /\ n \in MemType /\ n.ok = TRUE
      /\ \A l \in Index : n.entry[t][l] = IF l = j THEN p ELSE m.entry[t][l]
      /\ \A x \in Pages \ {t} : n.entry[x] = m.entry[x]
  BY <1>1, <1>5 DEF Placed
<1> HIDE DEF n, q
<1>7. \A x \in T, i \in Index : n.entry[x][i] # Nil /\ n.entry[x][i] # p =>
         n.entry[x][i] = m.entry[x][i] /\ (q # Nil => n.entry[x][i] # q)
  <2> SUFFICES ASSUME NEW x \in T, NEW i \in Index, n.entry[x][i] # Nil, n.entry[x][i] # p
               PROVE  n.entry[x][i] = m.entry[x][i] /\ (q # Nil => n.entry[x][i] # q)
    OBVIOUS
  <2>1. ~ (x = t /\ i = j) /\ n.entry[x][i] = m.entry[x][i]
    BY <1>4, <1>6
  <2>2. QED BY <1>3, <2>1 DEF Kinds, q
<1>8. \A x \in T, i \in Index : n.entry[x][i] = p => x = t /\ i = j
  BY <1>3, <1>4, <1>6
<1>9. \A x \in T, i \in Index : n.entry[x][i] \in (P \ {q}) \cup {Nil}
  <2>1. \A x \in T, i \in Index : n.entry[x][i] \in P \cup {Nil}
    BY <1>3, <1>4, <1>6 DEF Kinds
  <2>2. QED BY <1>4, <1>7, <2>1
<1>10. \A x, y \in T, i, k \in Index :
          n.entry[x][i] = n.entry[y][k] /\ n.entry[x][i] # Nil => x = y /\ i = k
  BY <1>3, <1>7, <1>8 DEF Kinds
<1>11. ASSUME NEW R \in SUBSET P, P \ {q} \subseteq R PROVE Kinds(n.entry, T, R, L)
  <2>1. \A x \in Pages \ T : n.entry[x] = m.entry[x]
    BY <1>6
  <2>2. \A x \in T, i \in Index : n.entry[x][i] \in R \cup {Nil}
    BY <1>9, <1>11
  <2>3. /\ T \in SUBSET Pages /\ L \in SUBSET Pages /\ T \cap R = {} /\ L \cap (T \cup R) = {}
        /\ \A x \in R \cup L, i \in Index : n.entry[x][i] = Nil
        /\ \A x \in Pages \ T, i \in Index : n.entry[x][i] \in T \cup {Nil}
    BY <1>3, <2>1 DEF Kinds
  <2>4. QED BY <1>10, <2>2, <2>3 DEF Kinds
<1>12. CASE n.link = m.link /\ n.free = m.free
  <2>1. Kinds(n.entry, T, P, L)
    BY <1>11
  <2>2. Counted(n, T, P, L, F, s, h, lost)
    BY <1>3, <1>4, <1>5, <1>12 DEF Counted, Released, Kinds
  <2>3. Shape(n, c, {}, T, P, L, F, s, h, lost)
    BY <1>3, <2>1, <2>2 DEF Shape
  <2>4. Under(n, c, {}, T, L, h, lost)
    BY <1>1, <1>6, <2>3 DEF Under
  <2>5. QED BY <1>4, <1>6, <2>4, Constants DEF n, PutIn
<1>13. CASE /\ q \in Pages /\ n.ref[q] = 0
            /\ n.link = [m.link EXCEPT ![q] = m.free] /\ n.free = q
  <2> DEFINE R == P \ {q}
             E == F \cup {q}
             r == [s EXCEPT ![q] = 0]
  <2>1. Kinds(n.entry, T, R, L)
    BY <1>11
  <2>2. q \in P /\ q \notin F /\ q # c /\ q \notin T /\ q \notin L
    BY <1>3, <1>4, <1>13, Constants DEF Kinds, Counted
  <2>3. IsList(n.link, n.free, E)
    <3>1. IsList(m.link, m.free, F) /\ m.link \in [Pages -> Pages \cup {Nil}]
      BY <1>1, <1>3 DEF Counted, MemType
    <3>2. QED BY <1>13, <2>2, <3>1, ListPush, Constants
  <2>4. Counted(n, T, R, L, E, r, h, lost)
    <3>1. r \in [Pages -> Int] /\ E \in SUBSET Pages /\ E \cap (T \cup R \cup L) = {}
      BY <1>3, <1>13, <2>2 DEF Counted
    <3>2. ASSUME NEW x \in Pages \ (T \cup R \cup L)
          PROVE  n.ref[x] = Wrap(r[x]) /\ r[x] <= 1 /\ h[x] <= r[x] + lost
      <4>1. CASE x = q
        <5>1. h[q] <= lost /\ h[q] \in Nat
          BY <1>3, <1>13, <2>2 DEF Counted
        <5>2. QED BY <1>13, <4>1, <5>1 DEF Wrap
      <4>2. CASE x # q
        BY <1>3, <1>5, <4>2 DEF Counted, Released
      <4>3. QED BY <4>1, <4>2
    <3>3. \A x \in E : r[x] <= 0
      BY <1>3, <1>13 DEF Counted
    <3>4. \A x \in R : h[x] <= lost
      BY <1>3 DEF Counted
    <3>5. QED BY <2>3, <3>1, <3>2, <3>3, <3>4 DEF Counted
  <2>5. Shape(n, c, {}, T, R, L, E, r, h, lost)
    BY <1>3, <2>1, <2>2, <2>4 DEF Shape
  <2>6. Under(n, c, {}, T, L, h, lost)
    <3>1. R \in SUBSET Pages /\ E \in SUBSET Pages /\ r \in [Pages -> Int]
      BY <1>13
    <3> HIDE DEF R, E, r
    <3>2. QED BY <1>1, <1>6, <2>5, <3>1 DEF Under
  <2>7. QED BY <1>4, <1>6, <2>6, Constants DEF n, PutIn
<1>14. QED BY <1>5, <1>12, <1>13 DEF Released

\* Afterwards there are more tables, and what was mapped is.
Grown(m, c, T, L, h, lost, n) ==
    \E U \in SUBSET Pages :
       /\ T \subseteq U /\ Under(n, c, {}, U, L, h, lost)
       /\ \A x \in T, l \in Index : m.entry[x][l] # Nil => n.entry[x][l] # Nil

LEMMA InsertShape ==
    ASSUME NEW m, NEW c, NEW p, NEW T, NEW L, NEW lost \in Nat, NEW h \in [Pages -> Nat],
           Under(m, c, {p}, T, L, h, lost), NEW a \in Addresses,
           page_insert(m, c, p, a).ok = TRUE
    PROVE  Grown(m, c, T, L, h, lost, page_insert(m, c, p, a))
<1> DEFINE w == pgdir_walk(m, c, a[1])
           t == w.entry[c][a[1]]
           v == [w EXCEPT !.ref[p] = Up(@)]
           n == [page_remove(v, t, a[2]) EXCEPT !.entry[t][a[2]] = p]
<1>1. m \in MemType /\ c \in Pages /\ a[1] \in Index /\ a[2] \in Index
  BY DEF Under, Addresses
<1>2. w \in MemType
  BY <1>1, WalkFields DEF Walked
<1>3. w.ok = TRUE /\ page_insert(m, c, p, a) = n
  BY <1>2 DEF page_insert, MemType
<1> HIDE DEF n, v
<1>4. PICK U \in SUBSET Pages :
         /\ T \subseteq U /\ Under(w, c, {p}, U, L, h, lost) /\ t \in U
         /\ \A x \in T : w.entry[x] = m.entry[x]
  <2> DEFINE i == a[1]
  <2>1. i \in Index /\ pgdir_walk(m, c, i).ok = TRUE
    BY <1>1, <1>3
  <2> HIDE DEF i
  <2>2. Deeper(m, c, {p}, i, T, L, h, lost, pgdir_walk(m, c, i))
    BY <2>1, WalkShape
  <2>3. QED BY <2>2 DEF i, Deeper
<1> HIDE DEF w, t
<1>5. p \in Pages
  BY <1>4 DEF Under, Shape
<1>6. /\ v \in MemType /\ v.entry = w.entry /\ v.ok = w.ok /\ v.link = w.link
      /\ v.free = w.free /\ \A x \in Pages \ {p} : v.ref[x] = w.ref[x]
  BY <1>2, <1>5, Counts DEF v, MemType
<1>7. Under(v, c, {p}, U, L, h, lost)
  BY <1>4, <1>6, ShapeFrame
<1>8. /\ n \in MemType /\ Under(n, c, {}, U, L, h, lost) /\ p # Nil
      /\ \A l \in Index : n.entry[t][l] = IF l = a[2] THEN p ELSE v.entry[t][l]
      /\ \A x \in Pages \ {t} : n.entry[x] = v.entry[x]
  <2> DEFINE j == a[2]
  <2>1. j \in Index /\ t \in U
    BY <1>1, <1>4
  <2> HIDE DEF j
  <2>2. PutIn(v, c, p, U, L, h, lost, t, j, [page_remove(v, t, j) EXCEPT !.entry[t][j] = p])
    BY <1>7, <2>1, PlaceShape
  <2>3. QED BY <2>2 DEF j, n, PutIn
<1>9. \A x \in T, l \in Index : m.entry[x][l] # Nil => n.entry[x][l] # Nil
  BY <1>4, <1>6, <1>8
<1>10. QED BY <1>3, <1>4, <1>8, <1>9 DEF Grown

LEMMA GrownTwice ==
    ASSUME NEW m, NEW n, NEW o, NEW c, NEW T, NEW L, NEW h, NEW lost, NEW S,
           T \subseteq S, Grown(n, c, S, L, h, lost, o),
           \A x \in T, l \in Index : m.entry[x][l] # Nil => n.entry[x][l] # Nil
    PROVE  Grown(m, c, T, L, h, lost, o)
BY DEF Grown

\* What it holds does not matter.
LEMMA GrownData ==
    ASSUME NEW m, NEW n, NEW o \in MemType, NEW c, NEW T, NEW L, NEW h, NEW lost,
           Grown(m, c, T, L, h, lost, n), o.ok = n.ok, o.link = n.link, o.free = n.free,
           o.entry = n.entry, o.ref = n.ref
    PROVE  Grown(m, c, T, L, h, lost, o)
<1>1. PICK U \in SUBSET Pages :
         /\ T \subseteq U /\ Under(n, c, {}, U, L, h, lost)
         /\ \A x \in T, l \in Index : m.entry[x][l] # Nil => n.entry[x][l] # Nil
  BY DEF Grown
<1>2. Under(o, c, {}, U, L, h, lost)
  BY <1>1, ShapeFrame
<1>3. QED BY <1>1, <1>2 DEF Grown

LEMMA LoadPageShape ==
    ASSUME NEW m, NEW c, NEW T, NEW L, NEW lost \in Nat, NEW h \in [Pages -> Nat],
           Under(m, c, {}, T, L, h, lost), NEW page \in LayoutPage,
           LoadPage(m, c, page).ok = TRUE
    PROVE  Grown(m, c, T, L, h, lost, LoadPage(m, c, page))
<1> DEFINE a == page.at
           w == pgdir_walk(m, c, a[1])
           v == page_alloc(w)
           n == page_insert(v, c, w.free, a)
           k == mm_malloc(m, c, a)
           o == LoadPage(m, c, page)
           x == k.entry[k.entry[c][page.at[1]]][page.at[2]]
<1>1. m \in MemType /\ c \in Pages /\ a \in Addresses /\ a[1] \in Index
  BY DEF Under, Addresses, LayoutPage
<1>2. o \in MemType /\ k \in MemType /\ w \in MemType
  <2>1. o \in MemType
    BY <1>1, LoadPageType
  <2>2. k \in MemType
    BY <1>1, MallocType
  <2>3. Walked(m, c, a[1], w)
    BY <1>1, WalkFields
  <2>4. QED BY <2>1, <2>2, <2>3 DEF Walked
<1>3. /\ o = IF ~ k.ok THEN k ELSE [k EXCEPT !.data[x] = page.holds]
      /\ k = IF ~ w.ok \/ w.free = Nil THEN Failed(m) ELSE n
  BY DEF LoadPage, mm_malloc
<1>4. o.ok = TRUE
  OBVIOUS
<1> HIDE DEF o, k, n, v, x
<1>5. k.ok = TRUE /\ o.link = k.link /\ o.free = k.free /\ o.entry = k.entry /\ o.ref = k.ref
  BY <1>2, <1>3, <1>4 DEF MemType
<1>6. w.ok = TRUE /\ w.free # Nil /\ k = n
  BY <1>1, <1>2, <1>3, <1>5, FailedType DEF MemType
<1>7. PICK U \in SUBSET Pages :
         /\ T \subseteq U /\ Under(w, c, {}, U, L, h, lost)
         /\ \A y \in T : w.entry[y] = m.entry[y]
  <2> DEFINE i == a[1]
  <2>1. i \in Index /\ pgdir_walk(m, c, i).ok = TRUE
    BY <1>1, <1>6
  <2> HIDE DEF i
  <2>2. Deeper(m, c, {}, i, T, L, h, lost, pgdir_walk(m, c, i))
    BY <2>1, WalkShape
  <2>3. QED BY <2>2 DEF i, Deeper
<1> HIDE DEF w
<1>8. Taken(w, v)
  <2>1. /\ v \in MemType /\ w.free \in Pages /\ v.link = w.link /\ v.free = w.link[w.free]
        /\ v.entry = [w.entry EXCEPT ![w.free] = Empty] /\ v.ok = w.ok /\ v.ref = w.ref
    BY <1>2, <1>6, AllocFields DEF v
  <2>2. w.entry \in Entries
    BY <1>2 DEF MemType
  <2>3. QED BY <2>1, <2>2 DEF Taken, Entries, Empty
<1>9. Under(v, c, {w.free}, U, L, h, lost) /\ w.free \in Pages \ U
  <2>1. Under(v, c, {} \cup {w.free}, U, L, h, lost) /\ w.free \in Pages \ U
    BY <1>6, <1>7, <1>8, TakeShape
  <2>2. {} \cup {w.free} = {w.free}
    OBVIOUS
  <2>3. QED BY <2>1, <2>2
<1>10. Grown(v, c, U, L, h, lost, n)
  <2> HIDE DEF a
  <2>1. n.ok = TRUE
    BY <1>5, <1>6
  <2>2. QED BY <1>1, <1>9, <2>1, InsertShape DEF n
<1>11. \A y \in T, l \in Index : m.entry[y][l] # Nil => v.entry[y][l] # Nil
  BY <1>7, <1>8, <1>9 DEF Taken
<1>12. Grown(m, c, T, L, h, lost, n)
  BY <1>7, <1>10, <1>11, GrownTwice
<1>13. Grown(m, c, T, L, h, lost, o)
  BY <1>2, <1>4, <1>5, <1>6, <1>12, GrownData
<1>14. QED BY <1>13 DEF o

LEMMA LoadShape ==
    ASSUME NEW m, NEW c, NEW T, NEW L, NEW lost \in Nat, NEW h \in [Pages -> Nat],
           Under(m, c, {}, T, L, h, lost), load_icode(m, c).ok = TRUE
    PROVE  Grown(m, c, T, L, h, lost, load_icode(m, c))
<1> DEFINE len == Len(Layout)
<1>1. m \in MemType /\ c \in Pages /\ T \in SUBSET Pages /\ len \in Nat
  BY LayoutType DEF Under, Shape, Kinds
<1>2. PICK g \in [0 .. len -> MemType] : Loads(m, c, g) /\ load_icode(m, c) = g[len]
  BY <1>1, LoadRuns
<1> DEFINE S == {k \in 0 .. len : g[k].ok = TRUE => Grown(m, c, T, L, h, lost, g[k])}
<1>3. 0 \in S
  <2>1. g[0] = m /\ 0 \in 0 .. len
    BY <1>1, <1>2 DEF Loads
  <2>2. Grown(m, c, T, L, h, lost, m)
    BY <1>1 DEF Grown
  <2>3. QED BY <2>1, <2>2
<1>4. ASSUME NEW k \in 1 .. len, k - 1 \in S PROVE k \in S
  <2>1. k \in 0 .. len /\ k - 1 \in 0 .. len
    BY <1>1
  <2> SUFFICES ASSUME g[k].ok = TRUE PROVE Grown(m, c, T, L, h, lost, g[k])
    BY <2>1
  <2> DEFINE x == g[k - 1]
             y == g[k]
             page == Layout[k]
  <2>2. y = IF ~ x.ok THEN x ELSE LoadPage(x, c, page)
    BY <1>2 DEF Loads
  <2>3. x \in MemType /\ y.ok = TRUE /\ page \in LayoutPage
    BY <1>2, <2>1, LayoutType
  <2>4. x.ok = TRUE => Grown(m, c, T, L, h, lost, x)
    BY <1>4
  <2> HIDE DEF x, y, page
  <2>5. x.ok = TRUE /\ y = LoadPage(x, c, page)
    BY <2>2, <2>3 DEF MemType
  <2>6. PICK U \in SUBSET Pages :
           /\ T \subseteq U /\ Under(x, c, {}, U, L, h, lost)
           /\ \A z \in T, l \in Index : m.entry[z][l] # Nil => x.entry[z][l] # Nil
    BY <2>4, <2>5 DEF Grown
  <2>7. Grown(x, c, U, L, h, lost, y)
    BY <2>3, <2>5, <2>6, LoadPageShape
  <2>8. Grown(m, c, T, L, h, lost, y)
    BY <2>6, <2>7, GrownTwice
  <2>9. QED BY <2>8 DEF y
<1> HIDE DEF S
<1>5. \A k \in 0 .. len : k \in S
  <2> HIDE DEF len
  <2>1. QED BY <1>1, <1>3, <1>4, UpTo
<1>6. QED BY <1>1, <1>2, <1>5 DEF S

LEMMA CopyPageShape ==
    ASSUME NEW m, NEW c, NEW T, NEW L, NEW lost \in Nat, NEW h \in [Pages -> Nat],
           Under(m, c, {}, T, L, h, lost), NEW a \in Addresses,
           NEW table \in T, m.entry[table][a[2]] # Nil
    PROVE  /\ CopyPage(m, table, c, a) \in MemType
           /\ CopyPage(m, table, c, a).ok = TRUE =>
                 Grown(m, c, T, L, h, lost, CopyPage(m, table, c, a))
<1> DEFINE p == m.free
           u == [page_alloc(m) EXCEPT !.ref[p] = 1]
           n == page_insert(u, c, p, a)
           v == n.data[n.entry[table][a[2]]]
           o == [n EXCEPT !.data[p] = v]
<1>1. m \in MemType /\ c \in Pages /\ table \in Pages /\ a[2] \in Index
  BY DEF Under, Shape, Kinds, Addresses
<1>2. CASE p = Nil
  <2>1. CopyPage(m, table, c, a) = Failed(m)
    BY <1>2 DEF CopyPage
  <2>2. QED BY <1>1, <2>1, FailedType
<1>3. CASE p # Nil
  <2>1. CopyPage(m, table, c, a) = IF ~ n.ok THEN n ELSE o
    BY <1>3 DEF CopyPage
  <2> HIDE DEF o, n
  <2>2. Taken(m, u) /\ p \in Pages /\ u \in MemType
    <3>1. 1 \in 0 .. RefMod - 1
      BY MemoryAssumption
    <3>2. /\ u \in MemType /\ p \in Pages /\ u.link = m.link /\ u.free = m.link[p] /\ u.ok = m.ok
          /\ u.entry = [m.entry EXCEPT ![p] = Empty]
      BY <1>1, <1>3, <3>1, TakenFields
    <3>3. \A x \in Pages \ {p} : u.ref[x] = m.ref[x]
      BY <1>1 DEF page_alloc, MemType
    <3>4. m.entry \in Entries
      BY <1>1 DEF MemType
    <3> HIDE DEF u
    <3>5. QED BY <3>2, <3>3, <3>4 DEF Taken, Entries, Empty
  <2> HIDE DEF u
  <2>3. n \in MemType
    BY <1>1, <2>2, InsertType DEF n
  <2>4. Under(u, c, {p}, T, L, h, lost) /\ p \notin T
    <3>1. Under(u, c, {} \cup {p}, T, L, h, lost) /\ p \notin T
      BY <1>3, <2>2, TakeShape
    <3>2. {} \cup {p} = {p}
      OBVIOUS
    <3>3. QED BY <3>1, <3>2
  <2>5. \A x \in T, l \in Index : m.entry[x][l] # Nil => u.entry[x][l] # Nil
    <3>1. T \subseteq Pages
      BY DEF Under, Shape, Kinds
    <3>2. QED BY <2>2, <2>4, <3>1 DEF Taken
  <2>6. CASE n.ok = TRUE
    <3>1. Grown(u, c, T, L, h, lost, n)
      BY <2>2, <2>4, <2>6, InsertShape DEF n
    <3>2. Grown(m, c, T, L, h, lost, n)
      BY <2>5, <3>1, GrownTwice
    <3>3. v \in Values
      <4>1. n.entry[table][a[2]] # Nil
        BY <1>1, <3>2 DEF Grown
      <4>2. n.entry[table][a[2]] \in Pages
        BY <1>1, <2>3, <4>1 DEF MemType, Entries
      <4>3. QED BY <2>3, <4>2 DEF MemType
    <3> HIDE DEF v
    <3>4. /\ o \in MemType /\ o.ok = n.ok /\ o.link = n.link /\ o.free = n.free
          /\ o.entry = n.entry /\ o.ref = n.ref
      BY <2>3, <3>3 DEF o, MemType
    <3>5. Grown(m, c, T, L, h, lost, o)
      BY <3>2, <3>4, GrownData
    <3>6. QED BY <2>1, <2>6, <3>4, <3>5
  <2>7. CASE n.ok # TRUE
    BY <2>1, <2>3, <2>7 DEF MemType
  <2>8. QED BY <2>6, <2>7
<1>4. QED BY <1>2, <1>3

\* The loops of fork_store_pgdir keep what every pass through them keeps.
LEMMA CopyTableRuns ==
    ASSUME NEW D, NEW m \in D, NEW p, NEW c, NEW i,
           \A j \in Index, x \in D :
              (IF x.ok /\ x.entry[m.entry[p][i]][j] # Nil
               THEN CopyPage(x, m.entry[p][i], c, <<i, j>>) ELSE x) \in D
    PROVE  CopyTable(m, p, c, i) \in D
<1> DEFINE table == m.entry[p][i]
           Step(j, x) == IF x.ok /\ x.entry[table][j - 1] # Nil
                         THEN CopyPage(x, table, c, <<i, j - 1>>) ELSE x
           F(j, f) == IF j = 0 THEN m ELSE Step(j, f[j - 1])
           s == CHOOSE f : f = [j \in 0 .. NENTRIES |-> F(j, f)]
           G == [j \in 1 .. NENTRIES |-> [x \in D |-> Step(j, x)]]
<1>1. CopyTable(m, p, c, i) =
         IF m.ok /\ table # Nil /\ m.entry[c][i] = Nil THEN s[NENTRIES] ELSE m
  BY DEF CopyTable
<1> HIDE DEF s
<1>2. \A j \in 1 .. NENTRIES : j - 1 \in Index /\ j - 1 \in 0 .. NENTRIES
  BY Constants DEF Index
<1>3. \A j \in 1 .. NENTRIES, x \in D : Step(j, x) \in D
  BY <1>2
<1> HIDE DEF Step
<1>4. G \in [1 .. NENTRIES -> [D -> D]]
  BY <1>3
<1>5. PICK g : Repeats(g, NENTRIES, D, G, m)
  <2> HIDE DEF G
  <2>1. QED BY <1>4, Constants, Repeated
<1>6. /\ g \in [0 .. NENTRIES -> D] /\ g[0] = m
      /\ \A j \in 1 .. NENTRIES : g[j] = Step(j, g[j - 1])
  <2>1. /\ g \in [0 .. NENTRIES -> D] /\ g[0] = m
        /\ \A j \in 1 .. NENTRIES : g[j] = G[j][g[j - 1]]
    <3> HIDE DEF G
    <3>1. QED BY <1>5 DEF Repeats
  <2>2. QED BY <1>2, <2>1
<1> HIDE DEF G
<1>7. \A j \in 0 .. NENTRIES : j # 0 => j \in 1 .. NENTRIES
  BY Constants
<1>8. g = [j \in 0 .. NENTRIES |-> F(j, g)]
  <2>1. \A j \in 0 .. NENTRIES : g[j] = F(j, g)
    BY <1>6, <1>7
  <2> HIDE DEF F
  <2>2. QED BY <1>6, <2>1
<1>9. s = [j \in 0 .. NENTRIES |-> F(j, s)]
  <2> HIDE DEF F
  <2>1. QED BY <1>8 DEF s
<1> DEFINE U == {j \in 0 .. NENTRIES : s[j] = g[j]}
<1>10. 0 \in U
  BY <1>6, <1>9, Constants
<1>11. ASSUME NEW j \in 1 .. NENTRIES, j - 1 \in U PROVE j \in U
  <2>1. j \in 0 .. NENTRIES /\ j # 0 /\ s[j - 1] = g[j - 1]
    BY <1>11
  <2>2. s[j] = Step(j, s[j - 1]) /\ g[j] = Step(j, g[j - 1])
    BY <1>6, <1>9, <2>1
  <2>3. QED BY <2>1, <2>2
<1> HIDE DEF U
<1>12. \A j \in 0 .. NENTRIES : j \in U
  BY <1>10, <1>11, Constants, UpTo
<1>13. s[NENTRIES] \in D
  BY <1>6, <1>12, Constants DEF U
<1>14. QED BY <1>1, <1>13

LEMMA ForkRuns ==
    ASSUME NEW D, NEW m \in D, NEW p, NEW c,
           \A i \in Index, x \in D : CopyTable(x, p, c, i) \in D
    PROVE  fork_store_pgdir(m, p, c) \in D
<1> DEFINE Step(i, x) == CopyTable(x, p, c, i - 1)
           F(i, f) == IF i = 0 THEN m ELSE Step(i, f[i - 1])
           s == CHOOSE f : f = [i \in 0 .. NENTRIES |-> F(i, f)]
           G == [i \in 1 .. NENTRIES |-> [x \in D |-> Step(i, x)]]
<1>1. fork_store_pgdir(m, p, c) = s[NENTRIES]
  BY DEF fork_store_pgdir
<1> HIDE DEF s
<1>2. \A i \in 1 .. NENTRIES : i - 1 \in Index /\ i - 1 \in 0 .. NENTRIES
  BY Constants DEF Index
<1>3. \A i \in 1 .. NENTRIES, x \in D : Step(i, x) \in D
  BY <1>2
<1> HIDE DEF Step
<1>4. G \in [1 .. NENTRIES -> [D -> D]]
  BY <1>3
<1>5. PICK g : Repeats(g, NENTRIES, D, G, m)
  <2> HIDE DEF G
  <2>1. QED BY <1>4, Constants, Repeated
<1>6. /\ g \in [0 .. NENTRIES -> D] /\ g[0] = m
      /\ \A i \in 1 .. NENTRIES : g[i] = Step(i, g[i - 1])
  <2>1. /\ g \in [0 .. NENTRIES -> D] /\ g[0] = m
        /\ \A i \in 1 .. NENTRIES : g[i] = G[i][g[i - 1]]
    <3> HIDE DEF G
    <3>1. QED BY <1>5 DEF Repeats
  <2>2. QED BY <1>2, <2>1
<1> HIDE DEF G
<1>7. \A i \in 0 .. NENTRIES : i # 0 => i \in 1 .. NENTRIES
  BY Constants
<1>8. g = [i \in 0 .. NENTRIES |-> F(i, g)]
  <2>1. \A i \in 0 .. NENTRIES : g[i] = F(i, g)
    BY <1>6, <1>7
  <2> HIDE DEF F
  <2>2. QED BY <1>6, <2>1
<1>9. s = [i \in 0 .. NENTRIES |-> F(i, s)]
  <2> HIDE DEF F
  <2>1. QED BY <1>8 DEF s
<1> DEFINE U == {i \in 0 .. NENTRIES : s[i] = g[i]}
<1>10. 0 \in U
  BY <1>6, <1>9, Constants
<1>11. ASSUME NEW i \in 1 .. NENTRIES, i - 1 \in U PROVE i \in U
  <2>1. i \in 0 .. NENTRIES /\ i # 0 /\ s[i - 1] = g[i - 1]
    BY <1>11
  <2>2. s[i] = Step(i, s[i - 1]) /\ g[i] = Step(i, g[i - 1])
    BY <1>6, <1>9, <2>1
  <2>3. QED BY <2>1, <2>2
<1> HIDE DEF U
<1>12. \A i \in 0 .. NENTRIES : i \in U
  BY <1>10, <1>11, Constants, UpTo
<1>13. s[NENTRIES] \in D
  BY <1>6, <1>12, Constants DEF U
<1>14. QED BY <1>1, <1>13

\* What fork_store_pgdir copies from may be anything by now: a table that is copied
\* as if it were a directory has nothing but empty tables.
LEMMA ForkShape ==
    ASSUME NEW m, NEW c, NEW T, NEW L, NEW lost \in Nat, NEW h \in [Pages -> Nat],
           Under(m, c, {}, T, L, h, lost), NEW p \in Pages
    PROVE  /\ fork_store_pgdir(m, p, c) \in MemType
           /\ fork_store_pgdir(m, p, c).ok = TRUE =>
                 \E U \in SUBSET Pages : Under(fork_store_pgdir(m, p, c), c, {}, U, L, h, lost)
<1> DEFINE More(x, V) == \E U \in SUBSET Pages : V \subseteq U /\ Under(x, c, {}, U, L, h, lost)
           D == {x \in MemType : x.ok = TRUE => More(x, {})}
<1>1. m \in D
  <2>1. m \in MemType /\ T \in SUBSET Pages
    BY DEF Under, Shape, Kinds
  <2>2. QED BY <2>1
<1>2. ASSUME NEW i \in Index, NEW x \in D PROVE CopyTable(x, p, c, i) \in D
  <2> DEFINE table == x.entry[p][i]
  <2>1. CASE x.ok = FALSE \/ table = Nil
    <3>1. CopyTable(x, p, c, i) = x
      BY <2>1 DEF CopyTable
    <3>2. QED BY <3>1
  <2>2. CASE x.ok = TRUE /\ table # Nil
    <3>1. PICK U \in SUBSET Pages : Under(x, c, {}, U, L, h, lost)
      BY <2>2
    <3>2. x \in MemType
      BY <3>1 DEF Under
    <3>3. CASE p \notin U
      <4>1. table \in U
        BY <2>2, <3>1, <3>3 DEF Under, Shape, Kinds
      <4> DEFINE E == {y \in MemType : y.ok = TRUE => More(y, U)}
      <4> HIDE DEF table
      <4>2. ASSUME NEW j \in Index, NEW y \in E
            PROVE  (IF y.ok /\ y.entry[table][j] # Nil
                    THEN CopyPage(y, table, c, <<i, j>>) ELSE y) \in E
        <5> DEFINE a == <<i, j>>
                   z == CopyPage(y, table, c, a)
        <5>1. CASE y.ok /\ y.entry[table][j] # Nil
          <6>1. PICK W \in SUBSET Pages : U \subseteq W /\ Under(y, c, {}, W, L, h, lost)
            BY <5>1
          <6>2. a \in Addresses /\ a[2] = j /\ table \in W /\ y.entry[table][j] # Nil
            BY <4>1, <5>1, <6>1 DEF Addresses
          <6> HIDE DEF a
          <6>3. z \in MemType /\ (z.ok = TRUE => Grown(y, c, W, L, h, lost, z))
            BY <6>1, <6>2, CopyPageShape
          <6> HIDE DEF z
          <6>4. z \in E
            BY <6>1, <6>3 DEF Grown
          <6>5. QED BY <5>1, <6>4 DEF z, a
        <5>2. CASE ~ (y.ok /\ y.entry[table][j] # Nil)
          BY <5>2
        <5>3. QED BY <5>1, <5>2
      <4>3. x \in E
        BY <3>1, <3>2
      <4> HIDE DEF E
      <4>4. CopyTable(x, p, c, i) \in E
        BY <4>2, <4>3, CopyTableRuns DEF table
      <4>5. E \subseteq D
        BY DEF E
      <4>6. QED BY <4>4, <4>5
    <3>4. CASE p \in U
      <4>1. \A j \in Index : x.entry[table][j] = Nil
        BY <2>2, <3>1, <3>4 DEF Under, Shape, Kinds
      <4> DEFINE E == {x}
      <4> HIDE DEF table
      <4>2. \A j \in Index, y \in E :
               (IF y.ok /\ y.entry[table][j] # Nil
                THEN CopyPage(y, table, c, <<i, j>>) ELSE y) \in E
        BY <4>1
      <4>3. x \in E
        OBVIOUS
      <4> HIDE DEF E
      <4>4. CopyTable(x, p, c, i) \in E
        BY <4>2, <4>3, CopyTableRuns DEF table
      <4>5. QED BY <4>4 DEF E
    <3>5. QED BY <3>3, <3>4
  <2>3. QED BY <2>1, <2>2 DEF MemType
<1> HIDE DEF D
<1>3. fork_store_pgdir(m, p, c) \in D
  BY <1>1, <1>2, ForkRuns
<1>4. QED BY <1>3 DEF D

\* How many slots have page x as their directory.
Holders(dir) == [x \in Pages |-> Cardinality({e \in Envs : dir[e] = x})]

LEMMA HoldersType ==
    ASSUME NEW dir
    PROVE  /\ Holders(dir) \in [Pages -> Nat]
           /\ \A e \in Envs : dir[e] \in Pages => Holders(dir)[dir[e]] >= 1
<1>1. IsFiniteSet(Envs)
  BY MemoryAssumption, FS_Interval DEF Envs
<1>2. ASSUME NEW x PROVE IsFiniteSet({e \in Envs : dir[e] = x})
  BY <1>1, FS_Subset, {e \in Envs : dir[e] = x} \subseteq Envs
<1>3. ASSUME NEW x PROVE Cardinality({e \in Envs : dir[e] = x}) \in Nat
  BY <1>2, FS_CardinalityType
<1>4. ASSUME NEW e \in Envs, dir[e] \in Pages PROVE Holders(dir)[dir[e]] >= 1
  <2> DEFINE x == dir[e]
             S == {f \in Envs : dir[f] = x}
  <2>1. IsFiniteSet(S) /\ S # {} /\ Cardinality(S) \in Nat
    BY <1>2, <1>3
  <2>2. Cardinality(S) # 0
    BY <2>1, FS_EmptySet
  <2>3. Holders(dir)[x] = Cardinality(S)
    BY <1>4 DEF Holders
  <2>4. QED BY <2>1, <2>2, <2>3
<1>5. QED BY <1>3, <1>4 DEF Holders

\* One more slot has page d than those counted in h.
OneMore(h, k, d) == k \in [Pages -> Nat] /\ k[d] = h[d] + 1 /\ \A x \in Pages \ {d} : k[x] = h[x]

LEMMA HolderComes ==
    ASSUME NEW dir \in [Envs -> Pages \cup {Nil}], NEW c \in Envs, dir[c] = Nil, NEW d \in Pages
    PROVE  OneMore(Holders(dir), Holders([dir EXCEPT ![c] = d]), d)
<1> DEFINE new == [dir EXCEPT ![c] = d]
           S(f, x) == {e \in Envs : f[e] = x}
<1>1. IsFiniteSet(Envs)
  BY MemoryAssumption, FS_Interval DEF Envs
<1>2. ASSUME NEW x \in Pages, x # d PROVE S(new, x) = S(dir, x)
  BY <1>2, Constants
<1>3. S(new, d) = S(dir, d) \cup {c}
  OBVIOUS
<1>4. c \notin S(dir, d) /\ IsFiniteSet(S(dir, d))
  <2>1. S(dir, d) \subseteq Envs
    OBVIOUS
  <2>2. QED BY <1>1, <2>1, FS_Subset, Constants
<1>5. Cardinality(S(dir, d) \cup {c}) = Cardinality(S(dir, d)) + 1
  <2> HIDE DEF S
  <2>1. QED BY <1>4, FS_AddElement
<1>6. ASSUME NEW x \in Pages
      PROVE  Cardinality(S(new, x)) = IF x = d THEN Cardinality(S(dir, d)) + 1
                                      ELSE Cardinality(S(dir, x))
  <2> HIDE DEF S, new
  <2>1. QED BY <1>2, <1>3, <1>5
<1>7. \A f : Holders(f) = [x \in Pages |-> Cardinality(S(f, x))]
  BY DEF Holders
<1> HIDE DEF S, new
<1>8. Holders(new)[d] = Holders(dir)[d] + 1 /\ \A x \in Pages \ {d} : Holders(new)[x] = Holders(dir)[x]
  BY <1>6, <1>7
<1>9. QED BY <1>8, HoldersType DEF new, OneMore

LEMMA HolderGoes ==
    ASSUME NEW dir \in [Envs -> Pages \cup {Nil}], NEW e \in Envs, dir[e] \in Pages
    PROVE  OneMore(Holders([dir EXCEPT ![e] = Nil]), Holders(dir), dir[e])
<1> DEFINE d == dir[e]
           new == [dir EXCEPT ![e] = Nil]
<1>1. new \in [Envs -> Pages \cup {Nil}] /\ new[e] = Nil /\ d \in Pages
  OBVIOUS
<1>2. dir = [new EXCEPT ![e] = d]
  OBVIOUS
<1> HIDE DEF new, d
<1>3. OneMore(Holders(new), Holders([new EXCEPT ![e] = d]), d)
  BY <1>1, HolderComes
<1>4. QED BY <1>2, <1>3 DEF new, d

\* Whoever runs: every page has its part, and one is lost for every thread that was
\* created.
Listed(m, dir) ==
    \E T, P, L, F \in SUBSET Pages, s \in [Pages -> Int] :
       Kinds(m.entry, T, P, L) /\ Counted(m, T, P, L, F, s, Holders(dir), Cardinality(L))

LEMMA LostFew == \A L \in SUBSET Pages : /\ Cardinality(L) \in Nat /\ Cardinality(L) <= NPAGES
                                         /\ IsFiniteSet(L)
<1>1. IsFiniteSet(Pages) /\ Cardinality(Pages) = NPAGES
  BY MemoryAssumption, FS_Interval DEF Pages
<1>2. QED BY <1>1, FS_Subset, FS_CardinalityType

LEMMA UnderListed ==
    ASSUME NEW n, NEW c, NEW T, NEW L \in SUBSET Pages, NEW dir,
           Under(n, c, {}, T, L, Holders(dir), Cardinality(L))
    PROVE  Listed(n, dir)
<1>1. PICK P \in SUBSET Pages, F \in SUBSET Pages, s \in [Pages -> Int] :
         Shape(n, c, {}, T, P, L, F, s, Holders(dir), Cardinality(L))
  BY DEF Under
<1>2. T \in SUBSET Pages
  BY <1>1 DEF Shape, Kinds
<1>3. QED BY <1>1, <1>2 DEF Listed, Shape

\* The page that env_setup_vm takes, counted.
LEMMA SetupFields ==
    ASSUME NEW m \in MemType, m.free # Nil
    PROVE  /\ Taken(m, env_setup_vm(m)) /\ m.free \in Pages
           /\ env_setup_vm(m).ref[m.free] = Up(m.ref[m.free])
<1> DEFINE p == m.free
           r == Up(m.ref[p])
           n == [page_alloc(m) EXCEPT !.ref[p] = r]
<1>1. m.free \in Pages /\ r \in 0 .. RefMod - 1 /\ page_alloc(m).ref = m.ref
  BY AllocFields, Counts DEF MemType
<1>2. env_setup_vm(m) = n
  BY <1>1 DEF env_setup_vm
<1>3. n.ref[p] = r /\ \A x \in Pages \ {p} : n.ref[x] = m.ref[x]
  BY <1>1 DEF page_alloc, MemType
<1> HIDE DEF r
<1>4. /\ n \in MemType /\ n.link = m.link /\ n.free = m.link[p] /\ n.ok = m.ok
      /\ n.entry = [m.entry EXCEPT ![p] = Empty]
  BY <1>1, TakenFields
<1> HIDE DEF n
<1>5. m.entry \in Entries
  BY DEF MemType
<1>6. Taken(m, n)
  BY <1>1, <1>3, <1>4, <1>5 DEF Taken, Entries, Empty
<1>7. QED BY <1>1, <1>2, <1>3, <1>6 DEF r

LEMMA SetupShape ==
    ASSUME NEW m \in MemType, m.ok = TRUE, m.free # Nil,
           NEW dir \in [Envs -> Pages \cup {Nil}], Listed(m, dir),
           NEW c \in Envs, dir[c] = Nil
    PROVE  /\ \E T, L \in SUBSET Pages :
                 Under(env_setup_vm(m), m.free, {}, T, L,
                       Holders([dir EXCEPT ![c] = m.free]), Cardinality(L))
           /\ \A p \in Pages : Listed(env_setup_vm(m), [dir EXCEPT ![c] = p])
<1> DEFINE d == m.free
           n == env_setup_vm(m)
           h == Holders(dir)
<1>1. PICK T \in SUBSET Pages, P \in SUBSET Pages, L \in SUBSET Pages, F \in SUBSET Pages,
           s \in [Pages -> Int] :
         Kinds(m.entry, T, P, L) /\ Counted(m, T, P, L, F, s, h, Cardinality(L))
  BY DEF Listed
<1> DEFINE lost == Cardinality(L)
<1>2. h \in [Pages -> Nat] /\ lost \in Nat /\ lost <= NPAGES
  BY HoldersType, LostFew
<1>3. /\ n \in MemType /\ n.ok = TRUE /\ n.link = m.link /\ n.free = m.link[d]
      /\ \A x \in Pages \ {d} : n.entry[x] = m.entry[x] /\ n.ref[x] = m.ref[x]
      /\ \A i \in Index : n.entry[d][i] = Nil
      /\ n.ref[d] = Up(m.ref[d]) /\ d \in Pages
  BY SetupFields DEF Taken
<1>4. /\ d \in F /\ d \in Pages \ (T \cup P \cup L) /\ Nil \notin Pages
      /\ IsList(m.link, m.link[d], F \ {d})
  <2>1. IsList(m.link, d, F) /\ d # Nil
    BY <1>1 DEF Counted
  <2> HIDE DEF d
  <2>2. d \in F /\ IsList(m.link, m.link[d], F \ {d})
    BY <2>1, ListPop
  <2>3. QED BY <1>1, <2>2, Constants DEF Counted
<1>5. /\ m.ref[d] = Wrap(s[d]) /\ h[d] <= s[d] + lost /\ s[d] <= 0
      /\ s[d] \in Int /\ h[d] \in Nat
  BY <1>1, <1>2, <1>4 DEF Counted
<1>6. n.ref[d] = Wrap(s[d] + 1)
  <2>1. s[d] > -RefMod
    BY <1>2, <1>5, MemoryAssumption
  <2> HIDE DEF n
  <2>2. QED BY <1>3, <1>5, <2>1, UpWrap
<1> HIDE DEF d, n, h, lost
<1>7. ASSUME NEW S \in SUBSET Pages, L \subseteq S, S \cap (T \cup P) = {}, S \subseteq L \cup {d}
      PROVE  Kinds(n.entry, T, P, S)
  <2>1. \A x \in S, i \in Index : n.entry[x][i] = Nil
    <3>1. \A x \in L, i \in Index : m.entry[x][i] = Nil
      BY <1>1 DEF Kinds
    <3>2. QED BY <1>3, <1>7, <3>1
  <2>2. QED BY <1>1, <1>3, <1>4, <1>7, <2>1 DEF Kinds
<1>8. Under(n, d, {}, T, L, Holders([dir EXCEPT ![c] = d]), lost)
  <2> DEFINE k == Holders([dir EXCEPT ![c] = d])
             r == [s EXCEPT ![d] = @ + 1]
             E == F \ {d}
  <2>1. k \in [Pages -> Nat] /\ k[d] = h[d] + 1 /\ \A x \in Pages \ {d} : k[x] = h[x]
    BY <1>3, HolderComes DEF h, OneMore
  <2> HIDE DEF k
  <2>2. Kinds(n.entry, T, P, L)
    BY <1>1, <1>7 DEF Kinds
  <2>3. r \in [Pages -> Int] /\ E \in SUBSET Pages /\ E \cap (T \cup P \cup L) = {}
    <3>1. F \cap (T \cup P \cup L) = {}
      BY <1>1 DEF Counted
    <3>2. s[d] + 1 \in Int
      BY <1>5
    <3>3. r \in [Pages -> Int]
      BY <3>2
    <3> HIDE DEF r
    <3>4. QED BY <3>1, <3>3
  <2>4. \A x \in Pages \ (T \cup P \cup L) :
           n.ref[x] = Wrap(r[x]) /\ r[x] <= 1 /\ k[x] <= r[x] + lost
    <3> SUFFICES ASSUME NEW x \in Pages \ (T \cup P \cup L)
                 PROVE  n.ref[x] = Wrap(r[x]) /\ r[x] <= 1 /\ k[x] <= r[x] + lost
      OBVIOUS
    <3>1. CASE x = d
      BY <1>2, <1>5, <1>6, <2>1, <3>1
    <3>2. CASE x # d
      BY <1>1, <1>2, <1>3, <2>1, <3>2 DEF Counted, lost
    <3>3. QED BY <3>1, <3>2
  <2>5. /\ \A x \in E : r[x] <= 0
        /\ \A x \in P : k[x] <= lost
    BY <1>1, <1>2, <1>4, <2>1 DEF Counted, lost
  <2> HIDE DEF r, E
  <2>6. IsList(n.link, n.free, E)
    BY <1>3, <1>4 DEF E
  <2>7. Counted(n, T, P, L, E, r, k, lost)
    BY <2>3, <2>4, <2>5, <2>6 DEF Counted
  <2>8. Shape(n, d, {}, T, P, L, E, r, k, lost)
    BY <1>4, <2>2, <2>7 DEF Shape, E
  <2>9. QED BY <1>3, <1>4, <2>3, <2>8 DEF Under, k
<1>9. ASSUME NEW p \in Pages PROVE Listed(n, [dir EXCEPT ![c] = p])
  <2> DEFINE k == Holders([dir EXCEPT ![c] = p])
             M == L \cup {d}
             E == F \ {d}
  <2>1. OneMore(h, k, p)
    BY HolderComes DEF h
  <2> HIDE DEF k
  <2>2. M \in SUBSET Pages /\ E \in SUBSET Pages /\ Cardinality(M) = lost + 1
    BY <1>3, <1>4, LostFew, FS_AddElement DEF lost
  <2>3. Kinds(n.entry, T, P, M)
    <3>1. L \subseteq M /\ M \cap (T \cup P) = {} /\ M \subseteq L \cup {d}
      BY <1>1, <1>4 DEF Kinds
    <3> HIDE DEF M
    <3>2. QED BY <1>7, <2>2, <3>1
  <2>4. \A x \in Pages : k[x] <= h[x] + 1 /\ k[x] \in Nat
    BY <1>2, <2>1 DEF OneMore
  <2>5. Counted(n, T, P, M, E, s, k, lost + 1)
    <3>1. E \cap (T \cup P \cup M) = {} /\ IsList(n.link, n.free, E)
      BY <1>1, <1>3, <1>4 DEF Counted
    <3>2. \A x \in Pages \ (T \cup P \cup M) :
             n.ref[x] = Wrap(s[x]) /\ s[x] <= 1 /\ k[x] <= s[x] + (lost + 1)
      <4> SUFFICES ASSUME NEW x \in Pages \ (T \cup P \cup M)
                   PROVE  n.ref[x] = Wrap(s[x]) /\ s[x] <= 1 /\ k[x] <= s[x] + (lost + 1)
        OBVIOUS
      <4>1. m.ref[x] = Wrap(s[x]) /\ s[x] <= 1 /\ h[x] <= s[x] + lost
        BY <1>1 DEF Counted, lost
      <4>2. h[x] \in Nat /\ s[x] \in Int /\ k[x] <= h[x] + 1 /\ k[x] \in Nat /\ x # d
        BY <1>2, <2>4
      <4>3. QED BY <1>2, <1>3, <4>1, <4>2
    <3>3. \A x \in E : s[x] <= 0
      BY <1>1 DEF Counted
    <3>4. \A x \in P : k[x] <= lost + 1
      <4> SUFFICES ASSUME NEW x \in P PROVE k[x] <= lost + 1
        OBVIOUS
      <4>1. h[x] <= lost
        BY <1>1 DEF Counted, lost
      <4>2. h[x] \in Nat /\ k[x] <= h[x] + 1 /\ k[x] \in Nat
        BY <1>2, <2>4
      <4>3. QED BY <1>2, <4>1, <4>2
    <3> HIDE DEF M, E
    <3>5. QED BY <2>2, <3>1, <3>2, <3>3, <3>4 DEF Counted
  <2>6. QED BY <2>2, <2>3, <2>5 DEF Listed, k
<1>10. QED BY <1>8, <1>9 DEF d, n, lost

\* Who can run has a directory: none of the other kinds of pages passes for one.
LEMMA RunsInDirectory ==
    ASSUME NEW en, NEW d \in Pages, NEW T, NEW P, NEW L, Kinds(en, T, P, L),
           NEW i \in Index, NEW j \in Index, At(en, d, i, j) # Nil
    PROVE  d \in Pages \ (T \cup P \cup L)
<1>1. en[d][i] # Nil /\ en[en[d][i]][j] # Nil
  BY DEF At
<1>2. QED BY <1>1 DEF Kinds

\* The directory of somebody who exits is counted down, to below 0 if others gave it
\* back already.
LEMMA ExitShape ==
    ASSUME NEW m \in MemType, NEW dir \in [Envs -> Pages \cup {Nil}], Listed(m, dir),
           NEW e \in Envs, dir[e] \in Pages,
           NEW i \in Index, NEW j \in Index, At(m.entry, dir[e], i, j) # Nil
    PROVE  Listed(page_decref(m, dir[e]), [dir EXCEPT ![e] = Nil])
<1> DEFINE p == dir[e]
           n == page_decref(m, p)
           h == Holders(dir)
           k == Holders([dir EXCEPT ![e] = Nil])
<1>1. PICK T \in SUBSET Pages, P \in SUBSET Pages, L \in SUBSET Pages, F \in SUBSET Pages,
           s \in [Pages -> Int] :
         Kinds(m.entry, T, P, L) /\ Counted(m, T, P, L, F, s, h, Cardinality(L))
  BY DEF Listed
<1> DEFINE lost == Cardinality(L)
           r == [s EXCEPT ![p] = @ - 1]
<1>2. lost \in Nat /\ lost <= NPAGES /\ k \in [Pages -> Nat]
  BY HoldersType, LostFew
<1>3. h \in [Pages -> Nat] /\ h[p] = k[p] + 1 /\ \A x \in Pages \ {p} : h[x] = k[x]
  BY HolderGoes DEF OneMore
<1>4. p \in Pages \ (T \cup P \cup L) /\ Nil \notin Pages
  <2>1. At(m.entry, p, i, j) # Nil /\ p \in Pages
    OBVIOUS
  <2> HIDE DEF p
  <2>2. QED BY <1>1, <2>1, RunsInDirectory, Constants
<1>5. n.entry = m.entry
  BY <1>4, DecrefFields
<1>6. /\ \A x \in Pages \ {p} : n.ref[x] = m.ref[x]
      /\ n.ref[p] = Down(m.ref[p])
      /\ IF n.ref[p] = 0 THEN n.link = [m.link EXCEPT ![p] = m.free] /\ n.free = p
         ELSE n.link = m.link /\ n.free = m.free
  <2> HIDE DEF p
  <2>1. QED BY <1>4 DEF page_decref, page_free, MemType
<1> HIDE DEF p, n, h, k, lost, r
<1>7. m.ref[p] = Wrap(s[p]) /\ s[p] <= 1 /\ h[p] <= s[p] + lost /\ s[p] \in Int
  BY <1>1, <1>4 DEF Counted, lost
<1>8. n.ref[p] = Wrap(s[p] - 1) /\ (n.ref[p] = 0 <=> s[p] = 1)
  <2>1. s[p] > 1 - RefMod
    <3>1. h[p] >= 1
      BY <1>2, <1>3, <1>4
    <3>2. QED BY <1>2, <1>3, <1>4, <1>7, <3>1, MemoryAssumption
  <2>2. QED BY <1>6, <1>7, <2>1, DownWrap
<1>9. r \in [Pages -> Int] /\ r[p] = s[p] - 1 /\ \A x \in Pages \ {p} : r[x] = s[x]
  BY <1>4, <1>7 DEF r
<1>10. ASSUME NEW x \in Pages \ (T \cup P \cup L)
       PROVE  n.ref[x] = Wrap(r[x]) /\ r[x] <= 1 /\ k[x] <= r[x] + lost
  <2>1. CASE x = p
    BY <1>2, <1>3, <1>4, <1>7, <1>8, <1>9, <2>1
  <2>2. CASE x # p
    <3>1. m.ref[x] = Wrap(s[x]) /\ s[x] <= 1 /\ h[x] <= s[x] + lost
      BY <1>1 DEF Counted, lost
    <3>2. QED BY <1>3, <1>6, <1>9, <2>2, <3>1
  <2>3. QED BY <2>1, <2>2
<1>11. \A x \in P : k[x] <= lost
  BY <1>1, <1>3, <1>4 DEF Counted, lost
<1>12. PICK G \in SUBSET Pages :
          /\ G \cap (T \cup P \cup L) = {} /\ IsList(n.link, n.free, G)
          /\ \A x \in G : r[x] <= 0
  <2>1. /\ F \cap (T \cup P \cup L) = {} /\ IsList(m.link, m.free, F)
        /\ \A x \in F : s[x] <= 0
    BY <1>1 DEF Counted
  <2>2. CASE n.ref[p] = 0
    <3>1. s[p] = 1 /\ r[p] = 0 /\ p \notin F
      BY <1>8, <1>9, <2>1, <2>2
    <3>2. IsList(n.link, n.free, F \cup {p})
      <4>1. m.link \in [Pages -> Pages \cup {Nil}]
        BY DEF MemType
      <4>2. QED BY <1>4, <1>6, <2>1, <2>2, <3>1, <4>1, ListPush
    <3>3. \A x \in F \cup {p} : r[x] <= 0
      BY <1>9, <2>1, <3>1
    <3>4. F \cup {p} \in SUBSET Pages /\ (F \cup {p}) \cap (T \cup P \cup L) = {}
      BY <1>4, <2>1
    <3>5. QED BY <3>2, <3>3, <3>4
  <2>3. CASE n.ref[p] # 0
    <3>1. \A x \in F : r[x] <= 0
      <4> SUFFICES ASSUME NEW x \in F PROVE r[x] <= 0
        OBVIOUS
      <4>1. s[x] <= 0 /\ s[x] \in Int /\ x \in Pages
        BY <2>1
      <4>2. r[x] = s[x] \/ r[x] = s[x] - 1
        BY <1>9, <4>1
      <4>3. QED BY <4>1, <4>2
    <3>2. IsList(n.link, n.free, F)
      BY <1>6, <2>1, <2>3
    <3>3. QED BY <2>1, <3>1, <3>2
  <2>4. QED BY <2>2, <2>3
<1>13. Counted(n, T, P, L, G, r, k, lost)
  BY <1>9, <1>10, <1>11, <1>12 DEF Counted
<1>14. Kinds(n.entry, T, P, L)
  BY <1>1, <1>5
<1>15. Listed(n, [dir EXCEPT ![e] = Nil])
  BY <1>9, <1>13, <1>14 DEF Listed, k, lost
<1>16. QED BY <1>15 DEF n, p

ListInv == MemTyped /\ Listed(Mem, env_pgdir)

LEMMA InitListed == Init => ListInv
<1> SUFFICES ASSUME Init PROVE ListInv
  OBVIOUS
<1>1. Mem \in MemType
  BY Constants, MemoryAssumption DEF Init, Mem, MemType, Entries, Pages, Nil
<1>2. DirType
  BY DEF Init, DirType, KernelState
<1>3. IsList(pp_link, page_free_list, Pages)
  <2>1. pp_link = [e \in 0 .. NPAGES - 1 |-> IF e = NPAGES - 1 THEN Nil ELSE e + 1]
    BY DEF Init, Pages
  <2>2. IsList(pp_link, 0, 0 .. NPAGES - 1)
    BY <2>1, MemoryAssumption, InitialList
  <2>3. QED BY <2>2 DEF Init, Pages
<1> DEFINE s == [x \in Pages |-> 0]
           h == Holders(env_pgdir)
           none == {}
<1>4. Cardinality(none) = 0 /\ none \in SUBSET Pages
  BY FS_EmptySet
<1>5. \A x \in Pages : h[x] = 0
  <2>1. \A x \in Pages : {e \in Envs : env_pgdir[e] = x} = {}
    BY Constants DEF Init
  <2>2. QED BY <1>4, <2>1 DEF Holders
<1>6. Kinds(Mem.entry, none, none, none)
  BY DEF Mem, Init, Kinds, Empty
<1>7. Counted(Mem, none, none, none, Pages, s, h, 0)
  <2>1. \A x \in Pages : Mem.ref[x] = Wrap(s[x])
    BY DEF Mem, Init, Wrap
  <2>2. IsList(Mem.link, Mem.free, Pages)
    BY <1>3 DEF Mem
  <2> HIDE DEF h
  <2>3. QED BY <1>5, <2>1, <2>2 DEF Counted
<1>8. Listed(Mem, env_pgdir)
  <2>1. s \in [Pages -> Int]
    OBVIOUS
  <2> HIDE DEF s
  <2>2. QED BY <1>4, <1>6, <1>7, <2>1 DEF Listed
<1>9. QED BY <1>1, <1>2, <1>8 DEF ListInv, MemTyped

LEMMA StillListed ==
    ASSUME ListInv, UNCHANGED <<pageVars, env_pgdir>>, kernel' \in KernelState
    PROVE  ListInv'
<1>1. Mem' = Mem /\ env_pgdir' = env_pgdir
  BY MemSame
<1>2. QED BY <1>1 DEF ListInv, MemTyped, DirType

LEMMA BecomesListed ==
    ASSUME ListInv, NEW n \in MemType, NEW e \in Envs, NEW d \in Pages \cup {Nil},
           Becomes(n, e, d), n.ok = TRUE => Listed(n, [env_pgdir EXCEPT ![e] = d])
    PROVE  ListInv'
<1>1. CASE UNCHANGED <<pageVars, env_pgdir>> /\ kernel' = "no_page"
  BY <1>1, StillListed DEF KernelState
<1>2. CASE /\ n.ok = TRUE /\ Mem' = n /\ env_pgdir' = [env_pgdir EXCEPT ![e] = d]
           /\ kernel' = kernel
  <2>1. Listed(Mem', env_pgdir') /\ Mem' \in MemType
    BY <1>2
  <2>2. DirType'
    BY <1>2 DEF ListInv, MemTyped, DirType
  <2>3. QED BY <2>1, <2>2 DEF ListInv, MemTyped
<1>3. QED BY <1>1, <1>2, BecomesMem

\* A directory can be set up, and nobody else has it.
LEMMA SetupListed ==
    ASSUME ListInv, page_free_list # Nil, NEW c \in Envs, c \notin Alive
    PROVE  LET q == page_free_list
               u == env_setup_vm(Mem)
           IN /\ q \in Pages /\ u \in MemType
              /\ \E T, L \in SUBSET Pages :
                    Under(u, q, {}, T, L, Holders([env_pgdir EXCEPT ![c] = q]), Cardinality(L))
              /\ \A p \in Pages : Listed(u, [env_pgdir EXCEPT ![c] = p])
<1>1. PICK m : m = Mem
  OBVIOUS
<1>2. PICK dir : dir = env_pgdir
  OBVIOUS
<1>3. /\ m \in MemType /\ m.ok = TRUE /\ m.free = page_free_list
      /\ dir \in [Envs -> Pages \cup {Nil}] /\ Listed(m, dir) /\ dir[c] = Nil
  BY <1>1, <1>2 DEF ListInv, MemTyped, DirType, Mem, Alive
<1>4. env_setup_vm(m) \in MemType /\ m.free \in Pages
  BY <1>3, SetupFields DEF Taken
<1>5. /\ \E T, L \in SUBSET Pages :
            Under(env_setup_vm(m), m.free, {}, T, L,
                  Holders([dir EXCEPT ![c] = m.free]), Cardinality(L))
      /\ \A p \in Pages : Listed(env_setup_vm(m), [dir EXCEPT ![c] = p])
  BY <1>3, SetupShape
<1>6. QED BY <1>1, <1>2, <1>3, <1>4, <1>5

LEMMA LoadListed == ASSUME ListInv, NEW c \in Envs, Load(c) PROVE ListInv'
<1> DEFINE q == page_free_list
           u == env_setup_vm(Mem)
           n == load_icode(u, q)
           dir == [env_pgdir EXCEPT ![c] = q]
<1>1. q # Nil /\ c \notin Alive /\ Becomes(n, c, q)
  BY DEF Load
<1>2. q \in Pages /\ u \in MemType
  BY <1>1, SetupListed
<1>3. PICK T \in SUBSET Pages, L \in SUBSET Pages :
         Under(u, q, {}, T, L, Holders(dir), Cardinality(L))
  BY <1>1, SetupListed
<1>4. Cardinality(L) \in Nat /\ Holders(dir) \in [Pages -> Nat]
  BY LostFew, HoldersType
<1> HIDE DEF u, q, dir
<1>5. n \in MemType
  <2>1. PICK g \in [0 .. Len(Layout) -> MemType] : n = g[Len(Layout)]
    BY <1>2, LoadRuns
  <2>2. QED BY <2>1, LayoutType
<1>6. n.ok = TRUE => Listed(n, dir)
  <2> SUFFICES ASSUME n.ok = TRUE PROVE Listed(n, dir)
    OBVIOUS
  <2>1. Grown(u, q, T, L, Holders(dir), Cardinality(L), n)
    BY <1>3, <1>4, LoadShape
  <2> HIDE DEF n
  <2>2. QED BY <2>1, UnderListed DEF Grown
<1> HIDE DEF n
<1>7. QED BY <1>1, <1>2, <1>5, <1>6, BecomesListed DEF dir

LEMMA ForkListed == ASSUME ListInv, NEW e \in Envs, NEW c \in Envs, Fork(e, c) PROVE ListInv'
<1> DEFINE q == page_free_list
           u == env_setup_vm(Mem)
           p == env_pgdir[e]
           n == fork_store_pgdir(u, p, q)
           dir == [env_pgdir EXCEPT ![c] = q]
<1>1. q # Nil /\ c \notin Alive /\ Becomes(n, c, q) /\ p \in Pages
  BY DEF Fork, CanRun, Alive, ListInv, MemTyped, DirType
<1>2. q \in Pages /\ u \in MemType
  BY <1>1, SetupListed
<1>3. PICK T \in SUBSET Pages, L \in SUBSET Pages :
         Under(u, q, {}, T, L, Holders(dir), Cardinality(L))
  BY <1>1, SetupListed
<1>4. Cardinality(L) \in Nat /\ Holders(dir) \in [Pages -> Nat]
  BY LostFew, HoldersType
<1> HIDE DEF u, q, dir, p
<1>5. /\ n \in MemType
      /\ n.ok = TRUE => \E U \in SUBSET Pages :
                           Under(n, q, {}, U, L, Holders(dir), Cardinality(L))
  BY <1>1, <1>3, <1>4, ForkShape
<1> HIDE DEF n
<1>6. n.ok = TRUE => Listed(n, dir)
  BY <1>5, UnderListed
<1>7. QED BY <1>1, <1>2, <1>5, <1>6, BecomesListed DEF dir

LEMMA ThreadListed ==
    ASSUME ListInv, NEW e \in Envs, NEW c \in Envs, CreateThread(e, c) PROVE ListInv'
<1> DEFINE u == env_setup_vm(Mem)
           p == env_pgdir[e]
<1>1. page_free_list # Nil /\ c \notin Alive /\ Becomes(u, c, p) /\ p \in Pages
  BY DEF CreateThread, CanRun, Alive, ListInv, MemTyped, DirType
<1>2. u \in MemType /\ \A d \in Pages : Listed(u, [env_pgdir EXCEPT ![c] = d])
  BY <1>1, SetupListed
<1> HIDE DEF u, p
<1>3. QED BY <1>1, <1>2, BecomesListed

LEMMA ExitListed == ASSUME ListInv, NEW e \in Envs, Exit(e) PROVE ListInv'
<1>1. PICK m : m = Mem
  OBVIOUS
<1>2. PICK dir : dir = env_pgdir
  OBVIOUS
<1> DEFINE n == page_decref(m, dir[e])
<1>3. /\ m \in MemType /\ dir \in [Envs -> Pages \cup {Nil}] /\ Listed(m, dir)
      /\ dir[e] \in Pages /\ Becomes(n, e, Nil)
  BY <1>1, <1>2 DEF Exit, CanRun, Alive, ListInv, MemTyped, DirType
<1>4. \E i, j \in Index : At(m.entry, dir[e], i, j) # Nil
  <2> DEFINE a == Layout[1].at
  <2>1. 1 \in DOMAIN Layout /\ a \in Addresses
    <3>1. Layout \in Seq(LayoutPage) /\ Layout # <<>>
      BY MemoryAssumption DEF LayoutPage
    <3>2. 1 \in DOMAIN Layout /\ Layout[1] \in LayoutPage
      BY <3>1
    <3>3. QED BY <3>2 DEF LayoutPage
  <2>2. Lookup(env_pgdir[e], a) # Nil
    BY <2>1 DEF Exit, CanRun
  <2> HIDE DEF a
  <2>3. At(m.entry, dir[e], a[1], a[2]) # Nil
    BY <1>1, <1>2, <2>2 DEF Lookup, At, Mem
  <2>4. a[1] \in Index /\ a[2] \in Index
    BY <2>1 DEF Addresses
  <2>5. QED BY <2>3, <2>4
<1>5. Listed(n, [dir EXCEPT ![e] = Nil])
  BY <1>3, <1>4, ExitShape
<1>6. n \in MemType
  BY <1>3, DecrefFields
<1> HIDE DEF n
<1>7. QED BY <1>2, <1>3, <1>5, <1>6, BecomesListed

LEMMA WriteListed ==
    ASSUME ListInv, NEW e \in Envs, NEW a \in Addresses, NEW v \in Values, Write(e, a, v)
    PROVE  ListInv'
<1>1. /\ Mem'.ref = Mem.ref /\ Mem'.link = Mem.link /\ Mem'.free = Mem.free
      /\ Mem'.entry = Mem.entry /\ env_pgdir' = env_pgdir /\ kernel' = kernel
  BY DEF Write, Mem
<1>2. Mem' \in MemType
  BY DEF Write, Mem, MemType, ListInv, MemTyped
<1>3. Listed(Mem', env_pgdir')
  BY <1>1 DEF ListInv, Listed, Counted
<1>4. QED BY <1>1, <1>2, <1>3 DEF ListInv, MemTyped, DirType

LEMMA NextListed == ListInv /\ [Next]_vars => ListInv'
<1> SUFFICES ASSUME ListInv, [Next]_vars PROVE ListInv'
  OBVIOUS
<1>1. CASE UNCHANGED vars
  <2>1. UNCHANGED <<pageVars, env_pgdir>> /\ kernel' \in KernelState
    BY <1>1 DEF vars, ListInv, MemTyped, DirType
  <2>2. QED BY <2>1, StillListed
<1>2. CASE AllocFails
  BY <1>2, StillListed DEF AllocFails, Stops, KernelState
<1>3. ASSUME NEW c \in Envs, Load(c) PROVE ListInv'
  BY <1>3, LoadListed
<1>4. ASSUME NEW e \in Envs, NEW c \in Envs, Fork(e, c) PROVE ListInv'
  BY <1>4, ForkListed
<1>5. ASSUME NEW e \in Envs, NEW c \in Envs, CreateThread(e, c) PROVE ListInv'
  BY <1>5, ThreadListed
<1>6. ASSUME NEW e \in Envs, Exit(e) PROVE ListInv'
  BY <1>6, ExitListed
<1>7. ASSUME NEW e \in Envs, NEW a \in Addresses, NEW v \in Values, Write(e, a, v)
      PROVE  ListInv'
  BY <1>7, WriteListed
<1>8. ASSUME NEW e \in Envs, Fault(e) PROVE ListInv'
  BY <1>8, StillListed DEF Fault, Stops, KernelState
<1>9. QED BY <1>1, <1>2, <1>3, <1>4, <1>5, <1>6, <1>7, <1>8 DEF Next

LEMMA ListedPages == ListInv => PagesOK
<1> SUFFICES ASSUME ListInv PROVE PagesOK
  OBVIOUS
<1>1. PICK F \in SUBSET Pages : IsList(pp_link, page_free_list, F)
  BY DEF ListInv, Listed, Counted, Mem
<1>2. QED BY <1>1, FreeListed, TypesOf DEF ListInv, PagesOK, PageListOK
-----------------------------------------------------------------------------
(***************************************************************************)
(* The theorems                                                            *)
(***************************************************************************)

\* Everything has its type and the free pages are a list that ends, though threads
\* free the directory they share and go on using it, and it is given to others
\* meanwhile: a free page never has a count of 1, from which an exit would put it on
\* the list again, but 0 or one that wrapped round below 0.
THEOREM PagesAlwaysOK == Spec => []PagesOK
<1>1. Spec => []ListInv
  BY InitListed, NextListed, PTL DEF Spec
<1>2. QED BY <1>1, ListedPages, PTL

\* The same of the behaviours that are run, in which exits are restricted, or writes.
THEOREM PagesOKHolds == MCSpec => []PagesOK
<1>1. MCInit => Init
  BY DEF MCInit
<1>2. [MCNext]_<<vars, apart>> => [Next]_vars
  BY DEF MCNext
<1>3. MCSpec => Spec
  BY <1>1, <1>2, PTL DEF MCSpec, Spec
<1>4. QED BY <1>3, PagesAlwaysOK, PTL

\* A page has one use, in one address space, and no free page has one: neither
\* page_insert, which counts the page it maps before it gives back the one that was
\* there, nor a fork in the middle of others' pages makes two of them share a page.
THEOREM MappedOnceApartHolds == MCSpec => []MappedOnceApart
BY MemInvHolds, InvMapped, PTL

\* The page directories implement MemorySpec: a program that is loaded finds what the
\* loader read, a child a copy of its parent's memory, a thread its creator's, and a
\* write is seen by those who share the directory and by nobody else.
THEOREM ImplementsMemoryApartHolds == MCSpec => ImplementsMemoryApart
<1>1. MemInv /\ [MCNext]_<<vars, apart>> =>
         [apart => [Private!MemNext]_(Private!memVars)]_<<vars, apart>>
  BY NextFine
<1>2. MCInit => (apart => Private!MemInit)
  BY InitFine
<1>3. MCSpec => [][apart => [Private!MemNext]_(Private!memVars)]_<<vars, apart>>
  BY <1>1, MemInvHolds, PTL DEF MCSpec
<1>4. QED BY <1>2, <1>3, PTL DEF MCSpec, ImplementsMemoryApart
=============================================================================
