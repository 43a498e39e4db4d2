---------------------------- MODULE Game_proofs ----------------------------
(***************************************************************************)
(* For a screen, a pool and a table of any size: types, what is drawn is   *)
(* on the screen, and every letter is on the list until it is counted.     *)
(***************************************************************************)
EXTENDS Game

\* A letter on the screen is above its lower edge.
High(l) == l.v # 0 => l.x \in Nat /\ ~Beyond(l.x, 0) /\ l.y \in Columns

LettersHigh == \A n \in Nodes : High(letter[n])

Inv == TypeOK /\ LettersHigh
-----------------------------------------------------------------------------
(***************************************************************************)
(* Numbers                                                                 *)
(***************************************************************************)

LEMMA Constants ==
    /\ SIZE \in Nat /\ 0 \in Nodes /\ NULL \notin Nodes
    /\ 0 \in 0 .. PERIOD - 1 /\ 0 \in 0 .. ScoreMod - 1
    /\ 2 \in 2 .. SCR_WIDTH - table_length
    /\ None \in Letters
    /\ \A y \in Columns : y \in Nat /\ y + 15 < SCR_WIDTH
<1>1. \A y \in Columns : y \in Nat /\ y + 15 < SCR_WIDTH
  <2> SUFFICES ASSUME NEW i \in 0 .. SCR_WIDTH \div 8 - 3
               PROVE  i * 8 + 8 \in Nat /\ i * 8 + 8 + 15 < SCR_WIDTH
    BY DEF Columns
  <2>1. SCR_WIDTH \in Nat /\ 8 * (SCR_WIDTH \div 8) <= SCR_WIDTH
    BY GameAssumption
  <2>2. QED BY <2>1
<1>2. QED BY <1>1, GameAssumption DEF Nodes, NULL, Nil, None, Letters

LEMMA Product == \A u \in Nat, a, b \in Int : a <= b => u * a <= u * b
OBVIOUS

\* A glyph that is not beyond the edge is drawn above it.
LEMMA Above ==
    ASSUME NEW x \in Nat, ~Beyond(x, 0) PROVE x \div UNIT + 7 < SCR_HEIGHT
<1> DEFINE q == x \div UNIT
<1>1. UNIT \in Nat /\ UNIT >= 1 /\ SCR_HEIGHT \in Nat
  BY GameAssumption
<1>2. q \in Nat /\ UNIT * q <= x
  BY <1>1
<1>3. 10 * x + UNIT * 79 <= UNIT * (10 * SCR_HEIGHT)
  BY <1>1 DEF Beyond
<1> HIDE DEF q
<1>4. UNIT * (10 * q + 79) <= UNIT * (10 * SCR_HEIGHT)
  <2>1. UNIT * (10 * q + 79) = 10 * (UNIT * q) + UNIT * 79 /\ UNIT * q \in Nat
    BY <1>1, <1>2
  <2>2. QED BY <1>1, <1>2, <1>3, <2>1
<1>5. ASSUME q + 7 >= SCR_HEIGHT PROVE FALSE
  <2>1. 10 * SCR_HEIGHT + 9 <= 10 * q + 79
    BY <1>1, <1>2, <1>5
  <2>2. UNIT * (10 * SCR_HEIGHT + 9) <= UNIT * (10 * q + 79)
    BY <1>1, <1>2, <2>1, Product
  <2>3. UNIT * (10 * SCR_HEIGHT + 9) = UNIT * (10 * SCR_HEIGHT) + 9 * UNIT
    BY <1>1
  <2>4. QED BY <1>1, <1>2, <1>4, <2>2, <2>3
<1>6. QED BY <1>1, <1>2, <1>5 DEF q

LEMMA TopIsHigh == ~Beyond(0, 0)
<1>1. UNIT \in Nat /\ UNIT >= 1 /\ SCR_HEIGHT \in Nat /\ SCR_HEIGHT >= 24
  BY GameAssumption
<1>2. UNIT * 79 <= UNIT * (10 * SCR_HEIGHT)
  BY <1>1, Product
<1>3. QED BY <1>1, <1>2 DEF Beyond

LEMMA NextScore == \A n \in 0 .. ScoreMod - 1 : (n + 1) % ScoreMod \in 0 .. ScoreMod - 1
BY GameAssumption
-----------------------------------------------------------------------------
LEMMA GameInit == Init => Inv
<1> SUFFICES ASSUME Init PROVE Inv
  OBVIOUS
<1>1. TypeOK
  BY Constants DEF Init, TypeOK
<1>2. LettersHigh
  BY DEF Init, LettersHigh, High, None
<1>3. QED BY <1>1, <1>2 DEF Inv

LEMMA KeysKeep == ASSUME Inv, update_keypress PROVE Inv'
<1>1. table_location' \in 2 .. SCR_WIDTH - table_length /\ accel' \in BOOLEAN
  <2>1. PICK k \in [0 .. 3 -> BOOLEAN] :
          /\ accel' = IF k[3] THEN FALSE ELSE accel \/ k[2]
          /\ LET step == IF accel' THEN 32 ELSE 16 IN
             table_location' =
                IF k[1] /\ table_location > 2 THEN Left(step)
                ELSE IF ~k[1] /\ k[0] THEN Right(step)
                ELSE table_location
    BY DEF update_keypress
  <2>2. accel' \in BOOLEAN
    BY <2>1, Zenon DEF Inv, TypeOK
  <2>3. \A step \in {16, 32} : /\ Left(step) \in 2 .. SCR_WIDTH - table_length
                               /\ Right(step) \in 2 .. SCR_WIDTH - table_length
    BY GameAssumption DEF Inv, TypeOK, Left, Right
  <2>4. table_location \in 2 .. SCR_WIDTH - table_length
    BY DEF Inv, TypeOK
  <2>5. table_location' \in {table_location} \cup {Left(16), Left(32), Right(16), Right(32)}
    BY <2>1
  <2>6. QED BY <2>2, <2>3, <2>4, <2>5
<1>2. TypeOK'
  BY <1>1 DEF Inv, TypeOK, update_keypress, list, score
<1>3. LettersHigh'
  BY DEF Inv, LettersHigh, update_keypress, list
<1>4. QED BY <1>2, <1>3 DEF Inv

LEMMA CreateKeeps == ASSUME Inv, create_new_letter PROVE Inv'
<1>1. fly_new \in Nodes /\ Links \in [Nodes -> Nodes \cup {NULL}]
  <2>1. Linked \in [Nodes -> Nodes \cup {NULL}]
    BY GameAssumption DEF Linked, Nodes
  <2>2. QED BY <2>1, Constants DEF Inv, TypeOK, fly_new, Links
<1>2. PICK y \in Columns, v \in Speeds :
          letter' = [n \in Nodes |->
              IF n = fly_new THEN [x |-> 0, y |-> y, v |-> v, _prev |-> NULL]
              ELSE IF n = head THEN [letter[n] EXCEPT !._prev = fly_new]
              ELSE letter[n]]
  BY DEF create_new_letter
<1>3. letter' \in [Nodes -> Letters]
  BY <1>1, <1>2 DEF Inv, TypeOK, Letters
<1>4. \A n \in Nodes : High(letter'[n])
  <2> SUFFICES ASSUME NEW n \in Nodes PROVE High(letter'[n])
    OBVIOUS
  <2>1. CASE n = fly_new
    BY <1>2, <2>1, TopIsHigh DEF High
  <2>2. CASE n # fly_new
    <3>1. letter[n] \in Letters /\ High(letter[n])
      BY DEF Inv, TypeOK, LettersHigh
    <3>2. /\ letter'[n].x = letter[n].x /\ letter'[n].y = letter[n].y
          /\ letter'[n].v = letter[n].v
      BY <1>2, <2>2, <3>1 DEF Letters
    <3>3. QED BY <3>1, <3>2 DEF High
  <2>3. QED BY <2>1, <2>2
<1>5. TypeOK'
  BY <1>1, <1>3, NextScore DEF Inv, TypeOK, create_new_letter, table, score
<1>6. QED BY <1>4, <1>5 DEF Inv, LettersHigh

\* Taking a letter out leaves the others where they are.
LEMMA RemoveKeeps ==
    ASSUME Inv, it \in Nodes, Remove(it)
    PROVE  /\ letter' \in [Nodes -> Letters] /\ LettersHigh'
           /\ _next' \in [Nodes -> Nodes \cup {NULL}]
           /\ {head', free_head'} \subseteq Nodes \cup {NULL}
<1> DEFINE next == _next[it]
           prev == letter[it]._prev
           rest == fly_remove(it).letters
<1>1. next \in Nodes \cup {NULL} /\ prev \in Nodes \cup {NULL}
  BY DEF Inv, TypeOK, Letters
<1>2. /\ _next' \in [Nodes -> Nodes \cup {NULL}]
      /\ {head', free_head'} \subseteq Nodes \cup {NULL}
  BY <1>1 DEF Inv, TypeOK, Remove, fly_remove
<1>3. letter \in [Nodes -> Letters] /\ \A n \in Nodes : High(letter[n])
  BY DEF Inv, TypeOK, LettersHigh
<1>4. rest \in [Nodes -> Letters] /\ \A n \in Nodes : High(rest[n])
  <2>1. CASE next = NULL
    BY <1>3, <2>1 DEF fly_remove
  <2>2. CASE next \in Nodes /\ next # NULL
    <3> DEFINE l == [letter[next] EXCEPT !._prev = prev]
    <3>1. rest = [letter EXCEPT ![next] = l]
      BY <2>2 DEF fly_remove
    <3>2. letter[next] \in Letters /\ High(letter[next])
      BY <1>3, <2>2
    <3>3. l \in Letters /\ l.x = letter[next].x /\ l.y = letter[next].y
          /\ l.v = letter[next].v
      BY <1>1, <3>2 DEF Letters
    <3>4. High(l)
      BY <3>2, <3>3 DEF High
    <3> HIDE DEF l
    <3>5. QED BY <1>3, <2>2, <3>1, <3>3, <3>4
  <2>3. QED BY <1>1, <2>1, <2>2
<1>5. letter' = [rest EXCEPT ![it] = None]
  BY DEF Remove
<1>6. None \in Letters /\ High(None)
  BY Constants DEF High, None
<1> HIDE DEF rest
<1>7. letter' \in [Nodes -> Letters] /\ \A n \in Nodes : High(letter'[n])
  BY <1>4, <1>5, <1>6
<1>8. QED BY <1>2, <1>7 DEF LettersHigh

LEMMA FallKeeps == ASSUME Inv, update_letter_pos PROVE Inv'
<1>1. it \in Nodes /\ _next[it] \in Nodes \cup {NULL} /\ letter[it] \in Letters
      /\ High(letter[it])
  BY DEF Inv, TypeOK, LettersHigh, update_letter_pos
<1>2. CASE Remove(it) /\ Count(letter[it].y)
  <2>1. {hit', miss'} \subseteq 0 .. ScoreMod - 1
    BY <1>2, NextScore DEF Inv, TypeOK, Count
  <2>2. QED BY <1>1, <1>2, <2>1, RemoveKeeps
            DEF Inv, TypeOK, LettersHigh, update_letter_pos, table
<1>3. CASE ~Landed(letter[it].x + letter[it].v, letter[it].y)
  <2> DEFINE moved == [letter[it] EXCEPT !.x = letter[it].x + letter[it].v]
  <2>1. letter' = [letter EXCEPT ![it] = moved]
        /\ UNCHANGED <<head, _next, free_head, score, pc, now, table, created>>
        /\ it' = _next[it]
    BY <1>3 DEF update_letter_pos
  <2>2. letter[it].v \in Nat /\ letter[it].x \in Int
    <3>1. letter[it].v \in Speeds \cup {0} /\ letter[it].x \in Int
      BY <1>1 DEF Letters
    <3>2. Speeds \cup {0} \subseteq Nat
      BY GameAssumption
    <3>3. QED BY <3>1, <3>2, Zenon
  <2>3. moved \in Letters /\ moved.v = letter[it].v /\ moved.y = letter[it].y
        /\ moved.x = letter[it].x + letter[it].v
    BY <1>1, <2>2 DEF Letters
  <2>4. High(moved)
    BY <1>1, <1>3, <2>2, <2>3 DEF High, Landed
  <2> HIDE DEF moved
  <2>5. letter' \in [Nodes -> Letters] /\ \A n \in Nodes : High(letter'[n])
    BY <2>1, <2>3, <2>4 DEF Inv, TypeOK, LettersHigh
  <2>6. QED BY <1>1, <2>1, <2>5 DEF Inv, TypeOK, LettersHigh, table, score
<1>4. QED BY <1>2, <1>3 DEF update_letter_pos

\* The letters have their types and are above the lower edge, in every state: one
\* that would get past the edge has landed and is taken out.
THEOREM GameInvariance == Spec => []Inv
<1>1. Inv /\ [Next]_vars => Inv'
  <2> SUFFICES ASSUME Inv, [Next]_vars PROVE Inv'
    OBVIOUS
  <2>1. CASE NoNewLetter
    BY <2>1 DEF Inv, TypeOK, LettersHigh, NoNewLetter, list, table, score
  <2>2. CASE NextTick
    <3>1. now' \in 0 .. PERIOD - 1
      BY <2>2, GameAssumption DEF Inv, TypeOK, NextTick
    <3>2. QED BY <2>2, <3>1 DEF Inv, TypeOK, LettersHigh, NextTick, list, table, score
  <2>3. CASE redraw_screen
    BY <2>3 DEF Inv, TypeOK, LettersHigh, redraw_screen, list, table, score
  <2>4. CASE UNCHANGED vars
    BY <2>4 DEF Inv, TypeOK, LettersHigh, vars, list, table, score
  <2>5. QED BY <2>1, <2>2, <2>3, <2>4, KeysKeep, CreateKeeps, FallKeeps DEF Next
<1>2. QED BY <1>1, GameInit, PTL DEF Spec

\* The letters, the pool's links and the table's place keep their types, however
\* often the pool is used.
THEOREM GameTypeCorrect == Spec => []TypeOK
<1>1. Inv => TypeOK
  BY DEF Inv
<1>2. QED BY <1>1, GameInvariance, PTL

\* What redraw_screen draws is on the screen, whatever its size, the speeds of the
\* letters and the keys.
THEOREM DrawnOnScreenHolds == Spec => []DrawnOnScreen
<1>1. Inv => DrawnOnScreen
  <2> SUFFICES ASSUME Inv PROVE DrawnOnScreen
    OBVIOUS
  <2>1. ASSUME NEW n \in Alive
        PROVE  letter[n].x \div UNIT + 7 < SCR_HEIGHT /\ letter[n].y + 15 < SCR_WIDTH
    <3>1. letter[n].x \in Nat /\ ~Beyond(letter[n].x, 0) /\ letter[n].y \in Columns
      BY DEF Inv, LettersHigh, High, Alive
    <3>2. QED BY <3>1, Above, Constants
  <2>2. table_location + table_length - 1 < SCR_WIDTH
    BY GameAssumption DEF Inv, TypeOK
  <2>3. QED BY <2>1, <2>2 DEF DrawnOnScreen
<1>2. QED BY <1>1, GameInvariance, PTL
-----------------------------------------------------------------------------
(***************************************************************************)
(* The letters: turn[n] is how many letters have been created since letter *)
(* n was, and M are those that this tick has moved already.  So a letter's *)
(* height tells its age, no two are of one age, and as those that are old  *)
(* enough have landed, the pool does not run out.                          *)
(***************************************************************************)

Linking ==
    /\ IsList(_next, head, Alive)
    /\ \A n \in Alive :
          IF n = head THEN letter[n]._prev = NULL
          ELSE letter[n]._prev \in Alive /\ _next[letter[n]._prev] = n

Pool == IF free_head = NULL THEN Alive = {} ELSE IsList(_next, free_head, Nodes \ Alive)

Age(turn, M, n) == PERIOD * turn[n] + now + (IF n \in M THEN 1 ELSE 0)

Ages(turn, M) ==
    /\ \A n \in Alive : letter[n].x = letter[n].v * Age(turn, M, n)
    /\ \A n, m \in Alive : turn[n] = turn[m] => n = m
    /\ pc = "fall" => IsList(_next, it, Alive \ M)
    /\ pc # "fall" => M = {} /\ (now = 0 => \A n \in Alive : turn[n] >= 1)

AgesKnown == \E turn \in [Nodes -> Nat], M \in SUBSET Nodes : Ages(turn, M)

ListInv == Inv /\ Linking /\ Pool /\ AgesKnown

LEMMA AliveTypes ==
    ASSUME Inv
    PROVE  /\ Alive \in SUBSET Nodes
           /\ \A n \in Alive : /\ letter[n].v \in Nat /\ letter[n].v >= 1
                               /\ letter[n].v \in Speeds
                               /\ letter[n].x \in Nat /\ ~Beyond(letter[n].x, 0)
           /\ Nil \notin Nodes /\ _next \in [Nodes -> Nodes \cup {Nil}]
           /\ now \in Nat /\ PERIOD \in Nat /\ PERIOD >= 1
<1>1. Speeds \subseteq Nat \ {0}
  BY GameAssumption
<1>2. \A n \in Alive : letter[n].v \in Speeds
  BY DEF Alive, Inv, TypeOK, Letters
<1>3. \A n \in Alive : letter[n].x \in Nat /\ ~Beyond(letter[n].x, 0)
  BY DEF Alive, Inv, LettersHigh, High
<1>4. Nil \notin Nodes /\ _next \in [Nodes -> Nodes \cup {Nil}]
  BY Constants DEF Inv, TypeOK, NULL
<1>5. now \in Nat /\ PERIOD \in Nat /\ PERIOD >= 1
  BY GameAssumption DEF Inv, TypeOK
<1>6. ASSUME NEW n \in Alive PROVE letter[n].v \in Nat /\ letter[n].v >= 1
  <2>1. letter[n].v \in Nat \ {0}
    BY <1>1, <1>2, Zenon
  <2>2. QED BY <2>1
<1>7. QED BY <1>2, <1>3, <1>4, <1>5, <1>6 DEF Alive

\* A letter that has seen SIZE others created has landed.
LEMMA OldOnesLanded ==
    ASSUME Inv, NEW turn \in [Nodes -> Nat], NEW M \in SUBSET Nodes, Ages(turn, M)
    PROVE  \A n \in Alive : turn[n] \in 0 .. SIZE - 1
<1> SUFFICES ASSUME NEW n \in Alive, turn[n] >= SIZE PROVE FALSE
  BY AliveTypes, GameAssumption
<1> DEFINE v == letter[n].v
           h == UNIT * SCR_HEIGHT
           k == now + (IF n \in M THEN 1 ELSE 0)
<1>1. /\ v \in Nat /\ v \in Speeds /\ letter[n].x \in Nat
      /\ ~Beyond(letter[n].x, 0) /\ PERIOD \in Nat /\ k \in Nat /\ turn[n] \in Nat
      /\ SIZE \in Nat /\ UNIT \in Nat /\ UNIT >= 1 /\ h \in Nat
  BY AliveTypes, GameAssumption
<1>2. letter[n].x = v * (PERIOD * turn[n] + k)
  BY <1>1, AliveTypes DEF Ages, Age
<1> HIDE DEF v, h, k
<1>3. PERIOD * SIZE <= PERIOD * turn[n] + k
  <2>1. PERIOD * SIZE <= PERIOD * turn[n]
    BY <1>1, Product
  <2>2. PERIOD * SIZE \in Nat /\ PERIOD * turn[n] \in Nat
    BY <1>1
  <2>3. QED BY <1>1, <2>1, <2>2
<1>4. v * (PERIOD * SIZE) <= letter[n].x
  BY <1>1, <1>2, <1>3, Product
<1>5. h <= v * (PERIOD * SIZE)
  BY <1>1, PoolAssumption DEF v, h
<1>6. h <= letter[n].x
  BY <1>1, <1>4, <1>5
<1>7. 10 * letter[n].x + UNIT * 79 <= 10 * h
  <2>1. 10 * letter[n].x + UNIT * (79 + 10 * 0) <= 10 * UNIT * SCR_HEIGHT
    BY <1>1, GameAssumption DEF Beyond
  <2>2. 10 * UNIT * SCR_HEIGHT = 10 * h
    BY GameAssumption DEF h
  <2>3. QED BY <1>1, <2>1, <2>2
<1>8. QED BY <1>1, <1>6, <1>7

\* As no two are of one age, there are not more than SIZE.
LEMMA PoolBound ==
    Inv /\ AgesKnown =>
        IsFiniteSet(Alive) /\ Cardinality(Alive) \in Nat /\ Cardinality(Alive) <= SIZE
<1> SUFFICES ASSUME Inv, AgesKnown
             PROVE  /\ IsFiniteSet(Alive) /\ Cardinality(Alive) \in Nat
                    /\ Cardinality(Alive) <= SIZE
  OBVIOUS
<1>1. PICK turn \in [Nodes -> Nat], M \in SUBSET Nodes : Ages(turn, M)
  BY DEF AgesKnown
<1> DEFINE f == [n \in Alive |-> turn[n]]
<1>2. f \in Injection(Alive, 0 .. SIZE - 1)
  BY <1>1, OldOnesLanded DEF Injection, Ages, IsInjective
<1>3. IsFiniteSet(0 .. SIZE - 1) /\ Cardinality(0 .. SIZE - 1) = SIZE
  BY FS_Interval, GameAssumption
<1>4. QED BY <1>2, <1>3, FS_Injection, FS_CardinalityType
-----------------------------------------------------------------------------
\* A new letter: it is the youngest, and heads the list.
LEMMA CreateList ==
    ASSUME ListInv, Inv', create_new_letter
    PROVE  /\ fly_new \in Nodes \ Alive
           /\ Alive' = Alive \cup {fly_new}
           /\ Linking'
           /\ IsList(_next', free_head', Nodes \ Alive')
<1> DEFINE n == fly_new
<1>1. /\ Alive \in SUBSET Nodes /\ Nil \notin Nodes /\ NULL = Nil
      /\ letter \in [Nodes -> Letters] /\ SIZE \in Nat /\ SIZE >= 1 /\ 0 \in Nodes
  BY AliveTypes, GameAssumption, Constants DEF ListInv, Inv, TypeOK, NULL
<1>2. IsList(Links, n, Nodes \ Alive) /\ n # Nil /\ Links \in [Nodes -> Nodes \cup {Nil}]
  <2>1. CASE free_head = NULL
    <3>1. IsList(Linked, 0, 0 .. (SIZE + 1) - 1)
      BY <1>1, InitialList DEF Linked, Nodes, NULL
    <3>2. Alive = {} /\ Nodes \ Alive = 0 .. (SIZE + 1) - 1
      BY <1>1, <2>1 DEF ListInv, Pool, Nodes
    <3>3. Linked \in [Nodes -> Nodes \cup {Nil}]
      BY GameAssumption DEF Linked, Nodes, NULL
    <3>4. QED BY <1>1, <2>1, <3>1, <3>2, <3>3 DEF Links, fly_new, Nil
  <2>2. CASE free_head # NULL
    BY <1>1, <2>2, AliveTypes DEF ListInv, Pool, Links, fly_new
  <2>3. QED BY <2>1, <2>2
<1>3. n \in Nodes \ Alive /\ IsList(Links, Links[n], (Nodes \ Alive) \ {n})
  BY <1>2, ListPop
<1> HIDE DEF n
<1>4. PICK y \in Columns, v \in Speeds :
          letter' = [m \in Nodes |->
              IF m = n THEN [x |-> 0, y |-> y, v |-> v, _prev |-> NULL]
              ELSE IF m = head THEN [letter[m] EXCEPT !._prev = n]
              ELSE letter[m]]
  BY DEF create_new_letter, n
<1>5. /\ free_head' = Links[n] /\ head' = n
      /\ _next' = [Links EXCEPT ![n] = head]
  BY DEF create_new_letter, n
<1>6. v # 0
  BY GameAssumption
<1>7. \A m \in Nodes : m # n => /\ letter'[m].v = letter[m].v
                                /\ letter'[m]._prev = IF m = head THEN n ELSE letter[m]._prev
  BY <1>1, <1>4 DEF Letters
<1>8. letter'[n].v = v /\ letter'[n]._prev = NULL
  BY <1>3, <1>4
<1>9. Alive' = Alive \cup {n}
  BY <1>3, <1>6, <1>7, <1>8 DEF Alive
<1>10. IsList(Links, head, Alive)
  <2>1. CASE free_head = NULL
    <3>1. Alive = {} /\ IsList(_next, head, Alive)
      BY <2>1 DEF ListInv, Pool, Linking
    <3>2. QED BY <3>1 DEF IsList
  <2>2. CASE free_head # NULL
    BY <2>2 DEF ListInv, Linking, Links
  <2>3. QED BY <2>1, <2>2
<1>11. IsList(_next', head', Alive')
  BY <1>1, <1>2, <1>3, <1>5, <1>9, <1>10, ListPush
<1>12. Nodes \ Alive' = (Nodes \ Alive) \ {n}
  BY <1>9
<1>13. IsList(_next', free_head', Nodes \ Alive')
  BY <1>2, <1>3, <1>5, <1>12, ListFrame
<1>14. head \in Alive \cup {Nil}
  BY <1>10 DEF IsList
<1>15. ASSUME NEW m \in Alive'
       PROVE  IF m = head' THEN letter'[m]._prev = NULL
              ELSE letter'[m]._prev \in Alive' /\ _next'[letter'[m]._prev] = m
  <2>1. CASE m = n
    BY <1>5, <1>8, <2>1
  <2>2. CASE m # n /\ m = head
    BY <1>1, <1>2, <1>3, <1>5, <1>7, <1>9, <2>2
  <2>3. CASE m # n /\ m # head
    <3>1. m \in Alive /\ letter[m]._prev \in Alive /\ _next[letter[m]._prev] = m
      BY <1>9, <2>3 DEF ListInv, Linking
    <3>2. free_head # NULL
      BY <3>1 DEF ListInv, Pool
    <3>3. Links = _next
      BY <3>2 DEF Links
    <3>4. QED BY <1>1, <1>2, <1>3, <1>5, <1>7, <1>9, <2>3, <3>1, <3>3
  <2>4. QED BY <2>1, <2>2, <2>3
<1>16. QED BY <1>3, <1>9, <1>11, <1>13, <1>15 DEF Linking, n

LEMMA CreateAges ==
    ASSUME ListInv, Inv', create_new_letter PROVE AgesKnown'
<1> DEFINE n == fly_new
<1>1. /\ n \in Nodes \ Alive /\ Alive' = Alive \cup {n} /\ Linking'
      /\ Alive \in SUBSET Nodes
  BY CreateList, AliveTypes DEF ListInv
<1>2. PICK y \in Columns, v \in Speeds :
          letter' = [m \in Nodes |->
              IF m = n THEN [x |-> 0, y |-> y, v |-> v, _prev |-> NULL]
              ELSE IF m = head THEN [letter[m] EXCEPT !._prev = n]
              ELSE letter[m]]
  BY DEF create_new_letter
<1>3. pc = "create" /\ now = 0 /\ now' = 0 /\ pc' = "fall" /\ it' = head'
  BY DEF create_new_letter
<1> HIDE DEF n
<1>4. PICK turn \in [Nodes -> Nat], M \in SUBSET Nodes : Ages(turn, M)
  BY DEF ListInv, AgesKnown
<1>5. M = {} /\ \A m \in Alive : turn[m] >= 1
  BY <1>3, <1>4 DEF Ages
<1> DEFINE t == [turn EXCEPT ![n] = 0]
<1>6. t \in [Nodes -> Nat] /\ t[n] = 0 /\ \A m \in Alive : t[m] = turn[m]
  BY <1>1
<1>7. letter \in [Nodes -> Letters]
  BY DEF ListInv, Inv, TypeOK
<1>8. \A m \in Alive : letter'[m].x = letter[m].x /\ letter'[m].v = letter[m].v
  BY <1>1, <1>2, <1>7 DEF Letters
<1>9. letter'[n].x = 0 /\ letter'[n].v = v /\ v \in Nat
  BY <1>1, <1>2, GameAssumption
<1> HIDE DEF t
<1>10. ASSUME NEW m \in Alive'
       PROVE  letter'[m].x = letter'[m].v * (PERIOD * t[m] + now' + (IF m \in {} THEN 1 ELSE 0))
  <2>1. CASE m = n
    <3>1. PERIOD * t[n] = 0 /\ v * 0 = 0
      BY <1>6, <1>9, GameAssumption
    <3>2. QED BY <1>3, <1>9, <2>1, <3>1
  <2>2. CASE m # n
    BY <1>1, <1>3, <1>4, <1>5, <1>6, <1>8, <2>2 DEF Ages, Age
  <2>3. QED BY <2>1, <2>2
<1>11. \A m, k \in Alive' : t[m] = t[k] => m = k
  BY <1>1, <1>4, <1>5, <1>6 DEF Ages
<1>12. IsList(_next', it', Alive' \ {})
  <2>1. Alive' \ {} = Alive'
    OBVIOUS
  <2>2. QED BY <1>1, <1>3, <2>1 DEF Linking
<1>13. \E u \in [Nodes -> Nat], N \in SUBSET Nodes :
          /\ \A m \in Alive' : letter'[m].x = letter'[m].v * (PERIOD * u[m] + now' + (IF m \in N THEN 1 ELSE 0))
          /\ \A m, k \in Alive' : u[m] = u[k] => m = k
          /\ pc' = "fall" => IsList(_next', it', Alive' \ N)
          /\ pc' # "fall" => N = {} /\ (now' = 0 => \A m \in Alive' : u[m] >= 1)
  <2>1. {} \in SUBSET Nodes
    OBVIOUS
  <2>2. QED BY <1>3, <1>6, <1>10, <1>11, <1>12, <2>1
<1>14. QED BY <1>13 DEF AgesKnown, Ages, Age

\* As the pool does not run out, its list of free nodes is not empty afterwards.
LEMMA CreateLetters ==
    ASSUME ListInv, Inv', create_new_letter PROVE ListInv'
<1>1. AgesKnown' /\ Linking' /\ IsList(_next', free_head', Nodes \ Alive')
  BY CreateAges, CreateList
<1>2. (IsFiniteSet(Alive) /\ Cardinality(Alive) <= SIZE)'
  <2>1. (Inv /\ AgesKnown => IsFiniteSet(Alive) /\ Cardinality(Alive) <= SIZE)'
    BY PoolBound, PTL
  <2>2. QED BY <1>1, <2>1
<1>3. free_head' # NULL
  <2> SUFFICES ASSUME free_head' = NULL PROVE FALSE
    OBVIOUS
  <2>1. Nodes \ Alive' = {} /\ Alive' \subseteq Nodes
    BY <1>1 DEF IsList, NULL, Alive
  <2>2. Alive' = 0 .. SIZE
    BY <2>1 DEF Nodes
  <2>3. Cardinality(0 .. SIZE) = SIZE + 1
    BY FS_Interval, GameAssumption
  <2>4. QED BY <1>2, <2>2, <2>3, GameAssumption
<1>4. QED BY <1>1, <1>3 DEF ListInv, Pool
-----------------------------------------------------------------------------
\* The ages and the letters stay as they are when nothing moves.
LEMMA StillList ==
    ASSUME ListInv, Inv', UNCHANGED <<letter, _next, head, free_head, now>>,
           \/ pc' # "fall" /\ pc # "fall"
           \/ pc' = "fall" /\ pc # "fall" /\ it' = head
           \/ UNCHANGED <<pc, it>>
    PROVE  ListInv'
<1>1. UNCHANGED <<Alive, Linking, Pool>>
  BY DEF Alive, Linking, Pool
<1>2. PICK turn \in [Nodes -> Nat], M \in SUBSET Nodes : Ages(turn, M)
  BY DEF ListInv, AgesKnown
<1>3. (\A n \in Alive' : letter'[n].x = letter'[n].v * (PERIOD * turn[n] + now' + (IF n \in M THEN 1 ELSE 0)))
      /\ \A n, m \in Alive' : turn[n] = turn[m] => n = m
  BY <1>1, <1>2 DEF Ages, Age
<1>4. pc' = "fall" => IsList(_next', it', Alive' \ M)
  <2>1. CASE UNCHANGED <<pc, it>>
    BY <1>1, <1>2, <2>1 DEF Ages
  <2>2. CASE pc' = "fall" /\ pc # "fall" /\ it' = head
    <3>1. M = {} /\ Alive' \ M = Alive
      BY <1>1, <1>2, <2>2 DEF Ages
    <3>2. QED BY <2>2, <3>1 DEF ListInv, Linking
  <2>3. QED BY <2>1, <2>2
<1>5. pc' # "fall" => M = {} /\ (now' = 0 => \A n \in Alive' : turn[n] >= 1)
  BY <1>1, <1>2 DEF Ages
<1>6. AgesKnown'
  BY <1>3, <1>4, <1>5 DEF AgesKnown, Ages, Age
<1>7. QED BY <1>1, <1>6 DEF ListInv

\* When all letters have moved, a tick is over; when a letter is about to be
\* created, those there are count one more.
LEMMA TickList ==
    ASSUME ListInv, Inv', NextTick PROVE ListInv'
<1>1. /\ pc = "fall" /\ it = NULL /\ pc' # "fall" /\ now' = (now + 1) % PERIOD
      /\ UNCHANGED <<letter, _next, head, free_head>>
  BY DEF NextTick, list
<1>2. UNCHANGED <<Alive, Linking, Pool>>
  BY <1>1 DEF Alive, Linking, Pool
<1>3. PICK turn \in [Nodes -> Nat], M \in SUBSET Nodes : Ages(turn, M)
  BY DEF ListInv, AgesKnown
<1>4. \A n \in Alive : n \in M
  BY <1>1, <1>3 DEF Ages, IsList, NULL
<1>5. \A n \in Alive : letter[n].x = letter[n].v * (PERIOD * turn[n] + (now + 1))
  BY <1>3, <1>4, AliveTypes DEF Ages, Age, ListInv
<1>6. /\ now \in 0 .. PERIOD - 1 /\ PERIOD \in Nat /\ PERIOD >= 1
      /\ Alive \in SUBSET Nodes
  BY AliveTypes DEF ListInv, Inv, TypeOK
<1> DEFINE t == IF now + 1 = PERIOD THEN [n \in Nodes |-> turn[n] + 1] ELSE turn
<1>7. /\ t \in [Nodes -> Nat]
      /\ \A n \in Alive : PERIOD * t[n] + now' = PERIOD * turn[n] + (now + 1)
      /\ \A n, m \in Alive : t[n] = t[m] => n = m
      /\ now' = 0 => \A n \in Alive : t[n] >= 1
  <2>1. CASE now + 1 = PERIOD
    <3>1. now' = 0
      BY <1>1, <1>6, <2>1
    <3>2. \A a \in Nat : PERIOD * (a + 1) = PERIOD * a + PERIOD
      BY <1>6
    <3>3. \A n \in Nodes : turn[n] \in Nat /\ t[n] = turn[n] + 1
      BY <2>1
    <3>4. t \in [Nodes -> Nat]
      BY <2>1
    <3> HIDE DEF t
    <3>5. \A n \in Alive : PERIOD * t[n] + now' = PERIOD * turn[n] + (now + 1)
      <4> SUFFICES ASSUME NEW n \in Alive
                   PROVE  PERIOD * t[n] + now' = PERIOD * turn[n] + (now + 1)
        OBVIOUS
      <4>1. PERIOD * t[n] = PERIOD * turn[n] + PERIOD /\ PERIOD * turn[n] \in Nat
        BY <1>6, <3>2, <3>3
      <4>2. QED BY <1>6, <2>1, <3>1, <4>1
    <3>6. \A n, m \in Alive : t[n] = t[m] => n = m
      <4> SUFFICES ASSUME NEW n \in Alive, NEW m \in Alive, t[n] = t[m] PROVE n = m
        OBVIOUS
      <4>1. turn[n] = turn[m]
        BY <1>6, <3>3
      <4>2. QED BY <1>3, <4>1 DEF Ages
    <3>7. \A n \in Alive : t[n] >= 1
      BY <1>6, <3>3
    <3>8. QED BY <3>4, <3>5, <3>6, <3>7
  <2>2. CASE now + 1 # PERIOD
    <3>1. now' = now + 1
      BY <1>1, <1>6, <2>2
    <3>2. QED BY <1>3, <1>6, <2>2, <3>1 DEF Ages
  <2>3. QED BY <2>1, <2>2
<1> HIDE DEF t
<1>8. \A n \in Alive : PERIOD * t[n] + now' \in Nat
  BY <1>6, <1>7
<1>9. \A n \in Alive : letter[n].x = letter[n].v * (PERIOD * t[n] + now' + (IF n \in {} THEN 1 ELSE 0))
  BY <1>5, <1>7, <1>8
<1>10. \E u \in [Nodes -> Nat], N \in SUBSET Nodes :
          /\ \A m \in Alive' : letter'[m].x = letter'[m].v * (PERIOD * u[m] + now' + (IF m \in N THEN 1 ELSE 0))
          /\ \A m, k \in Alive' : u[m] = u[k] => m = k
          /\ pc' = "fall" => IsList(_next', it', Alive' \ N)
          /\ pc' # "fall" => N = {} /\ (now' = 0 => \A m \in Alive' : u[m] >= 1)
  <2>1. {} \in SUBSET Nodes
    OBVIOUS
  <2>2. QED BY <1>1, <1>2, <1>7, <1>9, <2>1
<1>11. AgesKnown'
  BY <1>10 DEF AgesKnown, Ages, Age
<1>12. QED BY <1>2, <1>11 DEF ListInv
-----------------------------------------------------------------------------
\* A letter that goes on falling has been moved.
LEMMA MoveList ==
    ASSUME ListInv, Inv', update_letter_pos,
           ~Landed(letter[it].x + letter[it].v, letter[it].y)
    PROVE  ListInv'
<1> DEFINE moved == [letter[it] EXCEPT !.x = letter[it].x + letter[it].v]
<1>1. /\ pc = "fall" /\ it # Nil /\ it' = _next[it] /\ letter' = [letter EXCEPT ![it] = moved]
      /\ UNCHANGED <<head, _next, free_head, pc, now>>
  BY DEF update_letter_pos, NULL
<1>2. PICK turn \in [Nodes -> Nat], M \in SUBSET Nodes : Ages(turn, M)
  BY DEF ListInv, AgesKnown
<1>3. it \in Alive \ M /\ IsList(_next, it', (Alive \ M) \ {it})
  BY <1>1, <1>2, ListPop DEF Ages
<1>4. letter \in [Nodes -> Letters] /\ Alive \in SUBSET Nodes
      /\ letter[it].v \in Nat /\ letter[it].x \in Nat
  BY <1>3, AliveTypes DEF ListInv, Inv, TypeOK
<1>5. /\ moved.v = letter[it].v /\ moved._prev = letter[it]._prev
      /\ moved.x = letter[it].x + letter[it].v
  BY <1>3, <1>4 DEF Letters
<1> HIDE DEF moved
<1>6. \A n \in Nodes : /\ letter'[n].v = letter[n].v
                       /\ letter'[n]._prev = letter[n]._prev
                       /\ n # it => letter'[n] = letter[n]
  BY <1>1, <1>4, <1>5
<1>7. Alive' = Alive
  BY <1>6 DEF Alive
<1>8. Linking'
  BY <1>1, <1>4, <1>6, <1>7 DEF Linking, ListInv
<1>9. Pool'
  BY <1>1, <1>7 DEF Pool, ListInv
<1> DEFINE N == M \cup {it}
<1>10. \A n \in Alive : letter'[n].x = letter'[n].v * (PERIOD * turn[n] + now' + (IF n \in N THEN 1 ELSE 0))
  <2> SUFFICES ASSUME NEW n \in Alive
               PROVE  letter'[n].x = letter'[n].v * (PERIOD * turn[n] + now' + (IF n \in N THEN 1 ELSE 0))
    OBVIOUS
  <2>1. letter[n].x = letter[n].v * (PERIOD * turn[n] + now + (IF n \in M THEN 1 ELSE 0))
    BY <1>2 DEF Ages, Age
  <2>2. CASE n # it
    BY <1>1, <1>4, <1>6, <2>1, <2>2
  <2>3. CASE n = it
    <3>1. letter'[n].x = letter[n].x + letter[n].v /\ letter'[n].v = letter[n].v
      BY <1>1, <1>4, <1>5, <2>3
    <3> DEFINE a == PERIOD * turn[n] + now
    <3>2. a \in Nat /\ letter[n].v \in Nat
      BY <1>4, <2>3, AliveTypes DEF ListInv
    <3>3. letter[n].x = letter[n].v * a
      BY <1>3, <2>1, <2>3, <3>2
    <3> HIDE DEF a
    <3>4. letter[n].v * (a + 1) = letter[n].v * a + letter[n].v
      BY <3>2
    <3>5. letter'[n].x = letter'[n].v * (a + 1)
      BY <3>1, <3>3, <3>4
    <3>6. QED BY <1>1, <2>3, <3>5 DEF a
  <2>4. QED BY <2>2, <2>3
<1>11. IsList(_next', it', Alive' \ N)
  <2>1. Alive \ N = (Alive \ M) \ {it}
    OBVIOUS
  <2>2. QED BY <1>1, <1>3, <1>7, <2>1
<1>12. \A n, m \in Alive' : turn[n] = turn[m] => n = m
  BY <1>2, <1>7 DEF Ages
<1>13. N \in SUBSET Nodes
  BY <1>3, <1>4
<1> HIDE DEF N
<1>14. AgesKnown'
  BY <1>1, <1>7, <1>10, <1>11, <1>12, <1>13 DEF AgesKnown, Ages, Age
<1>15. QED BY <1>8, <1>9, <1>14 DEF ListInv

\* A letter that has landed leaves the list for that of the free nodes.
LEMMA RemoveLinks ==
    ASSUME ListInv, it \in Alive, Remove(it)
    PROVE  /\ Alive' = Alive \ {it} /\ Linking' /\ Pool'
           /\ \A n \in Alive' : letter'[n].x = letter[n].x /\ letter'[n].v = letter[n].v
           /\ \A n \in Alive' : _next[n] # it => _next'[n] = _next[n]
<1> DEFINE next == _next[it]
           prev == letter[it]._prev
           links == fly_remove(it).links
           letters == fly_remove(it).letters
<1>1. /\ Alive \in SUBSET Nodes /\ Nil \notin Nodes /\ NULL = Nil
      /\ _next \in [Nodes -> Nodes \cup {Nil}] /\ letter \in [Nodes -> Letters]
  BY AliveTypes DEF ListInv, Inv, TypeOK, NULL
<1>2. /\ IsList(_next, head, Alive)
      /\ \A n \in Alive : IF n = head THEN letter[n]._prev = Nil
                        ELSE letter[n]._prev \in Alive /\ _next[letter[n]._prev] = n
  BY <1>1 DEF ListInv, Linking
<1>3. /\ letter' = [letters EXCEPT ![it] = None] /\ _next' = [links EXCEPT ![it] = free_head]
      /\ free_head' = it /\ head' = IF it = head THEN next ELSE head
  BY DEF Remove
<1>4. /\ letters = IF next = Nil THEN letter ELSE [letter EXCEPT ![next]._prev = prev]
      /\ links = IF prev = Nil THEN _next ELSE [_next EXCEPT ![prev] = next]
  BY <1>1 DEF fly_remove
<1>5. next \in (Alive \ {it}) \cup {Nil} /\ next # head /\ prev # it
  <2>1. next \in (Alive \ {head}) \cup {Nil} /\ head \in Alive
    BY <1>2 DEF IsList
  <2>2. next # it
    <3>1. {it} \in SUBSET Alive /\ {it} # {}
      OBVIOUS
    <3>2. \A T \in SUBSET Alive : T # {} => \E e \in T : _next[e] \notin T
      BY <1>2 DEF IsList
    <3>3. \E e \in {it} : _next[e] \notin {it}
      BY <3>1, <3>2
    <3>4. QED BY <3>3
  <2>3. QED BY <1>1, <1>2, <2>1, <2>2
<1> HIDE DEF next, prev, links, letters
<1>6. \A n \in Nodes : n # it => /\ letter'[n].x = letter[n].x /\ letter'[n].v = letter[n].v
                                /\ letter'[n]._prev = IF n = next THEN prev ELSE letter[n]._prev
  BY <1>1, <1>3, <1>4, <1>5 DEF Letters
<1>7. letter'[it].v = 0
  BY <1>1, <1>3, <1>4 DEF None
<1>8. Alive' = Alive \ {it}
  BY <1>1, <1>6, <1>7 DEF Alive
<1>9. links \in [Nodes -> Nodes \cup {Nil}] /\ IsList(links, head', Alive \ {it})
  <2>1. CASE it = head
    <3>1. prev = Nil /\ links = _next /\ head # Nil
      BY <1>1, <1>2, <1>4, <2>1 DEF prev
    <3>2. IsList(_next, next, Alive \ {head})
      BY <1>2, <3>1, <2>1, ListPop DEF next
    <3>3. QED BY <1>1, <1>3, <2>1, <3>1, <3>2
  <2>2. CASE it # head
    <3>1. prev \in Alive /\ _next[prev] = it
      BY <1>2, <2>2 DEF prev
    <3>2. links = [_next EXCEPT ![prev] = _next[it]]
      BY <1>1, <1>4, <3>1 DEF next
    <3>3. IsList(links, head, Alive \ {it})
      BY <1>1, <1>2, <3>1, <3>2, ListRemove
    <3>4. QED BY <1>1, <1>3, <2>2, <3>2, <3>3
  <2>3. QED BY <2>1, <2>2
<1>10. IsList(_next', head', Alive')
  <2>1. \A e \in Alive \ {it} : _next'[e] = links[e]
    BY <1>1, <1>3, <1>9
  <2>2. QED BY <1>8, <1>9, <2>1, ListFrame
<1>11. ASSUME NEW n \in Alive'
       PROVE  IF n = head' THEN letter'[n]._prev = Nil
              ELSE letter'[n]._prev \in Alive' /\ _next'[letter'[n]._prev] = n
  <2>1. n \in Alive /\ n # it /\ n \in Nodes
    BY <1>1, <1>8
  <2>2. CASE n = next
    <3>1. letter'[n]._prev = prev
      BY <1>6, <2>1, <2>2
    <3>2. CASE it = head
      BY <1>2, <1>3, <2>2, <3>1, <3>2 DEF prev
    <3>3. CASE it # head
      <4>1. prev \in Alive /\ _next[prev] = it /\ links[prev] = next /\ head' = head
        BY <1>1, <1>2, <1>3, <1>4, <3>3 DEF prev
      <4>2. _next'[prev] = next
        BY <1>1, <1>3, <1>5, <1>9, <4>1
      <4>3. QED BY <1>5, <1>8, <2>2, <3>1, <4>1, <4>2
    <3>4. QED BY <3>2, <3>3
  <2>3. CASE n # next
    <3>1. letter'[n]._prev = letter[n]._prev
      BY <1>6, <2>1, <2>3
    <3>2. CASE n = head
      BY <1>2, <1>3, <1>5, <2>1, <3>1, <3>2
    <3>3. CASE n # head
      <4> DEFINE p == letter[n]._prev
      <4>1. p \in Alive /\ _next[p] = n /\ n # head'
        BY <1>2, <1>3, <2>1, <2>3, <3>3
      <4>2. p # it /\ p # prev
        <5>1. prev # Nil => _next[prev] = it
          BY <1>2 DEF prev
        <5>2. QED BY <1>1, <2>1, <2>3, <4>1, <5>1 DEF next
      <4>3. _next'[p] = n
        BY <1>1, <1>3, <1>4, <4>1, <4>2
      <4>4. QED BY <1>8, <3>1, <4>1, <4>2, <4>3
    <3>4. QED BY <3>2, <3>3
  <2>4. QED BY <2>2, <2>3
<1>12. Pool'
  <2>1. IsList(_next, free_head, Nodes \ Alive)
    BY DEF ListInv, Pool
  <2>2. IsList(links, free_head, Nodes \ Alive)
    <3>1. prev = Nil \/ prev \in Alive
      BY <1>2 DEF prev
    <3>2. \A e \in Nodes \ Alive : links[e] = _next[e]
      BY <1>1, <1>4, <3>1
    <3>3. QED BY <2>1, <3>2, ListFrame
  <2>3. IsList(_next', it, (Nodes \ Alive) \cup {it})
    <3>1. Nodes \ Alive \in SUBSET Nodes /\ it \in Nodes /\ it \notin Nodes \ Alive
      BY <1>1
    <3>2. QED BY <1>1, <1>3, <1>9, <2>2, <3>1, ListPush
  <2>4. (Nodes \ Alive) \cup {it} = Nodes \ Alive'
    BY <1>1, <1>8
  <2>5. it # Nil
    BY <1>1
  <2>6. QED BY <1>1, <1>3, <2>3, <2>4, <2>5 DEF Pool
<1>13. \A n \in Alive' : _next[n] # it => _next'[n] = _next[n]
  <2>1. prev # Nil => _next[prev] = it
    BY <1>2 DEF prev
  <2>2. QED BY <1>1, <1>3, <1>4, <1>8, <2>1
<1>14. Linking'
  BY <1>1, <1>10, <1>11 DEF Linking
<1>15. QED BY <1>1, <1>6, <1>8, <1>12, <1>13, <1>14

LEMMA LandList ==
    ASSUME ListInv, Inv', update_letter_pos, Remove(it)
    PROVE  ListInv'
<1>1. pc = "fall" /\ it # Nil /\ it' = _next[it] /\ UNCHANGED <<pc, now>>
  BY DEF update_letter_pos, NULL
<1>2. PICK turn \in [Nodes -> Nat], M \in SUBSET Nodes : Ages(turn, M)
  BY DEF ListInv, AgesKnown
<1> DEFINE R == (Alive \ M) \ {it}
<1>3. it \in Alive \ M /\ IsList(_next, it', R) /\ IsList(_next, it, Alive \ M)
  BY <1>1, <1>2, ListPop DEF Ages
<1>4. /\ Alive' = Alive \ {it} /\ Linking' /\ Pool'
      /\ \A n \in Alive' : letter'[n].x = letter[n].x /\ letter'[n].v = letter[n].v
      /\ \A n \in Alive' : _next[n] # it => _next'[n] = _next[n]
  BY <1>3, RemoveLinks
<1>5. \A e \in R : _next[e] # it
  BY <1>1, <1>3 DEF IsList
<1>6. IsList(_next', it', R)
  BY <1>3, <1>4, <1>5, ListFrame
<1>7. Alive' \ M = R
  BY <1>4
<1>8. \A n \in Alive' : letter'[n].x = letter'[n].v * (PERIOD * turn[n] + now' + (IF n \in M THEN 1 ELSE 0))
  BY <1>1, <1>2, <1>4 DEF Ages, Age
<1>9. \A n, m \in Alive' : turn[n] = turn[m] => n = m
  BY <1>2, <1>4 DEF Ages
<1>10. AgesKnown'
  BY <1>1, <1>6, <1>7, <1>8, <1>9 DEF AgesKnown, Ages, Age
<1>11. QED BY <1>4, <1>10 DEF ListInv
-----------------------------------------------------------------------------
THEOREM LettersInvariance == Spec => []ListInv
<1>1. Init => ListInv
  <2> SUFFICES ASSUME Init PROVE ListInv
    OBVIOUS
  <2>1. Alive = {}
    BY DEF Init, Alive, None
  <2>2. Linking /\ Pool
    BY <2>1 DEF Init, Linking, Pool, IsList, NULL
  <2>3. Ages([n \in Nodes |-> 0], {})
    BY <2>1 DEF Init, Ages
  <2>4. AgesKnown
    <3>1. [n \in Nodes |-> 0] \in [Nodes -> Nat] /\ {} \in SUBSET Nodes
      OBVIOUS
    <3>2. QED BY <2>3, <3>1 DEF AgesKnown
  <2>5. QED BY <2>2, <2>4, GameInit DEF ListInv
<1>2. ListInv /\ Inv' /\ [Next]_vars => ListInv'
  <2> SUFFICES ASSUME ListInv, Inv', [Next]_vars PROVE ListInv'
    OBVIOUS
  <2>1. CASE update_keypress
    BY <2>1, StillList DEF update_keypress, list
  <2>2. CASE NoNewLetter
    BY <2>2, StillList DEF NoNewLetter, list
  <2>3. CASE update_letter_pos
    <3>1. CASE Remove(it)
      BY <2>3, <3>1, LandList
    <3>2. CASE ~Landed(letter[it].x + letter[it].v, letter[it].y)
      BY <2>3, <3>2, MoveList
    <3>3. QED BY <2>3, <3>1, <3>2 DEF update_letter_pos
  <2>4. CASE redraw_screen
    BY <2>4, StillList DEF redraw_screen, list
  <2>5. CASE UNCHANGED vars
    BY <2>5, StillList DEF vars, list
  <2>6. QED BY <2>1, <2>2, <2>3, <2>4, <2>5, CreateLetters, TickList DEF Next
<1>3. QED BY <1>1, <1>2, GameInvariance, PTL DEF Spec

\* The letters on the screen are the list, once each and linked both ways, and the
\* rest of the pool is the list of free nodes, however many letters have come and
\* gone and in whatever order; the pool keeps a node, as its size is what the
\* slowest letter needs (PoolAssumption).
THEOREM LettersListedHolds == Spec => []LettersListed
<1>1. ListInv => LettersListed
  BY PoolBound DEF ListInv, Linking, Pool, LettersListed
<1>2. QED BY <1>1, LettersInvariance, PTL
-----------------------------------------------------------------------------
(***************************************************************************)
(* The count: it is off by a multiple of ScoreMod only.                    *)
(***************************************************************************)

Balance(k) == Cardinality(Alive) + hit + miss - created = k * ScoreMod

Counted == \E k \in Int : Balance(k)

LEMMA ScoreWraps ==
    \A n \in 0 .. ScoreMod - 1 : (n + 1) % ScoreMod \in {n + 1, n + 1 - ScoreMod}
<1> SUFFICES ASSUME NEW n \in 0 .. ScoreMod - 1
             PROVE  (n + 1) % ScoreMod \in {n + 1, n + 1 - ScoreMod}
  OBVIOUS
<1>1. CASE n + 1 < ScoreMod
  BY <1>1, GameAssumption
<1>2. CASE n + 1 = ScoreMod
  BY <1>2, GameAssumption
<1>3. QED BY <1>1, <1>2, GameAssumption

LEMMA MultiplesOfScore == \A k \in Int : (k * ScoreMod) % ScoreMod = 0
<1> SUFFICES ASSUME NEW k \in Int PROVE (k * ScoreMod) % ScoreMod = 0
  OBVIOUS
<1>1. ScoreMod \in Nat /\ ScoreMod >= 1
  BY GameAssumption
<1>2. QED BY <1>1

LEMMA AliveFinite == Inv => IsFiniteSet(Alive) /\ Cardinality(Alive) \in Nat
<1> SUFFICES ASSUME Inv PROVE IsFiniteSet(Alive) /\ Cardinality(Alive) \in Nat
  OBVIOUS
<1>1. IsFiniteSet(Nodes)
  BY FS_Interval, GameAssumption DEF Nodes
<1>2. QED BY <1>1, AliveTypes, FS_Subset, FS_CardinalityType

LEMMA CountSteps ==
    ASSUME ListInv, Inv', Counted, [Next]_vars PROVE Counted'
<1>1. PICK k \in Int : Balance(k)
  BY DEF Counted
<1> DEFINE c == Cardinality(Alive)
           p == k * ScoreMod
<1>2. /\ IsFiniteSet(Alive) /\ c \in Nat
      /\ hit \in Nat /\ miss \in Nat /\ created \in Nat
      /\ {hit, miss, created} \subseteq 0 .. ScoreMod - 1
      /\ ScoreMod \in Nat
  BY AliveFinite, GameAssumption DEF ListInv, Inv, TypeOK
<1>3. c + hit + miss - created = p
  BY <1>1 DEF Balance
<1>4. (k + 1) * ScoreMod = p + ScoreMod /\ (k - 1) * ScoreMod = p - ScoreMod
      /\ p = k * ScoreMod /\ p \in Int
  BY <1>2
<1> HIDE DEF c, p
<1>5. {c, hit, miss, created, p, ScoreMod} \subseteq Int
  BY <1>2, <1>4
<1>6. CASE create_new_letter
  <2>1. Alive' = Alive \cup {fly_new} /\ fly_new \notin Alive
    BY <1>6, CreateList
  <2>2. Cardinality(Alive') = c + 1
    BY <1>2, <2>1, FS_AddElement DEF c
  <2>3. created' \in {created + 1, created + 1 - ScoreMod} /\ hit' = hit /\ miss' = miss
    BY <1>2, <1>6, ScoreWraps DEF create_new_letter, score
  <2>4. Cardinality(Alive') + hit' + miss' - created' \in {p, p + ScoreMod}
    BY <1>5, <1>3, <2>2, <2>3
  <2>5. Balance(k)' \/ Balance(k + 1)'
    BY <1>4, <2>4 DEF Balance
  <2>6. QED BY <2>5 DEF Counted
<1>7. CASE update_letter_pos
  <2>1. CASE Remove(it) /\ Count(letter[it].y)
    <3>1. it \in Alive
      BY <1>7 DEF ListInv, AgesKnown, Ages, IsList, update_letter_pos, NULL
    <3>2. Alive' = Alive \ {it}
      BY <2>1, <3>1, RemoveLinks
    <3>3. Cardinality(Alive') = c - 1
      BY <1>2, <3>1, <3>2, FS_RemoveElement DEF c
    <3>4. /\ created' = created
          /\ \/ hit' \in {hit + 1, hit + 1 - ScoreMod} /\ miss' = miss
             \/ miss' \in {miss + 1, miss + 1 - ScoreMod} /\ hit' = hit
      BY <1>2, <1>7, <2>1, ScoreWraps DEF update_letter_pos, Count
    <3>5. Cardinality(Alive') + hit' + miss' - created' \in {p, p - ScoreMod}
      BY <1>5, <1>3, <3>3, <3>4
    <3>6. Balance(k)' \/ Balance(k - 1)'
      BY <1>4, <3>5 DEF Balance
    <3>7. QED BY <3>6 DEF Counted
  <2>2. CASE ~Landed(letter[it].x + letter[it].v, letter[it].y)
    <3>1. /\ UNCHANGED <<hit, miss, created>>
          /\ letter' = [letter EXCEPT ![it].x = letter[it].x + letter[it].v]
      BY <1>7, <2>2 DEF update_letter_pos, score
    <3>2. \A n \in Nodes : letter'[n].v = letter[n].v
      BY <3>1 DEF ListInv, Inv, TypeOK, Letters
    <3>3. Alive' = Alive
      BY <3>2 DEF Alive
    <3>4. QED BY <1>1, <3>1, <3>3 DEF Counted, Balance
  <2>3. QED BY <1>7, <2>1, <2>2 DEF update_letter_pos
<1>8. CASE UNCHANGED <<letter, hit, miss, created>>
  BY <1>1, <1>8 DEF Counted, Balance, Alive
<1>9. QED BY <1>6, <1>7, <1>8
          DEF Next, vars, update_keypress, NoNewLetter, NextTick, redraw_screen, list, score

\* Every letter created is on the screen or was counted once, as a hit or as a
\* miss, however often the counters have wrapped.
THEOREM EachCountedHolds == Spec => []EachCounted
<1>1. Init => Counted
  <2> SUFFICES ASSUME Init PROVE Counted
    OBVIOUS
  <2>1. Alive = {} /\ Cardinality({}) = 0
    BY FS_EmptySet DEF Init, Alive, None
  <2>2. 0 * ScoreMod = 0
    BY GameAssumption
  <2>3. Balance(0)
    BY <2>1, <2>2 DEF Balance, Init
  <2>4. QED BY <2>3 DEF Counted
<1>2. Counted => EachCounted
  BY MultiplesOfScore DEF Counted, Balance, EachCounted
<1>3. QED BY <1>1, <1>2, CountSteps, LettersInvariance, GameInvariance, PTL DEF Spec
=============================================================================
