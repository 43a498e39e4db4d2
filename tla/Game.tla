-------------------------------- MODULE Game --------------------------------
(***************************************************************************)
(* The game (game/src/): letters fall, a table at the bottom catches them. *)
(* The letters are a doubly linked list of nodes from a pool               *)
(* (include/adt/linklist.h).  The game draws by system calls that check     *)
(* every pixel (draw_pixel asserts that it is on the screen).              *)
(*                                                                         *)
(* One tick of the game's own clock is one action to create a letter, one  *)
(* for each letter that moves, and one to go on with the next tick or the  *)
(* screen.  Heights are in units of which UNIT make a pixel, so that 7.9   *)
(* and the speeds are whole; the rounding of floats is left out.           *)
(***************************************************************************)
EXTENDS Integers, FiniteSets, Lists

CONSTANTS
    SIZE,         \* the pool has SIZE + 1 nodes (10001)
    SCR_HEIGHT, SCR_WIDTH,  \* in pixels (200 and 320)
    table_length, \* (56)
    PERIOD,       \* ticks from one letter to the next (50)
    UNIT,         \* units in a pixel
    Speeds,       \* of letters, in units a tick (half a pixel up to one)
    ScoreMod      \* hit and miss are kept modulo this (2^32)

ASSUME GameAssumption ==
    /\ SIZE \in Nat \ {0} /\ PERIOD \in Nat \ {0} /\ UNIT \in Nat \ {0}
    /\ SCR_HEIGHT \in Nat /\ SCR_HEIGHT >= 24
    /\ SCR_WIDTH \in Nat /\ table_length \in Nat /\ SCR_WIDTH >= table_length + 3
    /\ SCR_WIDTH >= 24
    /\ Speeds \subseteq Nat \ {0}
    /\ ScoreMod \in Nat \ {0}

\* The pool has a node for every letter that can be falling at once (far more: the
\* slowest, of half a pixel a tick, needs 400 ticks, in which 8 are created).
ASSUME PoolAssumption == \A v \in Speeds : UNIT * SCR_HEIGHT <= v * (PERIOD * SIZE)

VARIABLES
    pc,         \* "keys", "create", "fall" (at the letter it), "tick", "draw"
    now,        \* the game's clock, modulo PERIOD
    it,         \* the letter that is moved next
    head,       \* the first letter
    letter,     \* node -> the letter it holds, or None; the fields of a free
                \* node are set before they are read
    _next,      \* node -> next letter, or next free node
    free_head,  \* the first free node; NULL before the pool is used
    table_location, accel,
    hit, miss,
    created     \* (history) letters created, modulo ScoreMod

table == <<table_location, accel>>
score == <<hit, miss>>
list  == <<head, letter, _next, free_head>>
vars  == <<pc, now, it, list, table, score, created>>

Nodes == 0 .. SIZE
NULL  == Nil
None  == [x |-> 0, y |-> 0, v |-> 0, _prev |-> NULL]
Columns == {i * 8 + 8 : i \in 0 .. SCR_WIDTH \div 8 - 3}
Alive == {n \in Nodes : letter[n].v # 0}
-----------------------------------------------------------------------------
(***************************************************************************)
(* The list (linklist.h)                                                   *)
(***************************************************************************)

\* The pool as fly_new links it when it finds free_head NULL.
Linked == [n \in Nodes |-> IF n < SIZE THEN n + 1 ELSE NULL]

\* The list fly_new takes a node from, and the node.  That it is not the last
\* one is asserted; the game's assert prints and goes on.
Links == IF free_head = NULL THEN Linked ELSE _next
fly_new == IF free_head = NULL THEN 0 ELSE free_head

\* The letters after n is removed, and the links.  Its own links stay.
fly_remove(n) ==
    LET next == _next[n]
        prev == letter[n]._prev
    IN [letters |-> IF next = NULL THEN letter
                    ELSE [letter EXCEPT ![next]._prev = prev],
        links |-> IF prev = NULL THEN _next ELSE [_next EXCEPT ![prev] = next]]

\* Mutant of Remove: the letter before keeps its link.
RemoveNext(n) ==
    /\ letter' = [fly_remove(n).letters EXCEPT ![n] = None]
    /\ _next' = [_next EXCEPT ![n] = free_head]
    /\ free_head' = n
    /\ head' = IF n = head THEN _next[n] ELSE head

\* Mutant of Remove: the head is not moved on.
RemoveHead(n) ==
    /\ letter' = [fly_remove(n).letters EXCEPT ![n] = None]
    /\ _next' = [fly_remove(n).links EXCEPT ![n] = free_head]
    /\ free_head' = n
    /\ UNCHANGED head

\* fly_remove, fly_free, and the head moved on.
Remove(n) ==
    /\ letter' = [fly_remove(n).letters EXCEPT ![n] = None]
    /\ _next' = [fly_remove(n).links EXCEPT ![n] = free_head]
    /\ free_head' = n
    /\ head' = IF n = head THEN _next[n] ELSE head
-----------------------------------------------------------------------------
(***************************************************************************)
(* The main loop (game.c, effect.c)                                        *)
(***************************************************************************)

Left(step) ==
    IF table_location - step < 2 THEN 2 ELSE table_location - step
Right(step) ==
    IF table_location + table_length >= SCR_WIDTH THEN table_location
    ELSE IF table_location + table_length + step > SCR_WIDTH
         THEN SCR_WIDTH - table_length - 1 ELSE table_location + step

\* Once the tick has changed, the keys 0 to 3 are asked for, each in a call of its
\* own.  release_key_u releases none (it takes scan codes, and adds 128 to those).
update_keypress ==
    /\ pc = "keys"
    /\ \E k \in [0 .. 3 -> BOOLEAN] :
          /\ accel' = IF k[3] THEN FALSE ELSE accel \/ k[2]
          /\ LET step == IF accel' THEN 32 ELSE 16 IN
             table_location' =
                IF k[1] /\ table_location > 2 THEN Left(step)
                ELSE IF ~k[1] /\ k[0] THEN Right(step)
                ELSE table_location
    /\ pc' = "create"
    /\ UNCHANGED <<now, it, list, score, created>>

\* A new letter is the first of the list.
create_new_letter ==
    /\ pc = "create" /\ now = 0
    /\ \E y \in Columns, v \in Speeds :
          letter' = [n \in Nodes |->
              IF n = fly_new THEN [x |-> 0, y |-> y, v |-> v, _prev |-> NULL]
              ELSE IF n = head THEN [letter[n] EXCEPT !._prev = fly_new]
              ELSE letter[n]]
    /\ free_head' = Links[fly_new]
    /\ _next' = [Links EXCEPT ![fly_new] = head]
    /\ head' = fly_new
    /\ created' = (created + 1) % ScoreMod
    /\ it' = head' /\ pc' = "fall"
    /\ UNCHANGED <<now, table, score>>

NoNewLetter ==
    /\ pc = "create" /\ now # 0
    /\ it' = head /\ pc' = "fall"
    /\ UNCHANGED <<now, list, table, score, created>>

OverTable(y) == y > table_location /\ y < table_location + table_length

\* x + 7.9 + d > SCR_HEIGHT
Beyond(x, d) == 10 * x + UNIT * (79 + 10 * d) > 10 * UNIT * SCR_HEIGHT

\* Mutant of Landed: the height of the glyph is left out.
LandedLate(x, y) == x > UNIT * SCR_HEIGHT

Landed(x, y) == (Beyond(x, 16) /\ OverTable(y)) \/ Beyond(x, 0)

\* Mutant of Count: what lands beside the table counts for both.
CountBoth(y) ==
    /\ hit'  = (hit + 1) % ScoreMod
    /\ miss' = IF OverTable(y) THEN miss ELSE (miss + 1) % ScoreMod

Count(y) ==
    IF OverTable(y) THEN hit' = (hit + 1) % ScoreMod /\ UNCHANGED miss
    ELSE miss' = (miss + 1) % ScoreMod /\ UNCHANGED hit

\* update_letter_pos moves a letter and takes it out if it has landed.  The next
\* one was read before.
update_letter_pos ==
    /\ pc = "fall" /\ it # NULL
    /\ LET x == letter[it].x + letter[it].v IN
       IF Landed(x, letter[it].y) THEN Remove(it) /\ Count(letter[it].y)
       ELSE /\ letter' = [letter EXCEPT ![it].x = x]
            /\ UNCHANGED <<head, _next, free_head, score>>
    /\ it' = _next[it]
    /\ UNCHANGED <<pc, now, table, created>>

\* The next tick, of those that have been missed, if there are more; the screen, if
\* it is time for it; or the keys.
NextTick ==
    /\ pc = "fall" /\ it = NULL
    /\ now' = (now + 1) % PERIOD
    /\ pc' \in {"create", "draw", "keys"}
    /\ UNCHANGED <<it, list, table, score, created>>

redraw_screen ==
    /\ pc = "draw" /\ pc' = "keys"
    /\ UNCHANGED <<now, it, list, table, score, created>>
-----------------------------------------------------------------------------
Init ==
    /\ pc = "keys" /\ now = 0 /\ it = NULL
    /\ head = NULL /\ free_head = NULL
    /\ letter = [n \in Nodes |-> None] /\ _next = [n \in Nodes |-> NULL]
    /\ table_location = 2 /\ accel = FALSE
    /\ hit = 0 /\ miss = 0 /\ created = 0

Next ==
    \/ update_keypress
    \/ create_new_letter \/ NoNewLetter \/ update_letter_pos
    \/ NextTick \/ redraw_screen

\* The tick goes on changing, by the timer's interrupt; nobody takes the processor
\* from the game.
Spec == Init /\ [][Next]_vars
FairSpec == Spec /\ WF_vars(Next)
-----------------------------------------------------------------------------
(***************************************************************************)
(* Properties                                                              *)
(***************************************************************************)

Letters == [x : Int, y : Columns \cup {0}, v : Speeds \cup {0},
            _prev : Nodes \cup {NULL}]

TypeOK ==
    /\ pc \in {"keys", "create", "fall", "draw"}
    /\ now \in 0 .. PERIOD - 1
    /\ {it, head, free_head} \subseteq Nodes \cup {NULL}
    /\ letter \in [Nodes -> Letters]
    /\ _next \in [Nodes -> Nodes \cup {NULL}]
    /\ table_location \in 2 .. SCR_WIDTH - table_length
    /\ accel \in BOOLEAN
    /\ {hit, miss, created} \subseteq 0 .. ScoreMod - 1

\* The letters on the screen are the list, once each and linked both ways, and the
\* rest of the pool is the list of free nodes, whatever order letters of different
\* speeds have landed in.  The pool is never down to its last node, so what fly_new
\* asserts holds, and it never links the pool anew under the letters that use it.
LettersListed ==
    /\ Cardinality(Alive) <= SIZE
    /\ IsList(_next, head, Alive)
    /\ \A n \in Alive :
          IF n = head THEN letter[n]._prev = NULL
          ELSE letter[n]._prev \in Alive /\ _next[letter[n]._prev] = n
    /\ IF free_head = NULL THEN Alive = {} ELSE IsList(_next, free_head, Nodes \ Alive)

\* Every letter created is on the screen, or was counted, once.
EachCounted == (Cardinality(Alive) + hit + miss - created) % ScoreMod = 0

\* What redraw_screen draws is on the screen, as draw_pixel asserts: two glyphs for
\* each letter, and the table.
DrawnOnScreen ==
    /\ pc = "draw" => \A n \in Alive :
          /\ letter[n].x \div UNIT + 7 < SCR_HEIGHT
          /\ letter[n].y + 15 < SCR_WIDTH
    /\ table_location + table_length - 1 < SCR_WIDTH

\* Every letter lands, however many others have come and gone.
EachLands == \A n \in Nodes : n \in Alive ~> n \notin Alive
=============================================================================
