------------------------------ MODULE Strings ------------------------------
(***************************************************************************)
(* The string library (lib/string.c): what its functions leave in memory   *)
(* and return.  A memory is a function from addresses to bytes, and a      *)
(* string an address of bytes up to a 0.                                   *)
(***************************************************************************)
EXTENDS Integers

\* The least offset from which test holds.
Least(S) == CHOOSE k \in S : \A l \in S : k <= l

Offsets(m, s) == {k \in 0 .. 255 : s + k \in DOMAIN m}

strlen(m, s) == Least({k \in Offsets(m, s) : m[s + k] = 0})

\* The bytes of a string, as a function from 0 .. strlen - 1.
Text(m, s) == [k \in 0 .. strlen(m, s) - 1 |-> m[s + k]]
-----------------------------------------------------------------------------
(***************************************************************************)
(* Moving bytes                                                            *)
(***************************************************************************)

\* "rep movs": n bytes from s to d, a unit of bytes after the other, upwards or,
\* with the direction flag, downwards.
RepMovs(m, d, s, n, unit, down) ==
    LET after[k \in 0 .. n \div unit] ==
            IF k = 0 THEN m
            ELSE LET at == IF down THEN n - k * unit ELSE (k - 1) * unit
                 IN [a \in DOMAIN m |->
                        IF a - d - at \in 0 .. unit - 1 THEN after[k - 1][a - d + s]
                        ELSE after[k - 1][a]]
    IN after[n \div unit]

\* Mutant of Downwards: the test forgets that the areas must overlap from below.
DownwardsAlways(d, s, n) == TRUE

\* Must the last byte be moved first?
Downwards(d, s, n) == s < d /\ s + n > d

\* Words are moved if everything is aligned, where the moving begins.
memmove(m, d, s, n) ==
    LET down == Downwards(d, s, n)
        end == IF down THEN n ELSE 0
    IN RepMovs(m, d, s, n,
               IF (s + end) % 4 = 0 /\ (d + end) % 4 = 0 /\ n % 4 = 0 THEN 4 ELSE 1,
               down)

\* "rep stos": count units of four bytes or one, each byte c.
RepStos(m, v, c, unit, count) ==
    [a \in DOMAIN m |-> IF a - v \in 0 .. unit * count - 1 THEN c ELSE m[a]]

\* c & 0xFF is repeated to make a word.
memset(m, v, c, n) ==
    IF v % 4 = 0 /\ n % 4 = 0 THEN RepStos(m, v, c % 256, 4, n \div 4)
    ELSE RepStos(m, v, c % 256, 1, n)
-----------------------------------------------------------------------------
(***************************************************************************)
(* Copying and comparing strings                                           *)
(***************************************************************************)

Put(m, d, f) == [a \in DOMAIN m |-> IF a - d \in DOMAIN f THEN f[a - d] ELSE m[a]]

\* At most size - 1 bytes and a 0.
strlcpy(m, d, s, size) ==
    IF size = 0 THEN m
    ELSE LET n == IF strlen(m, s) < size - 1 THEN strlen(m, s) ELSE size - 1
         IN Put(m, d, [k \in 0 .. n |-> IF k = n THEN 0 ELSE m[s + k]])

\* Where comparing stops: at the end of p, or where p and q differ.
Differ(m, p, q) ==
    {k \in Offsets(m, p) \cap Offsets(m, q) : m[p + k] = 0 \/ m[p + k] # m[q + k]}

strcmp(m, p, q) ==
    LET stop == Differ(m, p, q)
    IN IF stop = {} THEN 0 ELSE m[p + Least(stop)] - m[q + Least(stop)]

strncmp(m, p, q, n) ==
    LET stop == {k \in Differ(m, p, q) : k < n}
    IN IF stop = {} THEN 0 ELSE m[p + Least(stop)] - m[q + Least(stop)]

memcmp(m, p, q, n) ==
    LET stop == {k \in 0 .. n - 1 : m[p + k] # m[q + k]}
    IN IF stop = {} THEN 0 ELSE m[p + Least(stop)] - m[q + Least(stop)]

memcpy(m, d, s, n) == memmove(m, d, s, n)

strcpy(m, d, s) == Put(m, d, [k \in 0 .. strlen(m, s) |-> m[s + k]])

strcat(m, d, s) == strcpy(m, d + strlen(m, d), s)

\* The rest of size bytes is filled with zeros.
strncpy(m, d, s, size) ==
    Put(m, d, [k \in 0 .. size - 1 |-> IF k < strlen(m, s) THEN m[s + k] ELSE 0])
-----------------------------------------------------------------------------
(***************************************************************************)
(* Searching: addresses, or 0 for none                                     *)
(***************************************************************************)

strnlen(m, s, size) == Least({k \in 0 .. size : k = size \/ m[s + k] = 0})

Hits(m, s, c, n) == {k \in 0 .. n - 1 : m[s + k] = c % 256}

strchr(m, s, c) ==
    LET hits == Hits(m, s, c, strlen(m, s))
    IN IF hits = {} THEN 0 ELSE s + Least(hits)

strfind(m, s, c) == s + Least(Hits(m, s, c, strlen(m, s)) \cup {strlen(m, s)})

memfind(m, s, c, n) == s + Least(Hits(m, s, c, n) \cup {n})
=============================================================================
