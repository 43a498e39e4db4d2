------------------------------ MODULE Keyboard ------------------------------
(***************************************************************************)
(* The keyboard driver (kernel/src/device/keyboard.c): a flag for each of  *)
(* 41 keys, set and cleared by the interrupt, and looked at by programs.   *)
(* Keys are levels: nothing remembers a press that was released again.     *)
(***************************************************************************)
EXTENDS Integers

VARIABLE letter_pressed   \* index of a key -> is it down?

\* The keys by index: letters, digits, '.', '-', space, Enter and Shift.
Indices == 0 .. 40
Enter   == 39
ShiftKey == 40

\* Index -> scan code.
letter_code ==
    [i \in Indices |->
        << 30, 48, 46, 32, 18, 33, 34, 35, 23, 36,
           37, 38, 50, 49, 24, 25, 16, 19, 31, 20,
           22, 47, 17, 45, 21, 44,  2,  3,  4,  5,
            6,  7,  8,  9, 10, 11, 52, 12, 57, 28, 54 >>[i + 1]]

KeysUp == letter_pressed = [i \in Indices |-> FALSE]

\* The interrupt of a scan code; a key released has 128 more.  Codes of other
\* keys change nothing.
keyboard_event(code) ==
    letter_pressed' = [i \in Indices |->
        IF code < 128 THEN letter_pressed[i] \/ letter_code[i] = code
        ELSE letter_pressed[i] /\ letter_code[i] + 128 # code]

\* Who asks for key i with Shift says i + 4096.
Shifted == 4096

Down == {i \in Indices \ {ShiftKey} : letter_pressed[i]}

\* The lowest key that is down, if there is one.
see_if_any_key_pressed ==
    {i + (IF letter_pressed[ShiftKey] THEN Shifted ELSE 0) :
        i \in {i \in Down : \A j \in Down : i <= j}}

\* Mutant of query_key: the key asked for with Shift is not found.
query_key_as_is(index) == index \in Indices /\ letter_pressed[index]

query_key(index) ==
    letter_pressed[IF index >= Shifted THEN index - Shifted ELSE index]
=============================================================================
