---------------------------- MODULE Shell_proofs ----------------------------
(***************************************************************************)
(* For any keys, names, control blocks and bounds: a key is entered once   *)
(* per press, a newline only ends a line, no prompt finds a file open, and *)
(* until an open fails none finds a control block missing.                 *)
(***************************************************************************)
EXTENDS Shell, Lists

LineOK == input_str \in Seq(Kinds)

\* TypeOK of all but the line.
Others ==
    /\ letter_pressed \in [Indices -> BOOLEAN]
    /\ key_pressing \in BOOLEAN
    /\ cur_key \in {-1} \cup (Indices \ {ShiftKey})
                        \cup {i + Shifted : i \in Indices \ {ShiftKey}}
    /\ pc \in {"loop", "command", "echo", "cat", "cat >", "run"}
    /\ {fp, fp_out} \subseteq Fcbs
    /\ left \in -1 .. MaxRead
    /\ fcb_inode_offset \in [Fcbs -> Names \cup {Closed}]
    /\ fcb_link \in [Fcbs -> Fcbs \cup {Null}]
    /\ fcb_free_list \in Fcbs \cup {Null}

\* A key that is down and has been entered is the one the loop waits for.
KeysInv ==
    \A i \in Down : i \in fresh \/ (key_pressing /\ cur_key \in {i, i + Shifted})

OpenHeld ==
    \A x \in Fcbs \ {-1} :
        fcb_inode_offset[x] # Closed =>
            \/ x = fp /\ (pc \in {"echo", "run"} \/ (Catting /\ left # -1))
            \/ x = fp_out /\ pc = "cat >"

Inv == TypeOK /\ NewlineEnds /\ KeysInv /\ OpenHeld
-----------------------------------------------------------------------------
(***************************************************************************)
(* The pieces steps are made of                                            *)
(***************************************************************************)

\* What see_if_any_key_pressed returns is a key that is down, 4096 more with
\* Shift.
LEMMA PolledKey ==
    ASSUME NEW key \in see_if_any_key_pressed
    PROVE  LET index == IF key >= Shifted THEN key - Shifted ELSE key
           IN /\ index \in Down /\ index \in Indices \ {ShiftKey}
              /\ key \in {index, index + Shifted}
              /\ key = Enter <=> key < Shifted /\ index = Enter
<1>1. PICK i \in Down : key = i + (IF letter_pressed[ShiftKey] THEN Shifted ELSE 0)
  BY DEF see_if_any_key_pressed
<1>2. i \in Indices \ {ShiftKey} /\ i \in 0 .. 40
  BY DEF Down, Indices
<1>3. QED
  BY <1>1, <1>2 DEF Shifted, Enter

\* Opening and closing keep the types, and touch one control block.
FcbTypes ==
    /\ fcb_inode_offset \in [Fcbs -> Names \cup {Closed}]
    /\ fcb_link \in [Fcbs -> Fcbs \cup {Null}]
    /\ fcb_free_list \in Fcbs \cup {Null}

LEMMA OpenOne ==
    ASSUME FcbTypes, NEW n, NEW r \in Fcbs, file_open(n, r)
    PROVE  /\ FcbTypes'
           /\ \A x \in Fcbs \ {-1} :
                 fcb_inode_offset'[x] # Closed => x = r \/ fcb_inode_offset[x] # Closed
<1>1. CASE n \in Stored /\ fcb_free_list # Null
  <2>1. n \in Names
    BY <1>1, ShellAssumption
  <2>2. QED
    BY <1>1, <2>1 DEF file_open, FcbTypes
<1>2. CASE ~(n \in Stored /\ fcb_free_list # Null)
  BY <1>2 DEF file_open, FcbTypes
<1>3. QED
  BY <1>1, <1>2

LEMMA CloseOne ==
    ASSUME FcbTypes, NEW y \in Fcbs, file_close(y)
    PROVE  /\ FcbTypes'
           /\ \A x \in Fcbs \ {-1} :
                 fcb_inode_offset'[x] # Closed => x # y /\ fcb_inode_offset[x] # Closed
  BY DEF file_close, FcbTypes

\* The scan codes of keys that go down are below those of keys that come up.
LEMMA Codes == \A i \in Indices : letter_code[i] \in 1 .. 127
<1> SUFFICES ASSUME NEW i \in Indices PROVE letter_code[i] \in 1 .. 127
  OBVIOUS
<1>1. i \in 0 .. 40
  BY DEF Indices
<1>2. QED
  BY <1>1 DEF letter_code, Indices

\* An interrupt of the keyboard keeps the type of the flags.
LEMMA FlagsTyped ==
    ASSUME NEW c, keyboard_event(c), letter_pressed \in [Indices -> BOOLEAN]
    PROVE  letter_pressed' \in [Indices -> BOOLEAN]
  BY DEF keyboard_event
-----------------------------------------------------------------------------
(***************************************************************************)
(* The invariant, one conjunct after the other                             *)
(***************************************************************************)

LEMMA InitInv == Init => Inv
<1> SUFFICES ASSUME Init PROVE Inv
  OBVIOUS
<1>1. TypeOK
  <2>0. input_str \in Seq(Kinds)
    BY DEF Init
  <2>1. NFCB \in Nat \ {0} /\ MaxRead \in Nat
    BY ShellAssumption
  <2>2. fcb_link \in [Fcbs -> Fcbs \cup {Null}]
    BY <2>1 DEF Init, Fcbs
  <2>3. 0 \in Fcbs /\ -1 \in -1 .. MaxRead
    BY <2>1 DEF Fcbs
  <2>4. letter_pressed \in [Indices -> BOOLEAN]
    BY DEF Init, KeysUp
  <2>5. QED
    BY <2>0, <2>2, <2>3, <2>4 DEF Init, TypeOK
<1>2. NewlineEnds
  BY DEF Init, NewlineEnds
<1>3. Down = {}
  BY DEF Init, KeysUp, Down
<1>4. OpenHeld
  BY DEF Init, OpenHeld
<1>5. QED
  BY <1>1, <1>2, <1>3, <1>4 DEF Inv, KeysInv

LEMMA OthersStep == Others /\ [Next]_vars => Others'
<1> SUFFICES ASSUME Others, [Next]_vars PROVE Others'
  OBVIOUS
<1> DEFINE Rest == /\ letter_pressed \in [Indices -> BOOLEAN]
                   /\ key_pressing \in BOOLEAN
                   /\ cur_key \in {-1} \cup (Indices \ {ShiftKey})
                                   \cup {i + Shifted : i \in Indices \ {ShiftKey}}
                   /\ pc \in {"loop", "command", "echo", "cat", "cat >", "run"}
                   /\ {fp, fp_out} \subseteq Fcbs
                   /\ left \in -1 .. MaxRead
<1>t. /\ Others <=> Rest /\ FcbTypes
      /\ Others' <=> Rest' /\ FcbTypes'
  BY DEF Others, FcbTypes
<1>k. Rest /\ FcbTypes
  BY <1>t
<1>h. MaxRead \in Nat
  BY ShellAssumption
<1> HIDE DEF Rest
<1>s. ASSUME UNCHANGED fcbVars PROVE FcbTypes'
  BY <1>s, <1>k DEF fcbVars, FcbTypes
<1>1. ASSUME NEW k \in Keys \cup {ShiftKey}, Press(k) \/ Release(k) PROVE Others'
  <2>1. letter_pressed' \in [Indices -> BOOLEAN]
    BY <1>1, <1>k, FlagsTyped DEF Press, Release, Rest
  <2>2. UNCHANGED <<inputVars, cmdVars, fcbVars>>
    BY <1>1 DEF Press, Release
  <2>3. QED
    BY <1>k, <1>t, <1>s, <2>1, <2>2 DEF Rest, inputVars, cmdVars
<1>2. ASSUME PollAny PROVE Others'
  <2>1. PICK key \in see_if_any_key_pressed : cur_key' = key
    BY <1>2 DEF PollAny
  <2>2. cur_key' \in (Indices \ {ShiftKey}) \cup {i + Shifted : i \in Indices \ {ShiftKey}}
    BY <2>1, PolledKey
  <2>3. /\ key_pressing' = TRUE /\ pc' \in {"loop", "command"}
        /\ UNCHANGED <<letter_pressed, fp, fp_out, left, fcbVars>>
    BY <1>2 DEF PollAny
  <2>4. QED
    BY <1>k, <1>t, <1>s, <2>2, <2>3 DEF Rest
<1>3. ASSUME PollHeld PROVE Others'
  BY <1>3, <1>k, <1>t, <1>s DEF PollHeld, Rest, cmdVars
<1>4. ASSUME OtherCommand PROVE Others'
  BY <1>4, <1>k, <1>t, <1>s DEF OtherCommand, KeysStay, Prompt, Rest
<1>5. ASSUME NEW n \in Names, EchoOpen(n) PROVE Others'
  <2>1. PICK r \in Fcbs : file_open(n, r) /\ fp' = r
    BY <1>5 DEF EchoOpen
  <2>2. FcbTypes'
    BY <1>k, <2>1, OpenOne
  <2>3. QED
    BY <1>5, <1>k, <1>t, <2>1, <2>2 DEF EchoOpen, KeysStay, Goto, Rest
<1>6. ASSUME EchoClose \/ CatClose \/ RunClose PROVE Others'
  <2>1. FcbTypes'
    BY <1>6, <1>k, CloseOne DEF EchoClose, CatClose, RunClose, Rest
  <2>2. /\ UNCHANGED <<letter_pressed, key_pressing, cur_key, fp, fp_out>>
        /\ pc' \in {"loop", pc} /\ left' \in {-1, left}
    BY <1>6 DEF EchoClose, CatClose, RunClose, KeysStay, Prompt
  <2>3. -1 \in -1 .. MaxRead
    BY <1>h
  <2>4. QED
    BY <1>k, <1>t, <2>1, <2>2, <2>3 DEF Rest
<1>7. ASSUME NEW as, NEW n \in Names \cup {Closed}, CatOpen(as, n) PROVE Others'
  <2>1. CASE n = Closed
    BY <1>7, <1>k, <1>t, <1>s, <2>1 DEF CatOpen, KeysStay, Goto, Rest
  <2>2. CASE n # Closed
    <3>1. PICK r \in Fcbs : file_open(n, r) /\ fp_out' = r /\ Goto("cat >")
      BY <1>7, <2>2 DEF CatOpen
    <3>2. FcbTypes'
      BY <1>k, <3>1, OpenOne
    <3>3. QED
      BY <1>7, <1>k, <1>t, <3>1, <3>2 DEF CatOpen, KeysStay, Goto, Rest
  <2>3. QED
    BY <2>1, <2>2
<1>8. ASSUME CatNext PROVE Others'
  <2>1. PICK r \in Fcbs : file_open(Head(args), r) /\ fp' = r
    BY <1>8 DEF CatNext
  <2>2. FcbTypes'
    BY <1>k, <2>1, OpenOne
  <2>3. left' \in -1 .. MaxRead
    BY <1>8, <1>h DEF CatNext
  <2>4. QED
    BY <1>8, <1>k, <1>t, <2>1, <2>2, <2>3 DEF CatNext, KeysStay, Rest
<1>9. ASSUME CatRead PROVE Others'
  <2>1. left' \in -1 .. MaxRead
    <3>1. left \in -1 .. MaxRead /\ left > 0 /\ left' = left - 1
      BY <1>9, <1>k DEF CatRead, Rest
    <3>2. QED
      BY <1>h, <3>1
  <2>2. UNCHANGED <<letter_pressed, key_pressing, cur_key, pc, fp, fp_out, fcbVars>>
    BY <1>9 DEF CatRead, KeysStay
  <2>3. QED
    BY <1>k, <1>t, <1>s, <2>1, <2>2 DEF Rest
<1>10. ASSUME CatEnd PROVE Others'
  <2>1. FcbTypes'
    BY <1>10, <1>k, <1>s, CloseOne DEF CatEnd, Rest
  <2>2. QED
    BY <1>10, <1>k, <1>t, <2>1 DEF CatEnd, KeysStay, Prompt, Rest
<1>11. ASSUME NEW n \in Names, RunOrTouch(n) PROVE Others'
  <2>1. PICK r \in Fcbs : /\ file_open(n, r) /\ fp' = r
                          /\ pc' \in {"loop", "run"}
    BY <1>11 DEF RunOrTouch, Prompt, Goto
  <2>2. FcbTypes'
    BY <1>k, <2>1, OpenOne
  <2>3. QED
    BY <1>11, <1>k, <1>t, <2>1, <2>2 DEF RunOrTouch, KeysStay, Rest
<1>12. CASE UNCHANGED vars
  BY <1>12, <1>k, <1>t, <1>s DEF vars, inputVars, cmdVars, Rest
<1>13. CASE Command
  <2>1. CASE \E as \in SeqOf(Names, MaxArgs) \ {<<>>}, n \in Names \cup {Closed} : CatOpen(as, n)
    BY <2>1, <1>7
  <2>2. CASE \E n \in Names : EchoOpen(n) \/ RunOrTouch(n)
    BY <2>2, <1>5, <1>11
  <2>3. CASE OtherCommand \/ EchoClose \/ CatNext \/ CatRead \/ CatClose \/ CatEnd \/ RunClose
    BY <2>3, <1>4, <1>6, <1>8, <1>9, <1>10
  <2>4. QED
    BY <1>13, <2>1, <2>2, <2>3 DEF Command
<1>14. CASE User
  BY <1>14, <1>1 DEF User
<1>15. QED
  BY <1>2, <1>3, <1>12, <1>13, <1>14 DEF Next, Step

\* What commands, that is all steps but those of the user and of the loop, leave
\* alone.
LEMMA CommandKeys ==
    Command => UNCHANGED <<letter_pressed, fresh, key_pressing, cur_key>>
  BY DEF Command, OtherCommand, EchoOpen, EchoClose, CatOpen, CatNext, CatRead,
         CatClose, CatEnd, RunOrTouch, RunClose, KeysStay

LEMMA CommandLine ==
    Command => /\ pc # "loop"
               /\ \/ input_str' = <<>> /\ pc' = "loop"
                  \/ input_str' = input_str /\ pc' # "loop"
<1>1. Catting => pc # "loop"
  BY DEF Catting
<1>2. QED
  BY <1>1 DEF Command, OtherCommand, EchoOpen, EchoClose, CatOpen, CatNext, CatRead,
         CatClose, CatEnd, RunOrTouch, RunClose, Prompt, Goto

LEMMA KeysStep == TypeOK /\ KeysInv /\ [Next]_vars => KeysInv'
<1> SUFFICES ASSUME TypeOK, KeysInv, [Next]_vars, NEW i \in Down'
             PROVE  \/ i \in fresh'
                    \/ key_pressing' /\ cur_key' \in {i, i + Shifted}
  BY DEF KeysInv
<1>0. i \in Indices \ {ShiftKey} /\ i \in 0 .. 40
  BY DEF Down, Indices
<1>1. ASSUME NEW k \in Keys \cup {ShiftKey}, Press(k)
      PROVE  i \in fresh' \/ (key_pressing' /\ cur_key' \in {i, i + Shifted})
  BY <1>1 DEF Press, KeysInv, inputVars
<1>2. ASSUME NEW k \in Keys \cup {ShiftKey}, Release(k)
      PROVE  i \in fresh' \/ (key_pressing' /\ cur_key' \in {i, i + Shifted})
  <2>1. letter_code[k] \in 1 .. 127
    BY Codes, ShellAssumption, <1>2 DEF Indices, ShiftKey
  <2>2. i \in Down
    <3>1. /\ letter_pressed' = [j \in Indices |->
               IF letter_code[k] + 128 < 128
               THEN letter_pressed[j] \/ letter_code[j] = letter_code[k] + 128
               ELSE letter_pressed[j] /\ letter_code[j] + 128 # letter_code[k] + 128]
          /\ ~(letter_code[k] + 128 < 128)
      BY <1>2, <2>1 DEF Release, keyboard_event
    <3>2. letter_pressed'[i]
      BY DEF Down
    <3>3. letter_pressed[i]
      BY <1>0, <3>1, <3>2
    <3>4. QED
      BY <1>0, <3>3 DEF Down
  <2>3. QED
    BY <1>2, <2>2 DEF Release, KeysInv, inputVars
<1>3. CASE PollAny
  <2>1. PICK key \in see_if_any_key_pressed :
           LET index == IF key >= Shifted THEN key - Shifted ELSE key
           IN cur_key' = key /\ fresh' = fresh \ {index}
    BY <1>3 DEF PollAny
  <2>2. ~key_pressing /\ key_pressing' = TRUE /\ Down' = Down
    BY <1>3 DEF PollAny, Down
  <2>3. QED
    BY <2>1, <2>2, PolledKey DEF KeysInv
<1>4. CASE PollHeld
  <2>1. /\ ~query_key(cur_key) /\ fresh' = fresh
        /\ i \in Down /\ letter_pressed[i]
    BY <1>4 DEF PollHeld, Down
  <2>2. ~(cur_key \in {i, i + Shifted})
    BY <1>0, <2>1 DEF query_key, Shifted
  <2>3. QED
    BY <2>1, <2>2 DEF KeysInv
<1>5. CASE Command \/ UNCHANGED vars
  <2>1. UNCHANGED <<letter_pressed, fresh, key_pressing, cur_key>>
    BY <1>5, CommandKeys DEF vars, inputVars
  <2>2. QED
    BY <2>1 DEF KeysInv, Down
<1>6. QED
  BY <1>1, <1>2, <1>3, <1>4, <1>5 DEF Next, User, Step

LEMMA LineStep ==
    LineOK /\ NewlineEnds /\ [Next]_vars => LineOK' /\ NewlineEnds'
<1> SUFFICES ASSUME LineOK, NewlineEnds, [Next]_vars PROVE LineOK' /\ NewlineEnds'
  OBVIOUS
<1>1. CASE User \/ PollHeld \/ UNCHANGED vars
  <2>1. UNCHANGED <<input_str, pc>>
    BY <1>1 DEF User, Press, Release, PollHeld, vars, inputVars, cmdVars
  <2>2. QED
    BY <2>1 DEF LineOK, NewlineEnds
<1>2. CASE PollAny
  <2>1. PICK key \in see_if_any_key_pressed :
           LET index == IF key >= Shifted THEN key - Shifted ELSE key
           IN /\ input_str' = Append(input_str, IF key >= Shifted
                               THEN shift_key_sequence(index) ELSE key_sequence(index))
              /\ pc' = IF key = Enter THEN "command" ELSE "loop"
    BY <1>2 DEF PollAny
  <2> DEFINE index == IF key >= Shifted THEN key - Shifted ELSE key
             d == IF key >= Shifted THEN shift_key_sequence(index)
                  ELSE key_sequence(index)
  <2>a. d \in Kinds /\ (d = "newline" <=> key < Shifted /\ index = Enter)
    <3>1. index \in Int /\ (key >= Shifted <=> ~(key < Shifted))
      BY PolledKey DEF Indices, Shifted
    <3>2. QED
      BY <3>1 DEF key_sequence, shift_key_sequence, Kinds
  <2>b. input_str' = Append(input_str, d) /\ (d = "newline" <=> pc' # "loop")
    BY <2>1, <2>a, PolledKey
  <2>2. PICK c \in Kinds : input_str' = Append(input_str, c)
                          /\ (c = "newline" <=> pc' # "loop")
    BY <2>a, <2>b
  <2>3. pc = "loop"
    BY <1>2 DEF PollAny
  <2>4. /\ input_str' \in Seq(Kinds) /\ Len(input_str') = Len(input_str) + 1
        /\ \A j \in DOMAIN input_str' :
              (j \in DOMAIN input_str /\ input_str'[j] = input_str[j])
              \/ (j = Len(input_str') /\ input_str'[j] = c)
        /\ input_str'[Len(input_str')] = c /\ input_str' # <<>>
    BY <2>2 DEF LineOK
  <2>5. QED
    BY <2>2, <2>3, <2>4 DEF LineOK, NewlineEnds
<1>3. CASE Command
  <2>1. CASE input_str' = <<>> /\ pc' = "loop"
    BY <2>1 DEF LineOK, NewlineEnds
  <2>2. CASE input_str' = input_str /\ pc' # "loop"
    BY <1>3, <2>2, CommandLine DEF LineOK, NewlineEnds
  <2>3. QED
    BY <1>3, <2>1, <2>2, CommandLine
<1>4. QED
  BY <1>1, <1>2, <1>3 DEF Next, Step

LEMMA OpenStep == TypeOK /\ OpenHeld /\ [Next]_vars => OpenHeld'
<1> SUFFICES ASSUME TypeOK, OpenHeld, [Next]_vars, NEW x \in Fcbs \ {-1},
                    fcb_inode_offset'[x] # Closed
             PROVE  \/ x = fp' /\ (pc' \in {"echo", "run"} \/ (Catting' /\ left' # -1))
                    \/ x = fp_out' /\ pc' = "cat >"
  BY DEF OpenHeld
<1> DEFINE Known == \/ x = fp' /\ (pc' \in {"echo", "run"} \/ (Catting' /\ left' # -1))
                    \/ x = fp_out' /\ pc' = "cat >"
<1>t. FcbTypes /\ fp \in Fcbs /\ fp_out \in Fcbs
  BY DEF TypeOK, FcbTypes
<1>o. fcb_inode_offset[x] # Closed =>
          \/ x = fp /\ (pc \in {"echo", "run"} \/ (Catting /\ left # -1))
          \/ x = fp_out /\ pc = "cat >"
  BY DEF OpenHeld
<1>1. CASE User \/ UNCHANGED vars
  <2>1. UNCHANGED <<cmdVars, fcbVars>>
    BY <1>1 DEF User, Press, Release, vars
  <2>2. QED
    BY <1>o, <2>1 DEF cmdVars, fcbVars, Catting
<1>2. CASE PollAny
  <2>1. pc = "loop" /\ fcb_inode_offset' = fcb_inode_offset
    BY <1>2 DEF PollAny, fcbVars
  <2>2. QED
    BY <1>o, <2>1 DEF Catting
<1>3. CASE PollHeld
  BY <1>o, <1>3 DEF PollHeld, cmdVars, fcbVars, Catting
<1>4. CASE OtherCommand
  BY <1>o, <1>4 DEF OtherCommand, fcbVars, Catting
<1>5. ASSUME NEW n \in Names, EchoOpen(n) PROVE Known
  <2>1. PICK r \in Fcbs : file_open(n, r) /\ fp' = r
    BY <1>5 DEF EchoOpen
  <2>2. x = r \/ fcb_inode_offset[x] # Closed
    BY <1>t, <2>1, OpenOne
  <2>3. pc = "command" /\ pc' = "echo"
    BY <1>5 DEF EchoOpen, Goto
  <2>4. QED
    BY <1>o, <2>1, <2>2, <2>3 DEF Catting
<1>6. CASE EchoClose \/ RunClose
  <2>1. x # fp /\ fcb_inode_offset[x] # Closed
    BY <1>6, <1>t, CloseOne DEF EchoClose, RunClose
  <2>2. pc \in {"echo", "run"}
    BY <1>6 DEF EchoClose, RunClose
  <2>3. QED
    BY <1>o, <2>1, <2>2 DEF Catting
<1>7. ASSUME NEW as, NEW n, CatOpen(as, n) PROVE Known
  <2>1. pc = "command"
    BY <1>7 DEF CatOpen
  <2>2. CASE n = Closed
    BY <1>7, <1>o, <2>1, <2>2 DEF CatOpen, fcbVars, Catting
  <2>3. CASE n # Closed
    <3>1. PICK r \in Fcbs : file_open(n, r) /\ fp_out' = r /\ Goto("cat >")
      BY <1>7, <2>3 DEF CatOpen
    <3>2. x = r \/ fcb_inode_offset[x] # Closed
      BY <1>t, <3>1, OpenOne
    <3>3. QED
      BY <1>o, <2>1, <3>1, <3>2 DEF Goto, Catting
  <2>4. QED
    BY <2>2, <2>3
<1>8. CASE CatNext
  <2>1. PICK r \in Fcbs : file_open(Head(args), r) /\ fp' = r
    BY <1>8 DEF CatNext
  <2>2. x = r \/ fcb_inode_offset[x] # Closed
    BY <1>t, <2>1, OpenOne
  <2>3. MaxRead \in Nat
    BY ShellAssumption
  <2>4. /\ Catting /\ left = -1 /\ left' # -1
        /\ pc' = pc /\ fp_out' = fp_out
    BY <1>8, <2>3 DEF CatNext
  <2>5. QED
    BY <1>o, <2>1, <2>2, <2>4 DEF Catting
<1>9. CASE CatRead
  <2>1. /\ Catting /\ left > 0 /\ left' = left - 1
        /\ UNCHANGED <<pc, fp, fp_out, fcb_inode_offset>>
    BY <1>9 DEF CatRead, fcbVars
  <2>2. left' # -1
    <3>1. MaxRead \in Nat /\ left \in -1 .. MaxRead
      BY ShellAssumption DEF TypeOK
    <3>2. QED
      BY <2>1, <3>1
  <2>3. QED
    BY <1>o, <2>1, <2>2 DEF Catting
<1>10. CASE CatClose
  <2>1. x # fp /\ fcb_inode_offset[x] # Closed
    BY <1>10, <1>t, CloseOne DEF CatClose
  <2>2. QED
    BY <1>10, <1>o, <2>1 DEF CatClose, Catting
<1>11. CASE CatEnd
  <2>1. CASE pc = "cat >"
    <3>1. x # fp_out /\ fcb_inode_offset[x] # Closed
      BY <1>11, <1>t, <2>1, CloseOne DEF CatEnd
    <3>2. QED
      BY <1>11, <1>o, <2>1, <3>1 DEF CatEnd
  <2>2. CASE pc # "cat >"
    BY <1>11, <1>o, <2>2 DEF CatEnd, fcbVars, Catting
  <2>3. QED
    BY <2>1, <2>2
<1>12. ASSUME NEW n \in Names, RunOrTouch(n) PROVE Known
  <2>1. PICK r \in Fcbs : /\ file_open(n, r) /\ fp' = r
                          /\ r # -1 => pc' = "run"
    BY <1>12 DEF RunOrTouch, Goto
  <2>2. x = r \/ fcb_inode_offset[x] # Closed
    BY <1>t, <2>1, OpenOne
  <2>3. pc = "command"
    BY <1>12 DEF RunOrTouch
  <2>4. QED
    BY <1>o, <2>1, <2>2, <2>3 DEF Catting
<1>13. CASE Command
  <2>1. CASE \E as \in SeqOf(Names, MaxArgs) \ {<<>>}, n \in Names \cup {Closed} : CatOpen(as, n)
    BY <2>1, <1>7
  <2>2. CASE \E n \in Names : EchoOpen(n) \/ RunOrTouch(n)
    BY <2>2, <1>5, <1>12
  <2>3. CASE OtherCommand \/ EchoClose \/ CatNext \/ CatRead \/ CatClose \/ CatEnd \/ RunClose
    BY <2>3, <1>4, <1>6, <1>8, <1>9, <1>10, <1>11
  <2>4. QED
    BY <1>13, <2>1, <2>2, <2>3 DEF Command
<1>14. QED
  BY <1>1, <1>2, <1>3, <1>13 DEF Next, Step

LEMMA StepInv == Inv /\ [Next]_vars => Inv'
<1>1. (TypeOK <=> Others /\ LineOK) /\ (TypeOK' <=> Others' /\ LineOK')
  BY DEF TypeOK, Others, LineOK
<1>2. QED
  BY <1>1, OthersStep, LineStep, KeysStep, OpenStep DEF Inv

THEOREM Invariance == Spec => []Inv
<1>1. QED
  BY InitInv, StepInv, PTL DEF Spec
-----------------------------------------------------------------------------
(***************************************************************************)
(* The theorems                                                            *)
(***************************************************************************)

\* The shell keeps its types (ui.c, cmd_handler.c): what it passes to file_close
\* is always an index of the table or -1, and the line holds what the tables of
\* characters have for the keys.
THEOREM ShellTypeCorrect == Spec => []TypeOK
<1>1. Inv => TypeOK
  BY DEF Inv
<1>2. QED
  BY <1>1, Invariance, PTL

\* A line that is carried out ends with a newline, its only one (ui.c:24-33), for
\* every set of keys and any length of lines.
THEOREM NewlineLast == Spec => []NewlineEnds
<1>1. Inv => NewlineEnds
  BY DEF Inv
<1>2. QED
  BY <1>1, Invariance, PTL

\* No prompt finds a control block open (cmd_handler.c), however many blocks,
\* names and files of a cat there are, and with any number of failed opens: also
\* when fcbs[-1] has come onto the free list.
THEOREM ClosedAtPrompt == Spec => []PromptClosed
<1>1. Inv => PromptClosed
  BY DEF Inv, OpenHeld, PromptClosed, Catting
<1>2. QED
  BY <1>1, Invariance, PTL

\* Each key is entered at most once per press (ui.c:17-46).
THEOREM OncePerPressHolds == Spec => OncePerPress
<1> DEFINE Pressed == Len(input_str') > Len(input_str) =>
          (IF cur_key' >= Shifted THEN cur_key' - Shifted ELSE cur_key') \in fresh
<1>1. Inv /\ [Next]_vars => [Pressed]_vars
  <2> SUFFICES ASSUME Inv, Next, Len(input_str') > Len(input_str) PROVE Pressed
    OBVIOUS
  <2>0. Len(input_str) \in Nat /\ Len(<<>>) = 0
    <3>1. input_str \in Seq(Kinds)
      BY DEF Inv, TypeOK
    <3>2. QED
      BY <3>1
  <2>1. CASE User \/ PollHeld
    <3>1. input_str' = input_str
      BY <2>1 DEF User, Press, Release, PollHeld, inputVars
    <3>2. QED
      BY <2>0, <3>1
  <2>2. CASE Command
    BY <2>0, <2>2, CommandLine
  <2>3. CASE PollAny
    <3>1. PICK key \in see_if_any_key_pressed : cur_key' = key
      BY <2>3 DEF PollAny
    <3>2. ~key_pressing
      BY <2>3 DEF PollAny
    <3>3. (IF key >= Shifted THEN key - Shifted ELSE key) \in Down
      BY PolledKey
    <3>4. QED
      BY <3>1, <3>2, <3>3 DEF Inv, KeysInv
  <2>4. QED
    BY <2>1, <2>2, <2>3 DEF Next, Step
<1>2. QED
  BY <1>1, Invariance, PTL DEF Spec, OncePerPress
-----------------------------------------------------------------------------
(***************************************************************************)
(* The free list                                                           *)
(***************************************************************************)

Table == Fcbs \ {-1}
Free  == {x \in Table : fcb_inode_offset[x] = Closed}
Open(x) == x \in Table /\ fcb_inode_offset[x] # Closed

\* What the commands still have to close is open, once.
HeldOpen ==
    /\ Catting \/ left = -1
    /\ ~failed =>
          /\ pc \in {"echo", "run"} \/ left # -1 => Open(fp)
          /\ pc = "cat >" => Open(fp_out) /\ (left # -1 => fp # fp_out)

\* The links as those of Lists, whose Nil is an index here.
ToNil(p) == IF p = Null THEN Nil ELSE p
FreeLink == [x \in Table |-> ToNil(fcb_link[x])]

\* What is closed is on the free list, and fcbs[-1] is not.
FreeOK ==
    ~failed =>
        /\ fcb_free_list # -1 /\ \A x \in Table : fcb_link[x] # -1
        /\ IsList(FreeLink, ToNil(fcb_free_list), Free)

LEMMA TableSet == NFCB \in Nat /\ NFCB >= 1 /\ Table = 0 .. NFCB - 1 /\ Nil \notin Table
BY ShellAssumption DEF Table, Fcbs, Nil

\* An open that succeeds takes the head of the list.
LEMMA OpenFree ==
    ASSUME FcbTypes, FreeOK, NEW n, NEW r \in Fcbs, file_open(n, r), ~failed'
    PROVE  /\ ~failed /\ FreeOK'
           /\ r \in Free /\ Open(r)'
           /\ \A x \in Table : x # r => fcb_inode_offset'[x] = fcb_inode_offset[x]
<1>1. /\ n \in Stored /\ fcb_free_list # Null /\ r = fcb_free_list
      /\ fcb_free_list' = fcb_link[r]
      /\ fcb_inode_offset' = [fcb_inode_offset EXCEPT ![r] = n]
      /\ UNCHANGED <<fcb_link, failed>>
  BY DEF file_open
<1>2. /\ fcb_free_list # -1 /\ \A x \in Table : fcb_link[x] # -1
      /\ IsList(FreeLink, ToNil(fcb_free_list), Free)
  BY <1>1 DEF FreeOK
<1>3. ToNil(fcb_free_list) = r /\ r # Nil
  BY <1>1, <1>2 DEF ToNil, Nil
<1>4. r \in Free /\ IsList(FreeLink, FreeLink[r], Free \ {r})
  BY <1>2, <1>3, ListPop
<1>5. n # Closed /\ r \in Table
  BY <1>1, <1>4, ShellAssumption DEF Free
<1>6. \A x \in Table : fcb_inode_offset'[x] = IF x = r THEN n ELSE fcb_inode_offset[x]
  BY <1>1 DEF FcbTypes, Table
<1>7. Free' = Free \ {r}
  <2>1. Table' = Table
    BY DEF Table, Fcbs
  <2>2. QED BY <1>5, <1>6, <2>1 DEF Free
<1>8. FreeLink' = FreeLink /\ FreeLink[r] = ToNil(fcb_free_list)'
  BY <1>1, <1>5 DEF FreeLink, ToNil, Table, Fcbs
<1>9. FreeOK'
  BY <1>1, <1>2, <1>4, <1>5, <1>7, <1>8 DEF FreeOK, Table, Fcbs
<1>10. Open(r)'
  BY <1>5, <1>6 DEF Open, Table, Fcbs
<1>11. QED BY <1>1, <1>4, <1>6, <1>9, <1>10

\* What is closed goes in front.
LEMMA CloseFree ==
    ASSUME FcbTypes, FreeOK, NEW y \in Fcbs, file_close(y), ~failed => Open(y)
    PROVE  /\ FreeOK' /\ failed' = failed
           /\ \A x \in Table : x # y => fcb_inode_offset'[x] = fcb_inode_offset[x]
<1>1. /\ fcb_inode_offset' = [fcb_inode_offset EXCEPT ![y] = Closed]
      /\ fcb_link' = [fcb_link EXCEPT ![y] = fcb_free_list]
      /\ fcb_free_list' = y /\ failed' = failed
  BY DEF file_close
<1>2. \A x \in Table : fcb_inode_offset'[x] = IF x = y THEN Closed ELSE fcb_inode_offset[x]
  BY <1>1 DEF FcbTypes, Table
<1>3. ASSUME ~failed PROVE FreeOK'
  <2>1. y \in Table /\ y \notin Free /\ y # -1
    BY <1>3 DEF Open, Free, Table
  <2>2. /\ fcb_free_list # -1 /\ \A x \in Table : fcb_link[x] # -1
        /\ IsList(FreeLink, ToNil(fcb_free_list), Free)
    BY <1>3 DEF FreeOK
  <2>3. FreeLink \in [Table -> Table \cup {Nil}]
    BY <2>2 DEF FreeLink, ToNil, FcbTypes, Table
  <2>4. Free \in SUBSET Table
    BY DEF Free
  <2>5. IsList([FreeLink EXCEPT ![y] = ToNil(fcb_free_list)], y, Free \cup {y})
    BY <2>1, <2>2, <2>3, <2>4, TableSet, ListPush
  <2>6. Table' = Table
    BY DEF Table, Fcbs
  <2>7. Free' = Free \cup {y}
    BY <1>2, <2>1, <2>6 DEF Free
  <2>8. \A x \in Table : fcb_link'[x] = IF x = y THEN fcb_free_list ELSE fcb_link[x]
    BY <1>1 DEF FcbTypes, Table
  <2>9. FreeLink' = [FreeLink EXCEPT ![y] = ToNil(fcb_free_list)]
    BY <2>6, <2>8 DEF FreeLink, ToNil
  <2>10. ToNil(fcb_free_list)' = y
    BY <1>1, <2>1 DEF ToNil, Table, Fcbs, Null
  <2>11. \A x \in Table' : fcb_link'[x] # -1
    BY <2>2, <2>6, <2>8
  <2>12. QED BY <1>1, <2>1, <2>5, <2>7, <2>9, <2>10, <2>11 DEF FreeOK
<1>4. failed => FreeOK'
  BY <1>1 DEF FreeOK
<1>5. QED BY <1>1, <1>2, <1>3, <1>4

LEMMA FreeInit == Init => HeldOpen /\ FreeOK
<1> SUFFICES ASSUME Init PROVE HeldOpen /\ FreeOK
  OBVIOUS
<1>1. HeldOpen
  BY DEF Init, HeldOpen, Catting
<1>2. \A x \in Table : x \in 0 .. NFCB - 1 /\ x \in Fcbs
  BY TableSet DEF Table
<1>3. /\ fcb_free_list = 0
      /\ \A x \in Table : fcb_link[x] = IF x = NFCB - 1 THEN Null ELSE x + 1
  BY <1>2 DEF Init
<1>4. Free = 0 .. NFCB - 1
  BY <1>2, TableSet DEF Init, Free
<1>5. FreeLink = [e \in 0 .. NFCB - 1 |-> IF e = NFCB - 1 THEN Nil ELSE e + 1]
  BY <1>2, <1>3, TableSet DEF FreeLink, ToNil, Null
<1>6. IsList(FreeLink, 0, 0 .. NFCB - 1)
  BY <1>5, TableSet, InitialList
<1>7. fcb_free_list # -1 /\ \A x \in Table : fcb_link[x] # -1
  BY <1>2, <1>3, TableSet DEF Null
<1>8. ToNil(fcb_free_list) = 0
  BY <1>3 DEF ToNil, Null
<1>9. FreeOK
  BY <1>4, <1>6, <1>7, <1>8 DEF FreeOK
<1>10. QED BY <1>1, <1>9

LEMMA FreeStep == TypeOK /\ HeldOpen /\ FreeOK /\ [Next]_vars => HeldOpen' /\ FreeOK'
<1> SUFFICES ASSUME TypeOK, HeldOpen, FreeOK, [Next]_vars PROVE HeldOpen' /\ FreeOK'
  OBVIOUS
<1>t. FcbTypes /\ fp \in Fcbs /\ fp_out \in Fcbs
  BY DEF TypeOK, FcbTypes
<1>f. ASSUME UNCHANGED fcbVars
      PROVE  FreeOK' /\ failed' = failed /\ \A x : Open(x)' <=> Open(x)
  BY <1>f DEF fcbVars, FreeOK, Free, FreeLink, ToNil, Open, Table, Fcbs
<1>g. \A x : Open(x) <=> x \in Table /\ x \notin Free
  BY DEF Open, Free
<1>h. ASSUME NEW x \in Table, fcb_inode_offset'[x] = fcb_inode_offset[x]
      PROVE  Open(x)' <=> Open(x)
  BY <1>h DEF Open, Table, Fcbs
<1>l. Catting \/ left = -1
  BY DEF HeldOpen
<1>1. CASE User \/ PollHeld \/ UNCHANGED vars
  <2>1. UNCHANGED <<cmdVars, fcbVars>>
    BY <1>1 DEF User, Press, Release, PollHeld, vars
  <2>2. QED BY <1>f, <2>1 DEF HeldOpen, cmdVars, Catting
<1>2. CASE PollAny \/ OtherCommand
  <2>1. /\ pc \in {"loop", "command"} /\ pc' \in {"loop", "command"}
        /\ UNCHANGED <<left, fcbVars>>
    BY <1>2 DEF PollAny, OtherCommand, Prompt
  <2>2. left' = -1
    BY <1>l, <2>1 DEF Catting
  <2>3. QED BY <1>f, <2>1, <2>2 DEF HeldOpen
<1>3. ASSUME NEW n, EchoOpen(n) \/ RunOrTouch(n) PROVE HeldOpen' /\ FreeOK'
  <2>1. PICK r \in Fcbs : file_open(n, r) /\ fp' = r
    BY <1>3 DEF EchoOpen, RunOrTouch
  <2>2. pc = "command" /\ pc' \in {"echo", "run", "loop"} /\ left' = left
    BY <1>3 DEF EchoOpen, RunOrTouch, Goto, Prompt
  <2>3. left' = -1
    BY <1>l, <2>2 DEF Catting
  <2>4. CASE failed'
    BY <2>2, <2>3, <2>4 DEF HeldOpen, FreeOK
  <2>5. CASE ~failed'
    BY <1>t, <2>1, <2>2, <2>3, <2>5, OpenFree DEF HeldOpen
  <2>6. QED BY <2>4, <2>5
<1>4. CASE EchoClose \/ RunClose
  <2>1. /\ pc \in {"echo", "run"} /\ pc' = "loop" /\ left' = left /\ file_close(fp)
    BY <1>4 DEF EchoClose, RunClose, Prompt
  <2>2. ~failed => Open(fp)
    BY <2>1 DEF HeldOpen
  <2>3. FreeOK'
    BY <1>t, <2>1, <2>2, CloseFree
  <2>4. left' = -1
    BY <1>l, <2>1 DEF Catting
  <2>5. QED BY <2>1, <2>3, <2>4 DEF HeldOpen
<1>5. ASSUME NEW as, NEW n, CatOpen(as, n) PROVE HeldOpen' /\ FreeOK'
  <2>1. pc = "command" /\ left' = left /\ left' = -1
    BY <1>5, <1>l DEF CatOpen, Catting
  <2>2. CASE n = Closed
    <3>1. pc' = "cat" /\ UNCHANGED fcbVars
      BY <1>5, <2>2 DEF CatOpen, Goto
    <3>2. QED BY <1>f, <2>1, <3>1 DEF HeldOpen
  <2>3. CASE n # Closed
    <3>1. PICK r \in Fcbs : file_open(n, r) /\ fp_out' = r /\ Goto("cat >")
      BY <1>5, <2>3 DEF CatOpen
    <3>2. CASE failed'
      BY <2>1, <3>2 DEF HeldOpen, FreeOK
    <3>3. CASE ~failed'
      <4>1. FreeOK' /\ Open(r)'
        BY <1>t, <3>1, <3>3, OpenFree
      <4>2. QED BY <2>1, <3>1, <4>1 DEF HeldOpen, Goto
    <3>4. QED BY <3>2, <3>3
  <2>4. QED BY <2>2, <2>3
<1>6. CASE CatNext
  <2>1. PICK r \in Fcbs : file_open(Head(args), r) /\ fp' = r
    BY <1>6 DEF CatNext
  <2>2. Catting /\ pc' = pc /\ fp_out' = fp_out /\ Catting'
    BY <1>6 DEF CatNext, Catting
  <2>3. CASE failed'
    BY <2>2, <2>3 DEF HeldOpen, FreeOK
  <2>4. CASE ~failed'
    <3>1. /\ ~failed /\ FreeOK' /\ r \in Free /\ Open(r)'
          /\ \A x \in Table : x # r => fcb_inode_offset'[x] = fcb_inode_offset[x]
      BY <1>t, <2>1, <2>4, OpenFree
    <3>2. ASSUME pc = "cat >" PROVE Open(fp_out)' /\ fp' # fp_out'
      <4>1. Open(fp_out) /\ fp_out \in Table /\ fp_out # r
        BY <1>g, <3>1, <3>2 DEF HeldOpen
      <4>2. fcb_inode_offset'[fp_out] = fcb_inode_offset[fp_out]
        BY <3>1, <4>1
      <4>3. QED BY <1>h, <2>1, <2>2, <4>1, <4>2 DEF Open
    <3>3. QED BY <2>1, <2>2, <3>1, <3>2 DEF HeldOpen, Catting, Open
  <2>5. QED BY <2>3, <2>4
<1>7. CASE CatRead
  <2>1. /\ left # -1 /\ Catting' /\ UNCHANGED <<pc, fp, fp_out, fcbVars>>
    <3>1. left \in -1 .. MaxRead /\ MaxRead \in Nat
      BY ShellAssumption DEF TypeOK
    <3>2. Catting /\ left > 0 /\ UNCHANGED <<pc, fp, fp_out>>
      BY <1>7 DEF CatRead
    <3>3. UNCHANGED fcbVars
      BY <1>7 DEF CatRead, fcbVars
    <3>4. left # -1
      BY <3>1, <3>2
    <3>5. Catting'
      BY <3>2 DEF Catting
    <3>6. QED BY <3>2, <3>3, <3>4, <3>5
  <2>2. Catting \/ left' = -1
    BY <1>7 DEF CatRead
  <2>3. FreeOK' /\ failed' = failed /\ \A x : Open(x)' <=> Open(x)
    BY <1>f, <2>1
  <2>4. (Open(fp))' <=> Open(fp)
    BY <2>1, <2>3 DEF Open, fcbVars, Table, Fcbs
  <2>5. (Open(fp_out))' <=> Open(fp_out)
    BY <2>1, <2>3 DEF Open, fcbVars, Table, Fcbs
  <2>6. QED BY <2>1, <2>3, <2>4, <2>5 DEF HeldOpen
<1>8. CASE CatClose
  <2>1. /\ Catting /\ left # -1 /\ file_close(fp) /\ left' = -1
        /\ UNCHANGED <<pc, fp_out>>
    BY <1>8 DEF CatClose
  <2>2. ~failed => Open(fp)
    BY <2>1 DEF HeldOpen
  <2>3. /\ FreeOK' /\ failed' = failed
        /\ \A x \in Table : x # fp => fcb_inode_offset'[x] = fcb_inode_offset[x]
    BY <1>t, <2>1, <2>2, CloseFree
  <2>4. ASSUME ~failed, pc = "cat >" PROVE Open(fp_out)'
    <3>1. Open(fp_out) /\ fp_out \in Table /\ fp_out # fp
      BY <2>1, <2>4 DEF HeldOpen, Open
    <3>2. fcb_inode_offset'[fp_out] = fcb_inode_offset[fp_out]
      BY <2>3, <3>1
    <3>3. QED BY <1>h, <2>1, <3>1, <3>2 DEF Open
  <2>5. QED BY <2>1, <2>3, <2>4 DEF HeldOpen, Catting
<1>9. CASE CatEnd
  <2>1. Catting /\ left = -1 /\ left' = -1 /\ pc' = "loop"
    BY <1>9 DEF CatEnd, Prompt
  <2>2. FreeOK'
    <3>1. CASE pc = "cat >"
      <4>1. file_close(fp_out) /\ (~failed => Open(fp_out))
        BY <1>9, <3>1 DEF CatEnd, HeldOpen
      <4>2. QED BY <1>t, <4>1, CloseFree
    <3>2. CASE pc # "cat >"
      BY <1>9, <1>f, <3>2 DEF CatEnd
    <3>3. QED BY <3>1, <3>2
  <2>3. QED BY <2>1, <2>2 DEF HeldOpen
<1>10. CASE Command
  <2>1. CASE \E as \in SeqOf(Names, MaxArgs) \ {<<>>}, n \in Names \cup {Closed} : CatOpen(as, n)
    BY <2>1, <1>5
  <2>2. CASE \E n \in Names : EchoOpen(n) \/ RunOrTouch(n)
    BY <2>2, <1>3
  <2>3. CASE OtherCommand \/ EchoClose \/ CatNext \/ CatRead \/ CatClose \/ CatEnd \/ RunClose
    BY <2>3, <1>2, <1>4, <1>6, <1>7, <1>8, <1>9
  <2>4. QED BY <1>10, <2>1, <2>2, <2>3 DEF Command
<1>11. QED
  BY <1>1, <1>2, <1>10 DEF Next, Step

\* A list of as many entries as there are hops comes by all of them, and then ends.
LEMMA AllFree ==
    ASSUME FcbTypes, FreeOK, ~failed, Free = Table
    PROVE  {NthFree[k] : k \in 0 .. NFCB - 1} = Table /\ NthFree[NFCB] = Null
<1> DEFINE D == Table \cup {Null}
           G == [k \in 1 .. NFCB |-> [x \in D |-> IF x = Null THEN Null ELSE fcb_link[x]]]
           H(k, f) == IF k = 0 THEN fcb_free_list
                      ELSE IF f[k - 1] = Null THEN Null ELSE fcb_link[f[k - 1]]
<1>1. NFCB \in Nat /\ NFCB >= 1 /\ fcb_free_list \in D /\ \A x \in Table : fcb_link[x] \in D
  BY TableSet DEF FcbTypes, FreeOK, Table
<1>2. G \in [1 .. NFCB -> [D -> D]]
  BY <1>1
<1>3. PICK g : Repeats(g, NFCB, D, G, fcb_free_list)
  <2> HIDE DEF G, D
  <2>1. QED BY <1>1, <1>2, Repeated
<1>4. /\ g \in [0 .. NFCB -> D] /\ g[0] = fcb_free_list
      /\ \A k \in 1 .. NFCB : g[k] = G[k][g[k - 1]]
  <2> HIDE DEF G, D
  <2>1. QED BY <1>3 DEF Repeats
<1>5. g = [k \in 0 .. NFCB |-> H(k, g)]
  <2>1. ASSUME NEW k \in 0 .. NFCB PROVE g[k] = H(k, g)
    <3>1. k # 0 => k \in 1 .. NFCB /\ g[k - 1] \in D
      BY <1>1, <1>4
    <3>2. QED BY <1>4, <3>1
  <2> HIDE DEF H
  <2>2. QED BY <1>4, <2>1
<1>6. NthFree = [k \in 0 .. NFCB |-> H(k, NthFree)] /\ NthFree \in [0 .. NFCB -> D]
  <2> HIDE DEF H, D
  <2>1. NthFree = CHOOSE f : f = [k \in 0 .. NFCB |-> H(k, f)]
    BY DEF NthFree, H
  <2>2. PICK f : f = NthFree /\ f = [k \in 0 .. NFCB |-> H(k, f)]
    BY <1>5, <2>1
  <2>3. NthFree = [k \in 0 .. NFCB |-> H(k, NthFree)]
    BY <2>2
  <2> USE DEF H, D
  <2>4. NthFree[0] \in D
    BY <1>1, <2>3
  <2>5. \A k \in 1 .. NFCB : NthFree[k - 1] \in D => NthFree[k] \in D
    BY <1>1, <2>3
  <2> DEFINE S == {k \in 0 .. NFCB : NthFree[k] \in D}
  <2>6. 0 \in S /\ \A k \in 1 .. NFCB : k - 1 \in S => k \in S
    BY <1>1, <2>4, <2>5
  <2> HIDE DEF S
  <2>7. \A k \in 0 .. NFCB : k \in S
    BY <1>1, <2>6, UpTo
  <2>8. \A k \in 0 .. NFCB : NthFree[k] \in D
    BY <2>7 DEF S
  <2> HIDE DEF D, H
  <2>9. QED BY <2>3, <2>8
<1> DEFINE hop == [k \in 0 .. NFCB |-> ToNil(NthFree[k])]
<1>7. \A x \in D : (x = Null <=> ToNil(x) = Nil) /\ (x \in Table => ToNil(x) = x)
  BY TableSet DEF ToNil, Nil, Null
<1>8. Hops(hop, NFCB, FreeLink, ToNil(fcb_free_list))
  <2>1. hop[0] = ToNil(fcb_free_list)
    BY <1>1, <1>6
  <2>2. ASSUME NEW k \in 1 .. NFCB
        PROVE  hop[k] = IF hop[k - 1] = Nil THEN Nil ELSE FreeLink[hop[k - 1]]
    <3>1. k \in 0 .. NFCB /\ k - 1 \in 0 .. NFCB /\ k # 0
      BY <1>1
    <3>2. NthFree[k] = IF NthFree[k - 1] = Null THEN Null ELSE fcb_link[NthFree[k - 1]]
      BY <1>6, <3>1
    <3>3. NthFree[k - 1] \in D /\ hop[k - 1] = ToNil(NthFree[k - 1]) /\ hop[k] = ToNil(NthFree[k])
      BY <1>6, <3>1
    <3>4. CASE NthFree[k - 1] = Null
      BY <3>2, <3>3, <3>4 DEF ToNil
    <3>5. CASE NthFree[k - 1] \in Table
      BY <1>7, <3>2, <3>3, <3>5, TableSet DEF FreeLink, Null
    <3>6. QED BY <3>3, <3>4, <3>5
  <2> HIDE DEF hop
  <2>3. QED BY <2>1, <2>2 DEF Hops
<1>9. IsList(FreeLink, ToNil(fcb_free_list), Table) /\ Table \in SUBSET (0 .. NFCB - 1)
  BY TableSet DEF FreeOK
<1>10. HopSet(hop, NFCB) = Table /\ hop[NFCB] = Nil
  <2> HIDE DEF hop
  <2>1. QED BY <1>1, <1>8, <1>9, HopsReach, HopsOver
<1>11. NthFree[NFCB] = Null
  BY <1>1, <1>6, <1>7, <1>10
<1> DEFINE found == {NthFree[k] : k \in 0 .. NFCB - 1}
<1>12. Table \subseteq found
  <2>1. ASSUME NEW x \in Table PROVE x \in found
    <3>1. PICK k \in 0 .. NFCB : hop[k] = x
      <4> HIDE DEF hop
      <4>1. QED BY <1>10 DEF HopSet
    <3>2. x # Nil
      BY TableSet
    <3>3. k # NFCB
      BY <1>10, <3>1, <3>2
    <3>4. k \in 0 .. NFCB - 1
      BY <1>1, <3>3
    <3>5. NthFree[k] \in D /\ ToNil(NthFree[k]) = x
      BY <1>6, <3>1
    <3>6. NthFree[k] = x
      BY <1>7, <3>2, <3>5
    <3>7. QED BY <3>4, <3>6
  <2>2. QED BY <2>1
<1>13. Null \notin found
  <2> SUFFICES ASSUME Null \in found PROVE FALSE
    OBVIOUS
  <2>1. Table \cup {Null} \subseteq found
    BY <1>12
  <2>2. /\ IsFiniteSet(0 .. NFCB - 1) /\ Cardinality(0 .. NFCB - 1) = NFCB
    BY <1>1, FS_Interval
  <2>3. IsFiniteSet(found) /\ Cardinality(found) <= NFCB
    <3> DEFINE f == [k \in 0 .. NFCB - 1 |-> NthFree[k]]
    <3>1. f \in Surjection(0 .. NFCB - 1, found)
      BY DEF Surjection
    <3> HIDE DEF f, found
    <3>2. QED BY <2>2, <3>1, FS_Surjection
  <2>4. Null \notin Table
    BY TableSet DEF Null
  <2>5. /\ IsFiniteSet(Table \cup {Null})
        /\ Cardinality(Table \cup {Null}) = NFCB + 1
    BY <2>2, <2>4, TableSet, FS_AddElement
  <2>6. Cardinality(Table \cup {Null}) <= Cardinality(found)
    BY <2>1, <2>3, FS_Subset
  <2>7. Cardinality(found) \in Nat
    BY <2>3, FS_CardinalityType
  <2>8. QED BY <1>1, <2>3, <2>5, <2>6, <2>7
<1>14. found \subseteq Table
  <2>1. \A k \in 0 .. NFCB - 1 : k \in 0 .. NFCB
    BY <1>1
  <2>2. found \subseteq Table \cup {Null}
    BY <1>6, <2>1
  <2>3. QED BY <1>13, <2>2
<1>15. QED BY <1>11, <1>12, <1>14

\* Until an open fails, every prompt finds all control blocks on the free list, once
\* each, and fcbs[-1] not among them (cmd_handler.c, fcb.c): no sequence of commands
\* that find their files loses a control block or closes one twice, however many there
\* are of either.
THEOREM ListWholeHolds == Spec => []ListWhole
<1>1. Inv /\ HeldOpen /\ FreeOK => ListWhole
  <2> SUFFICES ASSUME Inv, HeldOpen, FreeOK, pc = "loop", ~failed
               PROVE  /\ {NthFree[k] : k \in 0 .. NFCB - 1} = Fcbs \ {-1}
                      /\ NthFree[NFCB] = Null
    BY DEF ListWhole
  <2>1. FcbTypes
    BY DEF Inv, TypeOK, FcbTypes
  <2>2. Free = Table
    BY DEF Inv, OpenHeld, Catting, Free, Table
  <2>3. QED BY <2>1, <2>2, AllFree DEF Table
<1>2. Init => HeldOpen /\ FreeOK
  BY FreeInit
<1>3. Inv /\ HeldOpen /\ FreeOK /\ [Next]_vars => HeldOpen' /\ FreeOK'
  BY FreeStep DEF Inv
<1>4. QED BY <1>1, <1>2, <1>3, Invariance, PTL DEF Spec
=============================================================================
