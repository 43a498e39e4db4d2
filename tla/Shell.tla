------------------------------- MODULE Shell -------------------------------
(***************************************************************************)
(* The shell (my_shell/): its loop over the keyboard, and its commands as  *)
(* the system calls on files they make.  Every system call is a step; keys  *)
(* go up and down between any two.                                         *)
(*                                                                         *)
(* A line is a sequence of kinds of characters, and which command it says  *)
(* is left open. ui.c stores a key in the line without asking whether it   *)
(* has room: a line longer than MaxLine, which stands for the 512 bytes of *)
(* input_str, would go on in memory that is not modelled. Of files there   *)
(* is here what the shell can get wrong: the control blocks it opens and   *)
(* closes. A file_open that fails returns -1, which echo and cat pass on.  *)
(* fcbs[-1], the memory before the table, is then used like any other      *)
(* control block: sys_fclose puts it on the free list, and sys_fopen may   *)
(* take it from there. What else is in that memory is not modelled.        *)
(* Positions and contents are those of FileSystem.                         *)
(***************************************************************************)
EXTENDS Keyboard, Sequences, FiniteSets, SequencesExt

CONSTANTS
    Keys,      \* the keys the user types, Shift apart
    NFCB,      \* file control blocks (32)
    Names,     \* names the user may say
    Stored,    \* those of files on the disk
    MaxLine,   \* bound: keys of a line but Enter (the code has room for 512 and
               \* does not test whether they are used up)
    MaxArgs,   \* bound: files of one cat
    MaxRead    \* bound: reads of 64 bytes from one file

Closed == "closed"  \* the name of no file

ASSUME ShellAssumption ==
    /\ Keys \subseteq Indices \ {ShiftKey} /\ Enter \in Keys
    /\ NFCB \in Nat \ {0}
    /\ Stored \subseteq Names /\ Closed \notin Names
    /\ MaxLine \in Nat /\ MaxArgs \in Nat /\ MaxRead \in Nat

VARIABLES
    key_pressing,   \* does the loop wait for cur_key to be released?
    cur_key,
    input_str,      \* the line
    pc,             \* where the shell is: "loop" or in a command
    fp, fp_out,     \* the results of its file_opens
    args,           \* files the cat has still to show
    left,           \* reads left of the file it shows
    fcb_inode_offset, \* control block -> the file that is open, or Closed
    fcb_link,       \* control block -> the next free one, or Null
    fcb_free_list,
    fresh,          \* (history) keys pressed and not entered since
    failed,         \* (history) has a file_open failed?
    denied          \* (history) the file of which run or touch has last said
                    \* "The file does not exist!", or Closed

inputVars == <<key_pressing, cur_key, input_str>>
cmdVars   == <<pc, fp, fp_out, args, left>>
fcbVars   == <<fcb_inode_offset, fcb_link, fcb_free_list, failed>>
vars == <<letter_pressed, inputVars, cmdVars, fcbVars, fresh, denied>>

Null == -2
Fcbs == -1 .. NFCB - 1
-----------------------------------------------------------------------------
(***************************************************************************)
(* The user                                                                *)
(***************************************************************************)

Press(k) ==
    /\ ~letter_pressed[k]
    /\ keyboard_event(letter_code[k])
    /\ fresh' = fresh \cup (Down' \ Down)
    /\ UNCHANGED <<inputVars, cmdVars, fcbVars, denied>>

Release(k) ==
    /\ letter_pressed[k]
    /\ keyboard_event(letter_code[k] + 128)
    /\ UNCHANGED <<inputVars, cmdVars, fcbVars, denied, fresh>>
-----------------------------------------------------------------------------
(***************************************************************************)
(* The loop (ui.c)                                                         *)
(***************************************************************************)

\* Kinds of characters: letters, digits and signs without and with Shift.
Kinds == {"newline", "lower", "upper", "space"}

key_sequence(i) == IF i = Enter THEN "newline" ELSE "lower"

\* Mutant of shift_key_sequence: it ends like key_sequence.
shift_key_sequence_newline(i) == IF i = Enter THEN "newline" ELSE "upper"

shift_key_sequence(i) == IF i = Enter THEN "space" ELSE "upper"

\* A key is entered; Enter without Shift ends the line.
PollAny ==
    /\ pc = "loop" /\ ~key_pressing
    /\ \E key \in see_if_any_key_pressed :
          LET index == IF key >= Shifted THEN key - Shifted ELSE key
          IN /\ key = Enter \/ Len(input_str) < MaxLine
             /\ key_pressing' = TRUE /\ cur_key' = key
             /\ input_str' = Append(input_str,
                   IF key >= Shifted THEN shift_key_sequence(index)
                   ELSE key_sequence(index))
             /\ pc' = IF key = Enter THEN "command" ELSE "loop"
             /\ fresh' = fresh \ {index}
    /\ UNCHANGED <<letter_pressed, fp, fp_out, args, left, fcbVars, denied>>

\* Mutant of PollHeld: it waits until no key is down.
PollNoneHeld ==
    /\ pc = "loop" /\ key_pressing
    /\ Down = {}
    /\ key_pressing' = FALSE
    /\ UNCHANGED <<letter_pressed, cur_key, input_str, cmdVars, fcbVars, fresh, denied>>

PollHeld ==
    /\ pc = "loop" /\ key_pressing
    /\ ~query_key(cur_key)
    /\ key_pressing' = FALSE
    /\ UNCHANGED <<letter_pressed, cur_key, input_str, cmdVars, fcbVars, fresh, denied>>

\* What a step of a command leaves alone.
KeysStay == UNCHANGED <<letter_pressed, fresh, key_pressing, cur_key>>
Goto(l)  == pc' = l /\ UNCHANGED input_str

\* The next prompt.
Prompt == pc' = "loop" /\ input_str' = <<>>
-----------------------------------------------------------------------------
(***************************************************************************)
(* The calls on files, as far as control blocks go                         *)
(***************************************************************************)

\* sys_fopen: r is what it returns.
file_open(name, r) ==
    IF name \in Stored /\ fcb_free_list # Null
    THEN /\ r = fcb_free_list
         /\ fcb_free_list' = fcb_link[r]
         /\ fcb_inode_offset' = [fcb_inode_offset EXCEPT ![r] = name]
         /\ UNCHANGED <<fcb_link, failed>>
    ELSE /\ r = -1
         /\ failed' = TRUE
         /\ UNCHANGED <<fcb_inode_offset, fcb_link, fcb_free_list>>

\* sys_fclose
file_close(x) ==
    /\ fcb_inode_offset' = [fcb_inode_offset EXCEPT ![x] = Closed]
    /\ fcb_link' = [fcb_link EXCEPT ![x] = fcb_free_list]
    /\ fcb_free_list' = x
    /\ UNCHANGED failed
-----------------------------------------------------------------------------
(***************************************************************************)
(* The commands (cmd_handler.c)                                            *)
(***************************************************************************)

\* ls, echo to the screen, and lines that are no command.
OtherCommand ==
    /\ pc = "command" /\ Prompt
    /\ KeysStay
    /\ UNCHANGED <<fp, fp_out, args, left, fcbVars, denied>>

\* echo with > or >>: the file is opened, written and closed, whether it could
\* be opened or not.
EchoOpen(name) ==
    /\ pc = "command"
    /\ \E r \in Fcbs : file_open(name, r) /\ fp' = r
    /\ Goto("echo")
    /\ KeysStay /\ UNCHANGED <<fp_out, args, left, denied>>

EchoClose ==
    /\ pc = "echo"
    /\ file_close(fp)
    /\ Prompt
    /\ KeysStay /\ UNCHANGED <<fp, fp_out, args, left, denied>>

\* cat of the files as, first opening the one it is redirected to, if any.
CatOpen(as, name) ==
    /\ pc = "command"
    /\ args' = as
    /\ IF name = Closed THEN Goto("cat") /\ UNCHANGED <<fp_out, fcbVars>>
       ELSE \E r \in Fcbs : file_open(name, r) /\ fp_out' = r /\ Goto("cat >")
    /\ KeysStay /\ UNCHANGED <<fp, left, denied>>

Catting == pc \in {"cat", "cat >"}

\* Mutant of CatNext: it calls itself with the same file.
CatSameAgain ==
    /\ Catting /\ left = -1 /\ args # <<>>
    /\ \E r \in Fcbs : file_open(Head(args), r) /\ fp' = r
    /\ left' \in 0 .. MaxRead
    /\ KeysStay /\ UNCHANGED <<pc, input_str, fp_out, args, denied>>

\* cmd_cat opens the next file.  That reading it ends is assumed: what can be read
\* of it, and of one that could not be opened, is so many times 64 bytes.
CatNext ==
    /\ Catting /\ left = -1 /\ args # <<>>
    /\ \E r \in Fcbs : file_open(Head(args), r) /\ fp' = r
    /\ left' \in 0 .. MaxRead
    /\ args' = Tail(args)
    /\ KeysStay /\ UNCHANGED <<pc, input_str, fp_out, denied>>

CatRead ==
    /\ Catting /\ left > 0
    /\ left' = left - 1
    /\ KeysStay /\ UNCHANGED <<pc, input_str, fp, fp_out, args, fcbVars, denied>>

CatClose ==
    /\ Catting /\ left = 0
    /\ file_close(fp)
    /\ left' = -1
    /\ KeysStay /\ UNCHANGED <<pc, input_str, fp, fp_out, args, denied>>

\* Mutant of CatEnd: it closes fp_out even if nothing was redirected.
CatEndAlwaysCloses ==
    /\ Catting /\ left = -1 /\ args = <<>>
    /\ file_close(fp_out)
    /\ Prompt
    /\ KeysStay /\ UNCHANGED <<fp, fp_out, args, left, denied>>

CatEnd ==
    /\ Catting /\ left = -1 /\ args = <<>>
    /\ IF pc = "cat >" THEN file_close(fp_out) ELSE UNCHANGED fcbVars
    /\ Prompt
    /\ KeysStay /\ UNCHANGED <<fp, fp_out, args, left, denied>>

\* run and touch give up if the file could not be opened.
RunOrTouch(name) ==
    /\ pc = "command"
    /\ \E r \in Fcbs :
          /\ file_open(name, r)
          /\ fp' = r
          /\ IF r = -1 THEN Prompt /\ denied' = name
             ELSE Goto("run") /\ UNCHANGED denied
    /\ KeysStay /\ UNCHANGED <<fp_out, args, left>>

\* Mutant of RunClose: who ran a program forgets to close it.
RunNotClosed ==
    /\ pc = "run"
    /\ UNCHANGED fcbVars
    /\ Prompt
    /\ KeysStay /\ UNCHANGED <<fp, fp_out, args, left, denied>>

\* sys_frun gives the processor to the program, which is not shown; the shell,
\* being in slot 0, goes on when nobody else is runnable.
RunClose ==
    /\ pc = "run"
    /\ file_close(fp)
    /\ Prompt
    /\ KeysStay /\ UNCHANGED <<fp, fp_out, args, left, denied>>
-----------------------------------------------------------------------------
Init ==
    /\ KeysUp /\ fresh = {}
    /\ key_pressing = FALSE /\ cur_key = -1 /\ input_str = <<>>
    /\ pc = "loop" /\ fp = 0 /\ fp_out = 0 /\ args = <<>> /\ left = -1
    /\ fcb_inode_offset = [x \in Fcbs |-> Closed]
    /\ fcb_link = [x \in Fcbs |-> IF x \in {-1, NFCB - 1} THEN Null ELSE x + 1]
    /\ fcb_free_list = 0
    /\ failed = FALSE /\ denied = Closed

Command ==
    \/ OtherCommand
    \/ \E n \in Names : EchoOpen(n)
    \/ EchoClose
    \/ \E as \in SeqOf(Names, MaxArgs) \ {<<>>}, n \in Names \cup {Closed} : CatOpen(as, n)
    \/ CatNext \/ CatRead \/ CatClose \/ CatEnd
    \/ \E n \in Names : RunOrTouch(n)
    \/ RunClose

Step == PollAny \/ PollHeld \/ Command
User == \E k \in Keys \cup {ShiftKey} : Press(k) \/ Release(k)
Next == User \/ Step

\* Nobody takes the processor from the shell, and programs it starts come back.
Spec == Init /\ [][Next]_vars
FairSpec == Spec /\ WF_vars(Step)
-----------------------------------------------------------------------------
(***************************************************************************)
(* Safety                                                                  *)
(***************************************************************************)

TypeOK ==
    /\ letter_pressed \in [Indices -> BOOLEAN]
    /\ key_pressing \in BOOLEAN
    /\ cur_key \in {-1} \cup (Indices \ {ShiftKey})
                        \cup {i + Shifted : i \in Indices \ {ShiftKey}}
    /\ input_str \in Seq(Kinds)
    /\ pc \in {"loop", "command", "echo", "cat", "cat >", "run"}
    /\ {fp, fp_out} \subseteq Fcbs
    /\ left \in -1 .. MaxRead
    /\ fcb_inode_offset \in [Fcbs -> Names \cup {Closed}]
    /\ fcb_link \in [Fcbs -> Fcbs \cup {Null}]
    /\ fcb_free_list \in Fcbs \cup {Null}

\* A line that is being carried out ends with a newline, and has no other; a line
\* that is being typed has none: the commands, which read on until they meet
\* one, meet it, and at the end of the line.
NewlineEnds ==
    /\ pc # "loop" => input_str # <<>> /\ input_str[Len(input_str)] = "newline"
    /\ \A i \in DOMAIN input_str :
          input_str[i] = "newline" => pc # "loop" /\ i = Len(input_str)

\* Whatever the commands did and however their opens failed, at the prompt every
\* control block of the table is closed.
PromptClosed ==
    pc = "loop" => \A x \in Fcbs \ {-1} : fcb_inode_offset[x] = Closed

\* Until an open fails the free list is as long as the table at every prompt, and
\* fcbs[-1] is not on it.
NthFree ==
    LET n[k \in 0 .. NFCB] ==
            IF k = 0 THEN fcb_free_list
            ELSE IF n[k - 1] = Null THEN Null ELSE fcb_link[n[k - 1]]
    IN n
ListWhole ==
    pc = "loop" /\ ~failed =>
        /\ {NthFree[k] : k \in 0 .. NFCB - 1} = Fcbs \ {-1}
        /\ NthFree[NFCB] = Null
-----------------------------------------------------------------------------
(***************************************************************************)
(* What a step may never do                                                *)
(***************************************************************************)

\* A key is entered once for each time it is pressed, however long it is held,
\* with or without Shift, and whatever else is pressed meanwhile.
OncePerPress ==
    [][Len(input_str') > Len(input_str) =>
          (IF cur_key' >= Shifted THEN cur_key' - Shifted ELSE cur_key') \in fresh]_vars

\* "The file does not exist!", say run and touch.
DeniedMissing == denied \notin Stored
-----------------------------------------------------------------------------
(***************************************************************************)
(* Liveness                                                                *)
(***************************************************************************)

Only(k) == Down = {k}
Waiting(k) == key_pressing /\ cur_key \in {k, k + Shifted}

\* A key that is held, and no other, is entered if there is room, except one that
\* was pressed again before the loop saw it released: that press is lost.
KeyEntered ==
    \A k \in Keys :
        Only(k) /\ k \in fresh /\ ~Waiting(k)
            ~> k \notin fresh \/ ~Only(k) \/ Len(input_str) = MaxLine

\* Every command comes to an end, whatever it could not open: cat gets through its
\* files one by one, if each has an end (CatNext).
CommandsEnd == pc # "loop" ~> pc = "loop"
=============================================================================
