----------------------------- MODULE IntelChip -----------------------------
(***************************************************************************)
(* The command automaton of an Intel flash chip, as flash_intel16.c uses   *)
(* it: what a write to the chip makes of its state. The chip takes its     *)
(* commands one after another, works on its own once one is confirmed      *)
(* (working, busy), and from the first command on its reads give the       *)
(* status register until it is told to show the array again. mode is what  *)
(* it takes the next write for; misuse remembers that it was given what it *)
(* does not take. Its blocks are locked when the power comes up.           *)
(***************************************************************************)
EXTENDS NorFlash

NoOp == [erase |-> FALSE, at |-> 0, words |-> << >>]

PowerUp == [mode |-> "array", busy |-> NoOp, working |-> FALSE, err |-> FALSE,
            misuse |-> FALSE, unlocked |-> {}, at |-> 0, left |-> 0, words |-> << >>]

(* A locked block refuses the operation and sets an error bit.             *)
Begin(s, erase, a, ws) ==
  IF a \in s.unlocked
  THEN [s EXCEPT !.mode = "status", !.working = TRUE,
                 !.busy = [erase |-> erase, at |-> a, words |-> ws]]
  ELSE [s EXCEPT !.mode = "status", !.err = TRUE]

Refuse(s) == [s EXCEPT !.misuse = TRUE, !.err = TRUE, !.mode = "status"]

SetupMode == [erase |-> "erase", write |-> "word", lock |-> "lock", buffer |-> "count"]

(* Between two operations it shows the array, the status register or its   *)
(* identification and protection registers.                                *)
ShowMode == [read |-> "array", id |-> "id"]
Shows(s) == s.mode \in {"array", "status", "id"}

AfterCommand(s, a, c) ==
  CASE s.working -> [s EXCEPT !.misuse = TRUE]
    [] ~s.working /\ s.mode = "erase" /\ c = "confirm" -> Begin(s, TRUE, a, << >>)
    [] ~s.working /\ s.mode = "lock" /\ c = "confirm" ->
         [s EXCEPT !.mode = "status", !.unlocked = @ \cup Block(a)]
    [] ~s.working /\ s.mode = "confirm" /\ c = "confirm" -> Begin(s, FALSE, s.at, s.words)
    [] ~s.working /\ Shows(s) /\ c \in DOMAIN ShowMode -> [s EXCEPT !.mode = ShowMode[c]]
    [] ~s.working /\ Shows(s) /\ c = "clear" -> [s EXCEPT !.err = FALSE]
    [] ~s.working /\ Shows(s) /\ c \in DOMAIN SetupMode -> [s EXCEPT !.mode = SetupMode[c]]
    [] OTHER -> Refuse(s)

AfterCount(s, n) ==
  IF ~s.working /\ s.mode = "count"
  THEN [s EXCEPT !.mode = "load", !.left = n, !.words = << >>] ELSE Refuse(s)

AfterWord(s, a, w) ==
  CASE ~s.working /\ s.mode = "word" -> Begin(s, FALSE, a, <<w>>)
    [] ~s.working /\ s.mode = "load" ->
         [s EXCEPT !.at = IF s.words = << >> THEN a ELSE @, !.words = Append(@, w),
                   !.left = @ - 1, !.mode = IF s.left = 1 THEN "confirm" ELSE "load"]
    [] OTHER -> Refuse(s)
=============================================================================
