------------------------------ MODULE AmdChip ------------------------------
(***************************************************************************)
(* The command automaton of an AMD flash chip, as flash_amd16.c uses it:   *)
(* every command follows two unlock cycles, and the chip shows the array   *)
(* again on its own when it has carried one out. While it works, bit 7 of  *)
(* what it shows is the complement of the bit it is writing (DQ7 polling). *)
(* A buffer is written to one page: the words of a page that are loaded.   *)
(***************************************************************************)
EXTENDS NorFlash

CONSTANT BufferWords          \* words in a page of the write buffer

NoOp == [erase |-> FALSE, at |-> 0, words |-> << >>]

PowerUp == [mode |-> "array", working |-> FALSE, busy |-> NoOp, misuse |-> FALSE,
            at |-> 0, left |-> 0, words |-> << >>]

Begin(s, erase, a, ws) ==
  [s EXCEPT !.mode = "array", !.working = TRUE,
            !.busy = [erase |-> erase, at |-> a, words |-> ws]]

Refuse(s) == [s EXCEPT !.misuse = TRUE, !.mode = IF s.working THEN "array" ELSE "abort"]

(* The two unlock cycles.                                                  *)
Unlocked == [array |-> "unlocked", erase |-> "erase_unlocked", otp |-> "otp_unlocked"]

AfterUnlock(s) ==
  IF s.working \/ s.mode \notin DOMAIN Unlocked THEN Refuse(s)
  ELSE [s EXCEPT !.mode = Unlocked[s.mode]]

(* The last two show the secured sector and the identification registers   *)
(* instead of the array; only "id" leaves the secured sector again.        *)
Setup == [setup_erase |-> "erase", setup_write |-> "word", buffer |-> "count",
          otp |-> "otp", id |-> "id"]

AfterCommand(s, a, c) ==
  CASE s.working -> Refuse(s)
    [] ~s.working /\ c = "read" -> [s EXCEPT !.mode = IF @ = "otp" THEN "otp" ELSE "array"]
    [] ~s.working /\ s.mode = "unlocked" /\ c \in DOMAIN Setup -> [s EXCEPT !.mode = Setup[c]]
    [] ~s.working /\ s.mode = "otp_unlocked" /\ c = "id" -> [s EXCEPT !.mode = "id"]
    [] ~s.working /\ s.mode = "erase_unlocked" /\ c = "sector" -> Begin(s, TRUE, a, << >>)
    [] ~s.working /\ s.mode = "confirm" /\ c = "confirm" -> Begin(s, FALSE, s.at, s.words)
    [] OTHER -> Refuse(s)

AfterCount(s, n) ==
  IF ~s.working /\ s.mode = "count"
  THEN [s EXCEPT !.mode = "load", !.left = n, !.words = << >>] ELSE Refuse(s)

AfterWord(s, a, w) ==
  CASE ~s.working /\ s.mode = "word" -> Begin(s, FALSE, a, <<w>>)
    [] ~s.working /\ s.mode = "load"
         /\ (s.words = << >> \/ a \div BufferWords = s.at \div BufferWords) ->
         [s EXCEPT !.at = IF s.words = << >> THEN a ELSE @, !.words = Append(@, w),
                   !.left = @ - 1, !.mode = IF s.left = 1 THEN "confirm" ELSE "load"]
    [] OTHER -> Refuse(s)

DQ7 == 7

(* Bit 7 of what a read of address a gives, m being the array.             *)
ShownDQ7(s, m, a) ==
  IF s.working
  THEN ~s.busy.erase /\ DQ7 \notin s.busy.words[Len(s.busy.words)]
  ELSE DQ7 \in m[a]
=============================================================================
