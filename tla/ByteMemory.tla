----------------------------- MODULE ByteMemory -----------------------------
(***************************************************************************)
(* Buffers of bytes addressed by index, as the loader uses them: a C array *)
(* is a function from 0 .. n-1 to bytes. The arrays of the models are      *)
(* longer than the C arrays they stand for, so that an access past the end *)
(* of the C array is a value an invariant can see and not an evaluation    *)
(* error; past the model's own end a read yields NUL and a write is lost.  *)
(***************************************************************************)
EXTENDS Integers, Sequences, FiniteSetsExt

NUL == 0     \* platform.h:53
STX == 2     \* platform.h:54
ETX == 3     \* platform.h:55
RS  == 30    \* platform.h:56

U8(x) == x % 256

At(mem, k) == IF k \in DOMAIN mem THEN mem[k] ELSE NUL

(* The bytes mem[from], ..., mem[to - 1], as a sequence.                   *)
Slice(mem, from, to) == [k \in 1 .. (to - from) |-> At(mem, from + k - 1)]

(* The memory after the bytes of s are stored from index `at` on.          *)
Store(mem, at, s) ==
  [k \in DOMAIN mem |-> IF k \in at .. (at + Len(s) - 1) THEN s[k - at + 1]
                                                          ELSE mem[k]]

(* The first index from `from` on that holds a byte of B (the end of the   *)
(* memory when there is none).                                             *)
FirstIn(mem, from, B) ==
  Min({k \in DOMAIN mem : k >= from /\ mem[k] \in B} \cup {Max(DOMAIN mem) + 1})

(* The C string that starts at index 0: the bytes before the first NUL.    *)
CString(mem) == Slice(mem, 0, FirstIn(mem, 0, {NUL}))
=============================================================================
