-------------------------------- MODULE Kbd --------------------------------
(***************************************************************************)
(* The keyboard driver (kbd.c).  A key sends a byte when it goes down and  *)
(* one when it goes up, some keys with 0xE0 before it; each interrupt      *)
(* takes a byte and kbdgetc() keeps the modifiers in shift.                *)
(***************************************************************************)
EXTENDS Naturals, Sequences

CONSTANT KBDQ     \* the bytes that the controller holds

VARIABLES
  shift,      \* the bits that are set
  c,          \* the last letter: "lower", "upper" or "ctl"
  bytes,      \* not read yet: [code, up]
  on, want    \* history: modifiers by the last event of their keys, and the letter

kbdvars == <<shift, c, bytes, on, want>>

\* "pad" sends the code of the left shift after 0xE0, as arrow keys do.
Keys == {"shift", "ctl", "rctl", "caps", "a", "pad"}
Extended == {"rctl", "pad"}
Code(k) == CASE k = "rctl" -> "ctl" [] k = "pad" -> "shift" [] OTHER -> k
E0 == [code |-> "E0", up |-> FALSE]

\* shiftcode and togglecode, of a code with or without 0x80.
shiftcode(code, high) ==
  CASE code = "ctl" -> {"CTL"}
    [] code = "shift" /\ ~high -> {"SHIFT"}
    [] OTHER -> {}
togglecode(code, high) == IF code = "caps" /\ ~high THEN {"CAPSLOCK"} ELSE {}

Flip(S, T) == (S \ T) \cup (T \ S)
Letter(S) ==
  IF "CTL" \in S THEN "ctl"
  ELSE IF ("SHIFT" \in S) # ("CAPSLOCK" \in S) THEN "upper" ELSE "lower"

KbdInit == shift = {} /\ c = "lower" /\ bytes = <<>> /\ on = {} /\ want = "lower"

Key(k, up) ==
  LET bits == shiftcode(Code(k), k \in Extended)
      now == IF up THEN on \ bits ELSE Flip(on \cup bits, togglecode(Code(k), FALSE))
  IN  /\ Len(bytes) + 2 <= KBDQ
      /\ bytes' = bytes \o (IF k \in Extended THEN <<E0>> ELSE <<>>) \o <<[code |-> Code(k), up |-> up]>>
      /\ on' = now
      /\ want' = IF k = "a" /\ ~up THEN Letter(now) ELSE want
      /\ UNCHANGED <<shift, c>>

\* Mutant: a released key has no 0x80.
High_Never == FALSE

\* The byte before was 0xE0.
High == "E0ESC" \in shift

kbdgetc ==
  LET d == Head(bytes)
      s1 == Flip((shift \ {"E0ESC"}) \cup shiftcode(d.code, High), togglecode(d.code, High))
  IN  /\ bytes # <<>>
      /\ bytes' = Tail(bytes)
      /\ IF d = E0 THEN shift' = shift \cup {"E0ESC"} /\ UNCHANGED c
         ELSE IF d.up
         THEN shift' = shift \ (shiftcode(d.code, High) \cup {"E0ESC"}) /\ UNCHANGED c
         ELSE shift' = s1 /\ c' = IF d.code = "a" THEN Letter(s1) ELSE c
      /\ UNCHANGED <<on, want>>

KbdNext == kbdgetc \/ \E k \in Keys, up \in BOOLEAN : Key(k, up)

-----------------------------------------------------------------------------
\* Once the bytes are read, a modifier is set exactly if the last event of one
\* of its keys was a press, caps lock if it was pressed an odd number of times,
\* and the last letter had the case these gave it: no byte is taken for the
\* second half of another, and the codes of the pad do not touch shift.
ModifiersFollow == bytes = <<>> => shift = on /\ c = want
=============================================================================
