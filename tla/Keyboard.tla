------------------------------ MODULE Keyboard ------------------------------
(***************************************************************************)
(* kbdgetc (kbd.c): the modifiers that it keeps from the bytes of the      *)
(* keyboard.  A key sends its code when it is pressed, and the code with   *)
(* the high bit when it is released; some keys send E0 before it.  Which   *)
(* character a key stands for is left to the tables of kbd.h.              *)
(***************************************************************************)
EXTENDS Integers, Sequences, FiniteSets

CONSTANTS
  Keys,  \* <<code, escaped>>: the keys, and whether they send E0 first
  Ahead  \* the bytes that the controller keeps

VARIABLES
  shift,  \* the flags
  down,   \* the keys that are held down
  wire    \* what was sent and not read yet

kbdVars == <<shift, down, wire>>

\* The tables are indexed by the code, with the high bit for an escaped key.
shiftcode(key) ==
  CASE key \in {<<"1D", TRUE>>, <<"1D", FALSE>>} -> {"CTL"}
    [] key \in {<<"38", TRUE>>, <<"38", FALSE>>} -> {"ALT"}
    [] key \in {<<"2A", FALSE>>, <<"36", FALSE>>} -> {"SHIFT"}
    [] OTHER -> {}
togglecode(key) ==
  CASE key = <<"3A", FALSE>> -> {"CAPSLOCK"}
    [] key = <<"45", FALSE>> -> {"NUMLOCK"}
    [] key = <<"46", FALSE>> -> {"SCROLLLOCK"}
    [] OTHER -> {}

KbdInit == shift = {} /\ down = {} /\ wire = <<>>

\* A key is pressed or released (the keyboard).
Hit(key) ==
  LET byte == [code |-> key[1], up |-> key \in down]
      bytes == IF key[2] THEN <<[code |-> "E0", up |-> FALSE], byte>> ELSE <<byte>>
  IN /\ Len(wire) + Len(bytes) <= Ahead
     /\ wire' = wire \o bytes
     /\ down' = IF key \in down THEN down \ {key} ELSE down \cup {key}
     /\ UNCHANGED shift

Released(code) == shift \ (shiftcode(<<code, "E0ESC" \in shift>>) \cup {"E0ESC"})

Pressed(code) ==
  LET key == <<code, "E0ESC" \in shift>>
      held == (shift \ {"E0ESC"}) \cup shiftcode(key)
  IN (held \ togglecode(key)) \cup (togglecode(key) \ held)

\* kbdgetc, for a byte that is there.
Kbdgetc ==
  /\ wire # <<>>
  /\ wire' = Tail(wire)
  /\ LET b == Head(wire)
     IN shift' = IF b.code = "E0" THEN shift \cup {"E0ESC"}
                 ELSE IF b.up THEN Released(b.code) ELSE Pressed(b.code)
  /\ UNCHANGED down

KbdNext == Kbdgetc \/ \E key \in Keys : Hit(key)

-----------------------------------------------------------------------------
(* Properties.                                                             *)

KeysOf(flag) == {key \in Keys : flag \in shiftcode(key)}

\* No modifier and no escape stays behind: once all was read a flag is on
\* only if a key for it is down, and it is on if the only key for it is,
\* whatever other keys with the same code do (kbd.c:20-35).
Modifiers ==
  wire = <<>> =>
    /\ "E0ESC" \notin shift
    /\ \A flag \in {"SHIFT", "CTL", "ALT"} :
         /\ flag \in shift => KeysOf(flag) \cap down # {}
         /\ Cardinality(KeysOf(flag)) = 1 /\ KeysOf(flag) \subseteq down => flag \in shift
=============================================================================
