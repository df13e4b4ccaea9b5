------------------------------ MODULE KeyLayout ------------------------------
(***************************************************************************)
(* How a stored password becomes text on the computer: printf formats it,  *)
(* write(buffer, size) writes its characters, write(chr) looks each up in  *)
(* the table of the French layout (KeyLayouts.h) and reports a key and its *)
(* modifiers, and a computer with a French keyboard shows what they stand  *)
(* for.  Characters and keys are their numbers, in the code's encoding.    *)
(*                                                                         *)
(* Outside src/: the formatting of printf, and the computer's own layout.  *)
(***************************************************************************)
EXTENDS Integers, Sequences, SequencesExt, FiniteSets

CONSTANTS Passwords,    \* the stored passwords
          StrayOutput,  \* what printf may make of a conversion that has no argument
          BeyondTable   \* what may lie in the flash behind the table

Byte == 0 .. 255
Character == Byte \ {0}  \* of a C string

ASSUME LayoutAssumption ==
  /\ Passwords \subseteq Seq(Character) /\ StrayOutput \subseteq Seq(Character)
  /\ BeyondTable \subseteq Byte

VARIABLES password,
          text,     \* what write(buffer, size) still has to write
          typing,   \* printf has formatted the password
          screen,   \* what the computer shows
          deadKey   \* the accent that waits for its letter on the computer, or 0

vars == <<password, text, typing, screen, deadKey>>

(***************************************************************************)
(* The table.  A keycode is a key, or'ed with SHIFT_MASK or ALTGR_MASK.    *)
(***************************************************************************)
SHIFT_MASK == 64
ALTGR_MASK == 128
RCTRL_MASK == 2048
M(n) == n % 2048              \* n & KEYCODE_MASK
KEY_CODES == 15 * 4096        \* or'ed into every KEY_... constant
KEY_BACKSPACE == 42
KEY_TAB == 43
KEY_ENTER == 40
KEY_SPACE == 44
KEY_NON_US_BS == 100
GRAVE_ACCENT_BITS == 512
TILDE_BITS == 1024
S(key) == key + SHIFT_MASK
G(key) == key + ALTGR_MASK

\* keycodes_ascii, from ASCII_20 on, eight to a line.
keycodes_ascii == <<
  KEY_SPACE, 56, 32, G(32), 48, S(52), 30, 33,
  34, 45, 49, S(46), 16, 35, S(54), S(55),
  S(39), S(30), S(31), S(32), S(33), S(34), S(35), S(36),
  S(37), S(38), 55, 54, KEY_NON_US_BS, 46, S(KEY_NON_US_BS), S(16),
  G(39), S(20), S(5), S(6), S(7), S(8), S(9), S(10),
  S(11), S(12), S(13), S(14), S(15), S(51), S(17), S(18),
  S(19), S(4), S(21), S(22), S(23), S(24), S(25), S(29),
  S(27), S(28), S(26), G(34), G(37), G(45), G(38), 37,
  GRAVE_ACCENT_BITS + KEY_SPACE, 20, 5, 6, 7, 8, 9, 10,
  11, 12, 13, 14, 15, 51, 17, 18,
  19, 4, 21, 22, 23, 24, 25, 29,
  27, 28, 26, G(33), G(35), G(46), TILDE_BITS + KEY_SPACE, KEY_BACKSPACE >>

Bit(keycode, mask) == (keycode \div mask) % 2 = 1

\* Mutant of keycode_to_modifier: AltGr is tested with the mask of shift too.
MutKeycodeToModifier(keycode) ==
  IF Bit(keycode, SHIFT_MASK) THEN {"shift", "altgr"} ELSE {}
keycode_to_modifier(keycode) ==
  (IF Bit(keycode, SHIFT_MASK) THEN {"shift"} ELSE {}) \cup
  (IF Bit(keycode, ALTGR_MASK) THEN {"altgr"} ELSE {}) \cup
  (IF Bit(keycode, RCTRL_MASK) THEN {"rctrl"} ELSE {})

\* Mutant of keycode_to_key: the modifiers are left in the key.
MutKeycodeToKey(keycode) == keycode % 128
\* Six bits of the keycode; the exception names the key with its KEY_CODES.
keycode_to_key(keycode) ==
  IF keycode = KEY_NON_US_BS + KEY_CODES THEN keycode % 256 ELSE keycode % 64

\* The byte that write(chr) reads for a character: the low one of the keycode.
KeyData(chr) ==
  CASE chr = 9   -> {KEY_TAB}
    [] chr = 10  -> {KEY_ENTER}
    [] chr < 32 /\ chr \notin {9, 10} -> {0}
    [] chr \in 32 .. 127 -> {M(keycodes_ascii[chr - 31]) % 256}
    [] chr > 127 -> BeyondTable

(***************************************************************************)
(* A computer with a French keyboard.  A key shows a character, holds an   *)
(* accent back for the next one (Accents), or shows nothing (0).           *)
(***************************************************************************)
Plain == [key \in 4 .. 29 |->
  << 113, 98, 99, 100, 101, 102, 103, 104, 105, 106, 107, 108, 44, 110, 111, 112,
     97, 114, 115, 116, 117, 118, 122, 120, 121, 119 >>[key - 3]]
Digits == << 38, 233, 34, 39, 40, 45, 232, 95, 231, 224 >>      \* the keys 1 to 0
DigitsAltGr == << 0, 126, 35, 123, 91, 124, 96, 92, 94, 64 >>
Others ==  \* plain, shifted and AltGr characters of the keys that follow
  << <<10, 10, 0>>, <<0, 0, 0>>, <<8, 8, 0>>, <<9, 9, 0>>, <<32, 32, 0>>,
     <<41, 176, 93>>, <<61, 43, 125>>, <<94, 168, 0>>, <<36, 163, 164>>,
     <<42, 181, 0>>, <<42, 181, 0>>, <<109, 77, 0>>, <<249, 37, 0>>, <<178, 0, 0>>,
     <<59, 46, 0>>, <<58, 47, 0>>, <<33, 167, 0>> >>

Shown(key, modifiers) ==
  LET level == IF "altgr" \in modifiers THEN 3 ELSE IF "shift" \in modifiers THEN 2 ELSE 1
  IN  CASE key = 16 -> <<44, 63, 0>>[level]
        [] key \in 4 .. 29 \ {16} -> <<Plain[key], Plain[key] - 32, 0>>[level]
        [] key \in 30 .. 39 -> <<Digits[key - 29], 48 + ((key - 29) % 10), DigitsAltGr[key - 29]>>[level]
        [] key \in 40 .. 56 -> Others[key - 39][level]
        [] key = KEY_NON_US_BS -> <<60, 62, 0>>[level]
        [] OTHER -> 0

IsAccent(key, modifiers) ==
  key = 47 \/ ("altgr" \in modifiers /\ key \in {31, 36})

\* The character for an accent and the letter after it; a space gives the accent.
Composed(accent, chr) == IF chr = 32 THEN accent ELSE 256 * accent + chr
\* What the screen shows: characters, alone or under an accent.
OnScreen == Character \cup {Composed(accent, chr) : accent, chr \in Character}

(***************************************************************************)
(* The steps.                                                              *)
(***************************************************************************)
Percent == 37
Init ==
  /\ password \in Passwords
  /\ text = <<>> /\ typing = FALSE
  /\ screen = <<>> /\ deadKey = 0

\* What printf makes of a format from character n on.  A doubled percent sign
\* stands for itself; another one begins a conversion, which takes some of the
\* characters that follow and has no argument to convert.
Formats(format) ==
  LET Rest[n \in 1 .. Len(format) + 1] ==
        IF n > Len(format) THEN {<<>>}
        ELSE IF format[n] # Percent THEN {<<format[n]>> \o rest : rest \in Rest[n + 1]}
        ELSE IF n < Len(format) /\ format[n + 1] = Percent
        THEN {<<Percent>> \o rest : rest \in Rest[n + 2]}
        ELSE {stray \o rest : stray \in StrayOutput,
                              rest \in UNION {Rest[m] : m \in n + 1 .. Len(format) + 1}}
  IN  Rest[1]

\* Mutant of Printf: the null at the end of the text is written too.
MutPrintf ==
  /\ ~typing /\ typing' = TRUE
  /\ text' \in {Append(formatted, 0) : formatted \in Formats(password)}
  /\ UNCHANGED <<password, screen, deadKey>>
\* Button A: printf(passwordSequence.c_str()).
Printf ==
  /\ ~typing /\ typing' = TRUE
  /\ text' \in Formats(password)
  /\ UNCHANGED <<password, screen, deadKey>>

\* What a report does on the computer.
Press(key, modifiers) ==
  LET chr == Shown(key, modifiers)
  IN  \/ chr = 0 /\ UNCHANGED <<screen, deadKey>>
      \/ /\ IsAccent(key, modifiers) /\ deadKey = 0 /\ chr # 0
         /\ deadKey' = chr /\ UNCHANGED screen
      \/ /\ IsAccent(key, modifiers) /\ deadKey # 0 /\ chr # 0
         /\ screen' = screen \o <<deadKey, chr>> /\ deadKey' = 0
      \/ /\ key = KEY_BACKSPACE /\ deadKey' = 0
         /\ screen' = IF deadKey = 0 /\ screen # <<>> THEN Front(screen) ELSE screen
      \/ /\ ~IsAccent(key, modifiers) /\ chr # 0 /\ key # KEY_BACKSPACE
         /\ screen' = Append(screen, IF deadKey = 0 THEN chr ELSE Composed(deadKey, chr))
         /\ deadKey' = 0

\* write(chr), for a character other than '\r'; a null keycode types nothing.
Write ==
  /\ typing /\ text # <<>> /\ text' = Tail(text)
  /\ \/ /\ Head(text) = 13
        /\ UNCHANGED <<screen, deadKey>>
     \/ /\ Head(text) # 13
        /\ \E data \in KeyData(Head(text)) :
             \/ data = 0 /\ UNCHANGED <<screen, deadKey>>
             \/ /\ data # 0
                /\ Press(keycode_to_key(data), keycode_to_modifier(data))
  /\ UNCHANGED <<password, typing>>

Next == Printf \/ Write

Spec == Init /\ [][Next]_vars

(***************************************************************************)
(* Properties                                                              *)
(***************************************************************************)
Typed == typing /\ text = <<>>
Printable == 32 .. 126
Unfaithful == {60, 62, 96, 126, Percent}  \* < > ` ~ and the percent sign
Faithful == Printable \ Unfaithful

TypeOK ==
  /\ password \in Seq(Character) /\ text \in Seq(Character)
  /\ typing \in BOOLEAN /\ screen \in Seq(OnScreen) /\ deadKey \in Byte

\* The table, the masks and the computer's layout are each other's inverse: a
\* password of printable characters, but for the five of the findings, is on
\* the screen as it was stored, and leaves no accent behind.
TypedAsStored ==
  Typed /\ ToSet(password) \subseteq Faithful => screen = password /\ deadKey = 0

\* A character of the table never spoils its neighbours: without the five
\* characters, whatever else the password holds, no accent is left to fall on a
\* later letter, and there is no more on the screen than was stored.
NoStrayAccent ==
  Typed /\ ToSet(password) \cap Unfaithful = {}
        /\ ToSet(password) \subseteq 1 .. 127
    => deadKey = 0 /\ Len(screen) <= Len(password)

(***************************************************************************)
(* What the documents say and the code does not do.                        *)
(***************************************************************************)

\* KeyLayouts.h names the character of every keycode of the table, such as
\* "ASCII_3C KEY_NON_US_BS // 60 <" and "ASCII_7E TILDE_BITS + KEY_SPACE // 126 ~":
\* the characters of the table are typed as themselves.
TypesTable ==
  Typed /\ ToSet(password) \subseteq Printable \ {Percent} => screen = password

\* Readme.md: the device emulates a keyboard "to type a username and password
\* automatically".  What is typed is what was stored, percent signs included.
TypesPercent ==
  Typed /\ ToSet(password) \subseteq Faithful \cup {Percent} => screen = password
=============================================================================
