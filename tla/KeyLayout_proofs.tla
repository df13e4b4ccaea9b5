---------------------------- MODULE KeyLayout_proofs ----------------------------
(***************************************************************************)
(* Every stored password, of any length: the table of the French layout    *)
(* and a computer with a French keyboard undo each other, character for    *)
(* character, and no accent is left to fall on a neighbour.                *)
(***************************************************************************)
EXTENDS KeyLayout, SequenceTheorems, WellFoundedInduction, TLAPS

(***************************************************************************)
(* The table.                                                              *)
(***************************************************************************)

\* The byte the table has for a character: its key, or'ed with the masks of shift and
\* AltGr.
Keycode(chr) == M(keycodes_ascii[chr - 31]) % 256

LEMMA TableOfSigns ==
  /\ Keycode(32) = 44 /\ Keycode(33) = 56 /\ Keycode(34) = 32 /\ Keycode(35) = G(32)
  /\ Keycode(36) = 48 /\ Keycode(37) = S(52) /\ Keycode(38) = 30 /\ Keycode(39) = 33
  /\ Keycode(40) = 34 /\ Keycode(41) = 45 /\ Keycode(42) = 49 /\ Keycode(43) = S(46)
  /\ Keycode(44) = 16 /\ Keycode(45) = 35 /\ Keycode(46) = S(54) /\ Keycode(47) = S(55)
  /\ Keycode(48) = S(39) /\ Keycode(49) = S(30) /\ Keycode(50) = S(31) /\ Keycode(51) = S(32)
  /\ Keycode(52) = S(33) /\ Keycode(53) = S(34) /\ Keycode(54) = S(35) /\ Keycode(55) = S(36)
  /\ Keycode(56) = S(37) /\ Keycode(57) = S(38) /\ Keycode(58) = 55 /\ Keycode(59) = 54
  /\ Keycode(60) = S(36) /\ Keycode(61) = 46 /\ Keycode(62) = G(36) /\ Keycode(63) = S(16)
  BY DEF Keycode, M, keycodes_ascii, S, G, SHIFT_MASK, ALTGR_MASK, KEY_SPACE, KEY_NON_US_BS,
         KEY_BACKSPACE, GRAVE_ACCENT_BITS, TILDE_BITS

LEMMA TableOfCapitals ==
  /\ Keycode(64) = G(39) /\ Keycode(65) = S(20) /\ Keycode(66) = S(5) /\ Keycode(67) = S(6)
  /\ Keycode(68) = S(7) /\ Keycode(69) = S(8) /\ Keycode(70) = S(9) /\ Keycode(71) = S(10)
  /\ Keycode(72) = S(11) /\ Keycode(73) = S(12) /\ Keycode(74) = S(13) /\ Keycode(75) = S(14)
  /\ Keycode(76) = S(15) /\ Keycode(77) = S(51) /\ Keycode(78) = S(17) /\ Keycode(79) = S(18)
  /\ Keycode(80) = S(19) /\ Keycode(81) = S(4) /\ Keycode(82) = S(21) /\ Keycode(83) = S(22)
  /\ Keycode(84) = S(23) /\ Keycode(85) = S(24) /\ Keycode(86) = S(25) /\ Keycode(87) = S(29)
  /\ Keycode(88) = S(27) /\ Keycode(89) = S(28) /\ Keycode(90) = S(26) /\ Keycode(91) = G(34)
  /\ Keycode(92) = G(37) /\ Keycode(93) = G(45) /\ Keycode(94) = G(38) /\ Keycode(95) = 37
  BY DEF Keycode, M, keycodes_ascii, S, G, SHIFT_MASK, ALTGR_MASK, KEY_SPACE, KEY_NON_US_BS,
         KEY_BACKSPACE, GRAVE_ACCENT_BITS, TILDE_BITS

LEMMA TableOfLetters ==
  /\ Keycode(96) = 44 /\ Keycode(97) = 20 /\ Keycode(98) = 5 /\ Keycode(99) = 6
  /\ Keycode(100) = 7 /\ Keycode(101) = 8 /\ Keycode(102) = 9 /\ Keycode(103) = 10
  /\ Keycode(104) = 11 /\ Keycode(105) = 12 /\ Keycode(106) = 13 /\ Keycode(107) = 14
  /\ Keycode(108) = 15 /\ Keycode(109) = 51 /\ Keycode(110) = 17 /\ Keycode(111) = 18
  /\ Keycode(112) = 19 /\ Keycode(113) = 4 /\ Keycode(114) = 21 /\ Keycode(115) = 22
  /\ Keycode(116) = 23 /\ Keycode(117) = 24 /\ Keycode(118) = 25 /\ Keycode(119) = 29
  /\ Keycode(120) = 27 /\ Keycode(121) = 28 /\ Keycode(122) = 26 /\ Keycode(123) = G(33)
  /\ Keycode(124) = G(35) /\ Keycode(125) = G(46) /\ Keycode(126) = 44 /\ Keycode(127) = 42
  BY DEF Keycode, M, keycodes_ascii, S, G, SHIFT_MASK, ALTGR_MASK, KEY_SPACE, KEY_NON_US_BS,
         KEY_BACKSPACE, GRAVE_ACCENT_BITS, TILDE_BITS

\* The key and the modifiers of a keycode.
LEMMA Parts ==
  ASSUME NEW key \in 0 .. 63
  PROVE  /\ keycode_to_key(key) = key /\ keycode_to_modifier(key) = {}
         /\ keycode_to_key(S(key)) = key /\ keycode_to_modifier(S(key)) = {"shift"}
         /\ keycode_to_key(G(key)) = key /\ keycode_to_modifier(G(key)) = {"altgr"}
  BY DEF keycode_to_key, keycode_to_modifier, Bit, KEY_NON_US_BS, KEY_CODES, S, G, SHIFT_MASK,
         ALTGR_MASK, RCTRL_MASK

\* What a computer with a French keyboard shows for a key: alone, ...
LEMMA PlainKeys ==
  /\ Shown(44, {}) = 32 /\ Shown(56, {}) = 33 /\ Shown(32, {}) = 34 /\ Shown(48, {}) = 36
  /\ Shown(30, {}) = 38 /\ Shown(33, {}) = 39 /\ Shown(34, {}) = 40 /\ Shown(45, {}) = 41
  /\ Shown(49, {}) = 42 /\ Shown(16, {}) = 44 /\ Shown(35, {}) = 45 /\ Shown(55, {}) = 58
  /\ Shown(54, {}) = 59 /\ Shown(46, {}) = 61 /\ Shown(37, {}) = 95 /\ Shown(20, {}) = 97
  /\ Shown(5, {}) = 98 /\ Shown(6, {}) = 99 /\ Shown(7, {}) = 100 /\ Shown(8, {}) = 101
  /\ Shown(9, {}) = 102 /\ Shown(10, {}) = 103 /\ Shown(11, {}) = 104 /\ Shown(12, {}) = 105
  /\ Shown(13, {}) = 106 /\ Shown(14, {}) = 107 /\ Shown(15, {}) = 108 /\ Shown(51, {}) = 109
  /\ Shown(17, {}) = 110 /\ Shown(18, {}) = 111 /\ Shown(19, {}) = 112 /\ Shown(4, {}) = 113
  /\ Shown(21, {}) = 114 /\ Shown(22, {}) = 115 /\ Shown(23, {}) = 116 /\ Shown(24, {}) = 117
  /\ Shown(25, {}) = 118 /\ Shown(29, {}) = 119 /\ Shown(27, {}) = 120 /\ Shown(28, {}) = 121
  /\ Shown(26, {}) = 122
  BY DEF Shown, Plain, Digits, DigitsAltGr, Others, KEY_NON_US_BS

\* ... with shift, ...
LEMMA ShiftedKeys ==
  /\ Shown(46, {"shift"}) = 43 /\ Shown(54, {"shift"}) = 46 /\ Shown(55, {"shift"}) = 47
  /\ Shown(39, {"shift"}) = 48 /\ Shown(30, {"shift"}) = 49 /\ Shown(31, {"shift"}) = 50
  /\ Shown(32, {"shift"}) = 51 /\ Shown(33, {"shift"}) = 52 /\ Shown(34, {"shift"}) = 53
  /\ Shown(35, {"shift"}) = 54 /\ Shown(36, {"shift"}) = 55 /\ Shown(37, {"shift"}) = 56
  /\ Shown(38, {"shift"}) = 57 /\ Shown(16, {"shift"}) = 63 /\ Shown(20, {"shift"}) = 65
  /\ Shown(5, {"shift"}) = 66 /\ Shown(6, {"shift"}) = 67 /\ Shown(7, {"shift"}) = 68
  /\ Shown(8, {"shift"}) = 69 /\ Shown(9, {"shift"}) = 70 /\ Shown(10, {"shift"}) = 71
  /\ Shown(11, {"shift"}) = 72 /\ Shown(12, {"shift"}) = 73 /\ Shown(13, {"shift"}) = 74
  /\ Shown(14, {"shift"}) = 75 /\ Shown(15, {"shift"}) = 76 /\ Shown(51, {"shift"}) = 77
  /\ Shown(17, {"shift"}) = 78 /\ Shown(18, {"shift"}) = 79 /\ Shown(19, {"shift"}) = 80
  /\ Shown(4, {"shift"}) = 81 /\ Shown(21, {"shift"}) = 82 /\ Shown(22, {"shift"}) = 83
  /\ Shown(23, {"shift"}) = 84 /\ Shown(24, {"shift"}) = 85 /\ Shown(25, {"shift"}) = 86
  /\ Shown(29, {"shift"}) = 87 /\ Shown(27, {"shift"}) = 88 /\ Shown(28, {"shift"}) = 89
  /\ Shown(26, {"shift"}) = 90
  BY DEF Shown, Plain, Digits, DigitsAltGr, Others, KEY_NON_US_BS

\* ... and with AltGr.
LEMMA AltGrKeys ==
  /\ Shown(32, {"altgr"}) = 35 /\ Shown(39, {"altgr"}) = 64 /\ Shown(34, {"altgr"}) = 91
  /\ Shown(37, {"altgr"}) = 92 /\ Shown(45, {"altgr"}) = 93 /\ Shown(38, {"altgr"}) = 94
  /\ Shown(33, {"altgr"}) = 123 /\ Shown(35, {"altgr"}) = 124 /\ Shown(46, {"altgr"}) = 125
  BY DEF Shown, Plain, Digits, DigitsAltGr, Others, KEY_NON_US_BS

\* A keycode that shows a character, with no accent and no character lost.
Shows(keycode, chr) ==
  LET key == keycode_to_key(keycode)
      modifiers == keycode_to_modifier(keycode)
  IN  /\ keycode # 0 /\ Shown(key, modifiers) = chr
      /\ ~IsAccent(key, modifiers) /\ key # KEY_BACKSPACE

\* All keys but the dead ones and the backspace do so.
LEMMA KeyShows ==
  ASSUME NEW key \in 1 .. 63 \ {42, 47}
  PROVE  /\ Shows(key, Shown(key, {})) /\ Shows(S(key), Shown(key, {"shift"}))
         /\ key \notin {31, 36} => Shows(G(key), Shown(key, {"altgr"}))
<1>1. S(key) # 0 /\ G(key) # 0 /\ key # 0
  BY DEF S, G, SHIFT_MASK, ALTGR_MASK
<1>2. /\ keycode_to_key(key) = key /\ keycode_to_modifier(key) = {}
      /\ keycode_to_key(S(key)) = key /\ keycode_to_modifier(S(key)) = {"shift"}
      /\ keycode_to_key(G(key)) = key /\ keycode_to_modifier(G(key)) = {"altgr"}
  BY Parts
<1>3. Shows(key, Shown(key, {}))
  BY <1>1, <1>2 DEF Shows, IsAccent, KEY_BACKSPACE
<1>4. Shows(S(key), Shown(key, {"shift"}))
  BY <1>1, <1>2 DEF Shows, IsAccent, KEY_BACKSPACE
<1>5. key \notin {31, 36} => Shows(G(key), Shown(key, {"altgr"}))
  BY <1>1, <1>2 DEF Shows, IsAccent, KEY_BACKSPACE
<1> QED  BY <1>3, <1>4, <1>5

\* So the table and the computer's layout are each other's inverse for the characters that
\* are typed faithfully.
LEMMA TableShows ==
  ASSUME NEW chr \in Faithful
  PROVE  KeyData(chr) = {Keycode(chr)} /\ Shows(Keycode(chr), chr)
<1>1. chr \in 32 .. 126 /\ chr \notin {37, 60, 62, 96, 126}
  BY DEF Faithful, Printable, Unfaithful, Percent
<1>2. KeyData(chr) = {Keycode(chr)}
  BY <1>1 DEF KeyData, Keycode
<1>3. /\ Shows(44, 32) /\ Shows(56, 33) /\ Shows(32, 34) /\ Shows(G(32), 35)
      /\ Shows(48, 36) /\ Shows(30, 38) /\ Shows(33, 39)
  BY KeyShows, PlainKeys, ShiftedKeys, AltGrKeys
<1>4. /\ Shows(34, 40) /\ Shows(45, 41) /\ Shows(49, 42) /\ Shows(S(46), 43)
      /\ Shows(16, 44) /\ Shows(35, 45) /\ Shows(S(54), 46) /\ Shows(S(55), 47)
  BY KeyShows, PlainKeys, ShiftedKeys, AltGrKeys
<1>5. /\ Shows(S(39), 48) /\ Shows(S(30), 49) /\ Shows(S(31), 50) /\ Shows(S(32), 51)
      /\ Shows(S(33), 52) /\ Shows(S(34), 53) /\ Shows(S(35), 54) /\ Shows(S(36), 55)
  BY KeyShows, PlainKeys, ShiftedKeys, AltGrKeys
<1>6. /\ Shows(S(37), 56) /\ Shows(S(38), 57) /\ Shows(55, 58) /\ Shows(54, 59)
      /\ Shows(46, 61) /\ Shows(S(16), 63)
  BY KeyShows, PlainKeys, ShiftedKeys, AltGrKeys
<1>7. /\ Shows(G(39), 64) /\ Shows(S(20), 65) /\ Shows(S(5), 66) /\ Shows(S(6), 67)
      /\ Shows(S(7), 68) /\ Shows(S(8), 69) /\ Shows(S(9), 70) /\ Shows(S(10), 71)
  BY KeyShows, PlainKeys, ShiftedKeys, AltGrKeys
<1>8. /\ Shows(S(11), 72) /\ Shows(S(12), 73) /\ Shows(S(13), 74) /\ Shows(S(14), 75)
      /\ Shows(S(15), 76) /\ Shows(S(51), 77) /\ Shows(S(17), 78) /\ Shows(S(18), 79)
  BY KeyShows, PlainKeys, ShiftedKeys, AltGrKeys
<1>9. /\ Shows(S(19), 80) /\ Shows(S(4), 81) /\ Shows(S(21), 82) /\ Shows(S(22), 83)
      /\ Shows(S(23), 84) /\ Shows(S(24), 85) /\ Shows(S(25), 86) /\ Shows(S(29), 87)
  BY KeyShows, PlainKeys, ShiftedKeys, AltGrKeys
<1>10. /\ Shows(S(27), 88) /\ Shows(S(28), 89) /\ Shows(S(26), 90) /\ Shows(G(34), 91)
      /\ Shows(G(37), 92) /\ Shows(G(45), 93) /\ Shows(G(38), 94) /\ Shows(37, 95)
  BY KeyShows, PlainKeys, ShiftedKeys, AltGrKeys
<1>11. /\ Shows(20, 97) /\ Shows(5, 98) /\ Shows(6, 99) /\ Shows(7, 100)
      /\ Shows(8, 101) /\ Shows(9, 102) /\ Shows(10, 103)
  BY KeyShows, PlainKeys, ShiftedKeys, AltGrKeys
<1>12. /\ Shows(11, 104) /\ Shows(12, 105) /\ Shows(13, 106) /\ Shows(14, 107)
      /\ Shows(15, 108) /\ Shows(51, 109) /\ Shows(17, 110) /\ Shows(18, 111)
  BY KeyShows, PlainKeys, ShiftedKeys, AltGrKeys
<1>13. /\ Shows(19, 112) /\ Shows(4, 113) /\ Shows(21, 114) /\ Shows(22, 115)
      /\ Shows(23, 116) /\ Shows(24, 117) /\ Shows(25, 118) /\ Shows(29, 119)
  BY KeyShows, PlainKeys, ShiftedKeys, AltGrKeys
<1>14. /\ Shows(27, 120) /\ Shows(28, 121) /\ Shows(26, 122) /\ Shows(G(33), 123)
      /\ Shows(G(35), 124) /\ Shows(G(46), 125)
  BY KeyShows, PlainKeys, ShiftedKeys, AltGrKeys
<1> QED  BY <1>1, <1>2, <1>3, <1>4, <1>5, <1>6, <1>7, <1>8, <1>9, <1>10, <1>11, <1>12, <1>13, <1>14,
             TableOfSigns, TableOfCapitals, TableOfLetters

\* Without the five characters of the findings, none of a password is an accent.
LEMMA HarmlessKeys ==
  ASSUME NEW chr \in 1 .. 127 \ Unfaithful, NEW data \in KeyData(chr), data # 0
  PROVE  ~IsAccent(keycode_to_key(data), keycode_to_modifier(data))
<1>1. CASE chr \in Faithful
  BY <1>1, TableShows DEF Shows
<1>2. CASE chr \notin Faithful
  <2>1. chr \in 1 .. 31 \/ chr = 127
    BY <1>2 DEF Faithful, Printable
  <2>2. data \in {KEY_TAB, KEY_ENTER, KEY_BACKSPACE}
    BY <2>1, TableOfLetters DEF KeyData, Keycode, KEY_BACKSPACE
  <2>3. data \in 0 .. 63 /\ data # 47
    BY <2>2 DEF KEY_TAB, KEY_ENTER, KEY_BACKSPACE
  <2>4. keycode_to_key(data) = data /\ keycode_to_modifier(data) = {}
    BY <2>3, Parts
  <2> QED  BY <2>3, <2>4 DEF IsAccent
<1> QED  BY <1>1, <1>2

(***************************************************************************)
(* The computer.                                                           *)
(***************************************************************************)

\* A keycode of a byte names one of 64 keys.
LEMMA KeyType ==
  ASSUME NEW data \in Byte
  PROVE  keycode_to_key(data) \in 0 .. 63
  BY DEF keycode_to_key, KEY_NON_US_BS, KEY_CODES, Byte

LEMMA DataType ==
  ASSUME NEW chr \in Character, NEW data \in KeyData(chr)
  PROVE  data \in Byte
<1>1. chr \in Nat
  BY DEF Character, Byte
<1>2. CASE chr \in 32 .. 127
  <2>1. keycodes_ascii[chr - 31] \in Nat
    BY <1>2 DEF keycodes_ascii, S, G, SHIFT_MASK, ALTGR_MASK, KEY_SPACE, KEY_NON_US_BS,
                KEY_BACKSPACE, GRAVE_ACCENT_BITS, TILDE_BITS
  <2>2. M(keycodes_ascii[chr - 31]) % 256 \in Byte
    BY <2>1 DEF M, Byte
  <2> QED  BY <1>2, <2>2 DEF KeyData
<1>3. CASE chr < 32
  <2>1. data \in {KEY_TAB, KEY_ENTER, 0}
    BY <1>1, <1>3 DEF KeyData
  <2> QED  BY <2>1 DEF KEY_TAB, KEY_ENTER, Byte
<1>4. CASE chr > 127
  <2>1. KeyData(chr) = BeyondTable
    BY <1>1, <1>4 DEF KeyData
  <2> QED  BY <2>1, LayoutAssumption
<1> QED  BY <1>1, <1>2, <1>3, <1>4

\* A key shows a character of a byte, or nothing.
LEMMA ShownType ==
  ASSUME NEW key \in 0 .. 63, NEW modifiers
  PROVE  Shown(key, modifiers) \in Byte
<1> DEFINE level == IF "altgr" \in modifiers THEN 3 ELSE IF "shift" \in modifiers THEN 2 ELSE 1
<1>1. level \in {1, 2, 3} /\ 0 \in Byte /\ key # KEY_NON_US_BS
  BY DEF KEY_NON_US_BS, Byte
<1>2. /\ key = 16 => key \notin 4 .. 29 \ {16} /\ key \notin 30 .. 39 /\ key \notin 40 .. 56
      /\ key \in 4 .. 29 \ {16} => key # 16 /\ key \notin 30 .. 39 /\ key \notin 40 .. 56
      /\ key \in 30 .. 39 => key # 16 /\ key \notin 4 .. 29 \ {16} /\ key \notin 40 .. 56
      /\ key \in 40 .. 56 => key # 16 /\ key \notin 4 .. 29 \ {16} /\ key \notin 30 .. 39
  OBVIOUS
<1>3. CASE key = 16
  <2>1. Shown(key, modifiers) = <<44, 63, 0>>[level]
    BY <1>1, <1>2, <1>3, Zenon DEF Shown
  <2>2. <<44, 63, 0>>[level] \in Byte
    BY <1>1 DEF Byte
  <2> QED  BY <2>1, <2>2
<1>4. CASE key \in 4 .. 29 \ {16}
  <2>1. Shown(key, modifiers) = <<Plain[key], Plain[key] - 32, 0>>[level]
    BY <1>1, <1>2, <1>4, Zenon DEF Shown
  <2>2. Plain[key] \in Byte /\ Plain[key] - 32 \in Byte
    BY <1>4 DEF Plain, Byte
  <2> HIDE DEF level
  <2>3. <<Plain[key], Plain[key] - 32, 0>>[level] \in Byte
    BY <1>1, <2>2
  <2> QED  BY <2>1, <2>3
<1>5. CASE key \in 30 .. 39
  <2> DEFINE digit == 48 + ((key - 29) % 10)
  <2>1. Shown(key, modifiers) = <<Digits[key - 29], digit, DigitsAltGr[key - 29]>>[level]
    BY <1>1, <1>2, <1>5, Zenon DEF Shown
  <2>2. Digits[key - 29] \in Byte /\ DigitsAltGr[key - 29] \in Byte /\ digit \in Byte
    BY <1>5 DEF Digits, DigitsAltGr, Byte
  <2> HIDE DEF level, digit
  <2>3. <<Digits[key - 29], digit, DigitsAltGr[key - 29]>>[level] \in Byte
    BY <1>1, <2>2
  <2> QED  BY <2>1, <2>3
<1>6. CASE key \in 40 .. 56
  <2>1. Shown(key, modifiers) = Others[key - 39][level]
    BY <1>1, <1>2, <1>6, Zenon DEF Shown
  <2> HIDE DEF level
  <2>2. Others[key - 39][level] \in Byte
    BY <1>1, <1>6 DEF Others, Byte
  <2> QED  BY <2>1, <2>2
<1>7. CASE key \notin 4 .. 56
  <2>1. key # 16 /\ key \notin 4 .. 29 \ {16} /\ key \notin 30 .. 39 /\ key \notin 40 .. 56
    BY <1>7
  <2>2. Shown(key, modifiers) = 0
    BY <1>1, <2>1, Zenon DEF Shown
  <2> QED  BY <1>1, <2>2
<1> QED  BY <1>3, <1>4, <1>5, <1>6, <1>7

\* A character less.
LEMMA FrontType ==
  ASSUME NEW T, NEW seq \in Seq(T), seq # <<>>
  PROVE  Front(seq) \in Seq(T) /\ Len(Front(seq)) = Len(seq) - 1
<1>1. Len(seq) \in Nat \ {0} /\ \A i \in 1 .. Len(seq) : seq[i] \in T
  BY EmptySeq, LenProperties, ElementOfSeq
<1> DEFINE n == Len(seq) - 1
<1>2. n \in Int /\ n - 1 + 1 = n /\ (n < 1 => n = 0) /\ \A i \in 1 .. n : seq[i] \in T
  <2>1. n \in Nat /\ \A i \in 1 .. n : i \in 1 .. Len(seq)
    BY <1>1
  <2> HIDE DEF n
  <2> QED  BY <1>1, <2>1
<1> HIDE DEF n
<1>3. /\ SubSeq(seq, 1, n) \in Seq(T)
      /\ Len(SubSeq(seq, 1, n)) = IF 1 <= n THEN n - 1 + 1 ELSE 0
  BY ONLY <1>2, SubSeqProperties
<1>4. Front(seq) = SubSeq(seq, 1, n)
  BY DEF Front, n
<1> QED  BY <1>2, <1>3, <1>4 DEF n

\* What a key does to the text on the screen and to the accent that waits.
LEMMA PressType ==
  ASSUME screen \in Seq(OnScreen), deadKey \in Byte, NEW key \in 0 .. 63, NEW modifiers,
         Press(key, modifiers)
  PROVE  screen' \in Seq(OnScreen) /\ deadKey' \in Byte
<1> DEFINE chr == Shown(key, modifiers)
<1>1. chr \in Byte /\ 0 \in Byte
  <2>1. 0 \in Byte
    BY DEF Byte
  <2> QED  BY ONLY <2>1, key \in 0 .. 63, ShownType
<1> HIDE DEF chr
<1>2. CASE chr = 0 /\ UNCHANGED <<screen, deadKey>>
  BY <1>2
<1>3. CASE deadKey = 0 /\ chr # 0 /\ deadKey' = chr /\ UNCHANGED screen
  BY <1>1, <1>3
<1>4. CASE deadKey # 0 /\ chr # 0 /\ screen' = screen \o <<deadKey, chr>> /\ deadKey' = 0
  <2>1. deadKey \in OnScreen /\ chr \in OnScreen
    BY <1>1, <1>4 DEF OnScreen, Character
  <2>2. <<deadKey, chr>> \in Seq(OnScreen)
    BY <2>1
  <2> QED  BY <1>1, <1>4, <2>2, ConcatProperties
<1>5. CASE /\ deadKey' = 0
           /\ screen' = IF deadKey = 0 /\ screen # <<>> THEN Front(screen) ELSE screen
  <2>1. screen # <<>> => Front(screen) \in Seq(OnScreen)
    BY FrontType
  <2> QED  BY <1>1, <1>5, <2>1
<1>6. CASE /\ chr # 0 /\ deadKey' = 0
           /\ screen' = Append(screen, IF deadKey = 0 THEN chr ELSE Composed(deadKey, chr))
  <2>1. (IF deadKey = 0 THEN chr ELSE Composed(deadKey, chr)) \in OnScreen
    BY <1>1, <1>6 DEF OnScreen, Character
  <2> QED  BY <1>1, <1>6, <2>1, AppendProperties
<1> QED  BY <1>2, <1>3, <1>4, <1>5, <1>6 DEF Press, chr

(***************************************************************************)
(* printf.                                                                 *)
(***************************************************************************)

\* What holds of the end of a sequence, and of every place if it holds of those after
\* it, holds of all of it: otherwise the last place where it does not could not be.
LEMMA BackwardInduction ==
  ASSUME NEW l \in Nat, NEW P, \A n \in 1 .. l : n + 1 .. l \subseteq P => n \in P
  PROVE  1 .. l \subseteq P
<1> DEFINE T == {d \in Nat : d < l /\ l - d \notin P}
<1> SUFFICES ASSUME NEW n \in 1 .. l, n \notin P PROVE FALSE
  OBVIOUS
<1>1. l - n \in T
  OBVIOUS
<1>2. PICK d \in T : \A e \in T : <<e, d>> \notin OpToRel(<, Nat)
  <2> HIDE DEF T
  <2>1. T \subseteq Nat /\ T # {}
    BY <1>1 DEF T
  <2> QED  BY <2>1, NatLessThanWellFounded, WFMin
<1>3. \A e \in T : ~(e < d)
  BY <1>2 DEF OpToRel
<1>4. l - d \in 1 .. l
  OBVIOUS
<1>5. \A m \in l - d + 1 .. l : m \in P
  <2> SUFFICES ASSUME NEW m \in l - d + 1 .. l, m \notin P PROVE FALSE
    OBVIOUS
  <2>1. l - m \in Nat /\ l - m < l /\ l - (l - m) = m /\ l - m < d
    OBVIOUS
  <2>2. l - m \in T
    BY <2>1
  <2> HIDE DEF T
  <2> QED  BY <1>3, <2>1, <2>2
<1>6. l - d \in P
  BY <1>4, <1>5
<1> QED  BY <1>6

\* What a format stands for from character n on, if rest says it of those after: a
\* literal character, a doubled percent sign or a conversion comes first.
AfterLiteral(format, rest, n) == {<<format[n]>> \o end : end \in rest[n + 1]}
AfterPercent(rest, n) == {<<Percent>> \o end : end \in rest[n + 2]}
AfterConversion(format, rest, n) ==
  {stray \o end : stray \in StrayOutput,
                  end \in UNION {rest[m] : m \in n + 1 .. Len(format) + 1}}
From(format, rest, n) ==
  IF n > Len(format) THEN {<<>>}
  ELSE IF format[n] # Percent THEN AfterLiteral(format, rest, n)
  ELSE IF n < Len(format) /\ format[n + 1] = Percent THEN AfterPercent(rest, n)
  ELSE AfterConversion(format, rest, n)

Literal(format, n) == n <= Len(format) /\ format[n] # Percent
Doubled(format, n) == n < Len(format) /\ format[n] = Percent /\ format[n + 1] = Percent
Conversion(format, n) ==
  n <= Len(format) /\ format[n] = Percent /\ ~(n < Len(format) /\ format[n + 1] = Percent)

LEMMA FromCases ==
  ASSUME NEW format \in Seq(Character), NEW n \in 1 .. Len(format) + 1, NEW rest
  PROVE  /\ n > Len(format) \/ Literal(format, n) \/ Doubled(format, n) \/ Conversion(format, n)
         /\ n > Len(format) => From(format, rest, n) = {<<>>}
         /\ Literal(format, n) => From(format, rest, n) = AfterLiteral(format, rest, n)
         /\ Doubled(format, n) => From(format, rest, n) = AfterPercent(rest, n)
         /\ Conversion(format, n) => From(format, rest, n) = AfterConversion(format, rest, n)
<1>1. Len(format) \in Nat
  BY LenProperties
<1> QED  BY <1>1 DEF From, Literal, Doubled, Conversion

LEMMA FromLocal ==
  ASSUME NEW format \in Seq(Character), NEW n \in 1 .. Len(format) + 1, NEW f, NEW g,
         \A m \in n + 1 .. Len(format) + 1 : f[m] = g[m]
  PROVE  From(format, f, n) = From(format, g, n)
<1>1. Len(format) \in Nat
  BY LenProperties
<1>2. n <= Len(format) => f[n + 1] = g[n + 1]
  BY <1>1
<1>3. n < Len(format) => f[n + 2] = g[n + 2]
  BY <1>1
<1>4. {f[m] : m \in n + 1 .. Len(format) + 1} = {g[m] : m \in n + 1 .. Len(format) + 1}
  OBVIOUS
<1>5. CASE n > Len(format)
  BY <1>5, FromCases
<1>6. CASE Literal(format, n)
  <2>1. f[n + 1] = g[n + 1]
    BY <1>2, <1>6 DEF Literal
  <2>2. AfterLiteral(format, f, n) = AfterLiteral(format, g, n)
    BY <2>1 DEF AfterLiteral
  <2> QED  BY <1>6, <2>2, FromCases
<1>7. CASE Doubled(format, n)
  <2>1. f[n + 2] = g[n + 2]
    BY <1>3, <1>7 DEF Doubled
  <2>2. AfterPercent(f, n) = AfterPercent(g, n)
    BY <2>1 DEF AfterPercent
  <2> QED  BY <1>7, <2>2, FromCases
<1>8. CASE Conversion(format, n)
  <2> DEFINE ends(h) == {h[m] : m \in n + 1 .. Len(format) + 1}
             Joined(E) == {stray \o end : stray \in StrayOutput, end \in UNION E}
  <2>1. AfterConversion(format, f, n) = AfterConversion(format, g, n)
    <3>1. /\ AfterConversion(format, f, n) = Joined(ends(f))
          /\ AfterConversion(format, g, n) = Joined(ends(g))
      BY DEF AfterConversion
    <3>2. ends(f) = ends(g)
      BY <1>4
    <3> HIDE DEF ends, Joined
    <3> QED  BY <3>1, <3>2
  <2> QED  BY <1>8, <2>1, FromCases
<1> QED  BY <1>5, <1>6, <1>7, <1>8, FromCases

\* There is a function that says it of every place.
LEMMA FormatsFrom ==
  ASSUME NEW format \in Seq(Character)
  PROVE  \E rest : /\ Formats(format) = rest[1]
                   /\ \A n \in 1 .. Len(format) + 1 : rest[n] = From(format, rest, n)
<1> DEFINE l == Len(format) + 1
           Says(f, n) == \A m \in n .. l : f[m] = From(format, f, m)
           P == {n \in 1 .. l : \E f : Says(f, n)}
           Whole(f) == f = [n \in 1 .. l |-> From(format, f, n)]
<1>1. l \in Nat /\ 1 \in 1 .. l
  BY LenProperties
<1>2. \A n \in 1 .. l : n + 1 .. l \subseteq P => n \in P
  <2> SUFFICES ASSUME NEW n \in 1 .. l, n + 1 .. l \subseteq P PROVE \E g : Says(g, n)
    BY DEF P
  <2>1. PICK f : Says(f, n + 1)
    <3>1. CASE n = l
      <4> HIDE DEF l
      <4> QED  BY <1>1, <3>1
    <3>2. CASE n # l
      <4>1. n + 1 \in n + 1 .. l
        BY <1>1, <3>2
      <4> QED  BY <4>1 DEF P
    <3> QED  BY <3>1, <3>2
  <2> DEFINE g == [m \in 1 .. l |-> IF m = n THEN From(format, f, n) ELSE f[m]]
  <2>2. \A m \in n + 1 .. l : g[m] = f[m]
    <3> HIDE DEF l
    <3> QED  BY <1>1
  <2>3. g[n] = From(format, f, n)
    OBVIOUS
  <2> HIDE DEF g
  <2>4. ASSUME NEW m \in n .. l PROVE g[m] = From(format, g, m)
    <3>1. m \in 1 .. Len(format) + 1 /\ \A k \in m + 1 .. Len(format) + 1 : k \in n + 1 .. l
      BY <1>1
    <3>2. From(format, g, m) = From(format, f, m)
      BY <2>2, <3>1, FromLocal
    <3>3. m # n => m \in n + 1 .. l
      BY <1>1
    <3> QED  BY <2>1, <2>2, <2>3, <3>2, <3>3
  <2> QED  BY <2>4
<1>3. 1 \in P
  <2> HIDE DEF P, l
  <2> QED  BY <1>1, <1>2, BackwardInduction
<1>4. PICK f : Says(f, 1)
  BY <1>3
<1> DEFINE g == [n \in 1 .. l |-> f[n]]
<1>5. \A n \in 1 .. l : g[n] = f[n]
  OBVIOUS
<1>6. \A n \in 1 .. l : From(format, g, n) = From(format, f, n)
  <2> HIDE DEF g
  <2> SUFFICES ASSUME NEW n \in 1 .. l PROVE From(format, g, n) = From(format, f, n)
    OBVIOUS
  <2>1. \A m \in n + 1 .. Len(format) + 1 : g[m] = f[m]
    BY <1>1, <1>5
  <2> QED  BY <2>1, FromLocal
<1>7. Whole(g)
  <2> HIDE DEF l
  <2>1. g = [n \in 1 .. l |-> g[n]]
    OBVIOUS
  <2> HIDE DEF g
  <2> QED  BY <1>4, <1>5, <1>6, <2>1
<1> DEFINE rest == CHOOSE h : Whole(h)
<1>8. Whole(rest)
  <2> HIDE DEF Whole
  <2> QED  BY <1>7
<1>9. Formats(format) = rest[1]
  BY DEF Formats, From, AfterLiteral, AfterPercent, AfterConversion
<1> HIDE DEF rest
<1>10. \A n \in 1 .. l : rest[n] = From(format, rest, n)
  BY <1>8
<1> QED  BY <1>9, <1>10

\* printf makes characters of characters.
LEMMA FormatsType ==
  ASSUME NEW format \in Seq(Character)
  PROVE  Formats(format) \subseteq Seq(Character)
<1> DEFINE l == Len(format) + 1
<1>1. l \in Nat /\ 1 \in 1 .. l /\ Percent \in Character
  BY LenProperties DEF Percent, Character, Byte
<1>2. PICK rest : /\ Formats(format) = rest[1]
                  /\ \A n \in 1 .. l : rest[n] = From(format, rest, n)
  BY FormatsFrom
<1> DEFINE P == {n \in 1 .. l : rest[n] \subseteq Seq(Character)}
<1>3. \A n \in 1 .. l : n + 1 .. l \subseteq P => n \in P
  <2> SUFFICES ASSUME NEW n \in 1 .. l, n + 1 .. l \subseteq P
               PROVE  From(format, rest, n) \subseteq Seq(Character)
    BY <1>2
  <2>1. \A m \in n + 1 .. l : rest[m] \subseteq Seq(Character)
    OBVIOUS
  <2>2. \A chr \in Character : \A end \in Seq(Character) : <<chr>> \o end \in Seq(Character)
    BY ConcatProperties
  <2>3. CASE n > Len(format)
    <3>1. From(format, rest, n) = {<<>>}
      BY <2>3, FromCases
    <3> QED  BY <3>1, EmptySeq
  <2>4. CASE Literal(format, n)
    <3>1. format[n] \in Character /\ n + 1 \in n + 1 .. l
      BY <1>1, <2>4, ElementOfSeq DEF Literal
    <3>2. AfterLiteral(format, rest, n) \subseteq Seq(Character)
      BY <2>1, <2>2, <3>1 DEF AfterLiteral
    <3> QED  BY <2>4, <3>2, FromCases
  <2>5. CASE Doubled(format, n)
    <3>1. n + 2 \in n + 1 .. l
      BY <1>1, <2>5 DEF Doubled
    <3>2. AfterPercent(rest, n) \subseteq Seq(Character)
      BY <1>1, <2>1, <2>2, <3>1 DEF AfterPercent
    <3> QED  BY <2>5, <3>2, FromCases
  <2>6. CASE Conversion(format, n)
    <3>1. \A stray \in StrayOutput : stray \in Seq(Character)
      BY LayoutAssumption
    <3> DEFINE ends == UNION {rest[m] : m \in n + 1 .. Len(format) + 1}
    <3>2. \A end \in ends : end \in Seq(Character)
      BY <2>1
    <3>3. AfterConversion(format, rest, n) = {stray \o end : stray \in StrayOutput, end \in ends}
      BY DEF AfterConversion
    <3> HIDE DEF ends
    <3>4. AfterConversion(format, rest, n) \subseteq Seq(Character)
      <4> SUFFICES ASSUME NEW x \in AfterConversion(format, rest, n) PROVE x \in Seq(Character)
        OBVIOUS
      <4>1. PICK stray \in StrayOutput, end \in ends : x = stray \o end
        BY <3>3
      <4>2. stray \in Seq(Character) /\ end \in Seq(Character)
        BY <3>1, <3>2
      <4> QED  BY <4>1, <4>2, ConcatProperties
    <3> QED  BY <2>6, <3>4, FromCases
  <2> QED  BY <2>3, <2>4, <2>5, <2>6, FromCases
<1>4. 1 \in P
  <2> HIDE DEF P, l
  <2> QED  BY <1>1, <1>3, BackwardInduction
<1> QED  BY <1>2, <1>4

\* A format without a percent sign stands for itself.
LEMMA FormatsItself ==
  ASSUME NEW format \in Seq(Character), \A i \in 1 .. Len(format) : format[i] # Percent
  PROVE  Formats(format) = {format}
<1> DEFINE l == Len(format) + 1
           End(n) == SubSeq(format, n, Len(format))
<1>1. l \in Nat /\ 1 \in 1 .. l /\ \A i \in 1 .. Len(format) : format[i] \in Character
  BY LenProperties, ElementOfSeq
<1>2. PICK rest : /\ Formats(format) = rest[1]
                  /\ \A n \in 1 .. l : rest[n] = From(format, rest, n)
  BY FormatsFrom
<1> DEFINE P == {n \in 1 .. l : rest[n] = {End(n)}}
<1>3. \A n \in 1 .. l : n + 1 .. l \subseteq P => n \in P
  <2> SUFFICES ASSUME NEW n \in 1 .. l, n + 1 .. l \subseteq P
               PROVE  From(format, rest, n) = {End(n)}
    BY <1>2
  <2>1. CASE n > Len(format)
    <3>1. From(format, rest, n) = {<<>>}
      BY <2>1, FromCases
    <3>2. End(n) = <<>>
      BY <1>1, <2>1, SubSeqEmpty
    <3> QED  BY <3>1, <3>2
  <2>2. CASE n <= Len(format)
    <3>1. /\ n \in 1 .. Len(format) /\ n + 1 \in 1 .. l /\ n + 1 \in n + 1 .. l
          /\ n \in Nat /\ Len(format) \in Nat
      BY <1>1, <2>2
    <3>2. rest[n + 1] = {End(n + 1)}
      BY <3>1
    <3>3. From(format, rest, n) = {<<format[n]>> \o end : end \in rest[n + 1]}
      <4>1. Literal(format, n)
        BY <2>2, <3>1 DEF Literal
      <4> QED  BY <4>1, FromCases DEF AfterLiteral
    <3> DEFINE first == <<format[n]>>
               end == End(n + 1)
               k == Len(format) - n
    <3>4. k \in Nat /\ n + 1 + k = l /\ l = Len(format) + 1
      BY <3>1
    <3>5. first \in Seq(Character) /\ Len(first) = 1 /\ first[1] = format[n]
      BY <1>1, <3>1
    <3>6. end \in Seq(Character) /\ Len(end) = k /\ \A i \in 1 .. k : end[i] = format[n + i]
      <4>1. \A i \in n + 1 .. Len(format) : format[i] \in Character
        BY <1>1, <3>1
      <4>2. /\ SubSeq(format, n + 1, Len(format)) \in Seq(Character)
            /\ Len(SubSeq(format, n + 1, Len(format)))
                 = IF n + 1 <= Len(format) THEN Len(format) - (n + 1) + 1 ELSE 0
            /\ \A i \in 1 .. Len(format) - (n + 1) + 1 :
                 SubSeq(format, n + 1, Len(format))[i] = format[n + 1 + i - 1]
        BY <3>1, <4>1, SubSeqProperties
      <4> QED  BY <3>1, <4>2
    <3>7. /\ End(n) \in Seq(Character) /\ Len(End(n)) = k + 1
          /\ \A i \in 1 .. k + 1 : End(n)[i] = format[n + i - 1]
      <4>1. \A i \in n .. Len(format) : format[i] \in Character
        BY <1>1, <3>1
      <4>2. /\ SubSeq(format, n, Len(format)) \in Seq(Character)
            /\ Len(SubSeq(format, n, Len(format)))
                 = IF n <= Len(format) THEN Len(format) - n + 1 ELSE 0
            /\ \A i \in 1 .. Len(format) - n + 1 :
                 SubSeq(format, n, Len(format))[i] = format[n + i - 1]
        BY <3>1, <4>1, SubSeqProperties
      <4> QED  BY <3>1, <4>2
    <3>8. first \o end = End(n)
      <4> DEFINE whole == first \o end
      <4>1. /\ whole \in Seq(Character) /\ Len(whole) = k + 1
            /\ \A i \in 1 .. k + 1 : whole[i] = IF i <= 1 THEN first[i] ELSE end[i - 1]
        <5> HIDE DEF first, end, k
        <5>1. /\ first \o end \in Seq(Character) /\ Len(first \o end) = Len(first) + Len(end)
              /\ \A i \in 1 .. Len(first) + Len(end) :
                   (first \o end)[i] = IF i <= Len(first) THEN first[i] ELSE end[i - Len(first)]
          <6>1. first \in Seq(Character) /\ end \in Seq(Character)
            BY <3>5, <3>6
          <6> QED  BY ONLY <6>1, ConcatProperties
        <5> QED  BY <3>4, <3>5, <3>6, <5>1
      <4>2. \A i \in 1 .. k + 1 : whole[i] = End(n)[i]
        <5> SUFFICES ASSUME NEW i \in 1 .. k + 1 PROVE whole[i] = End(n)[i]
          OBVIOUS
        <5> HIDE DEF first, end, k, whole, End
        <5>1. CASE i = 1
          BY <3>1, <3>5, <3>7, <4>1, <5>1
        <5>2. CASE i # 1
          <6>1. i - 1 \in 1 .. k /\ n + (i - 1) = n + i - 1 /\ ~(i <= 1)
            BY <3>1, <3>4, <5>2
          <6> QED  BY <3>6, <3>7, <4>1, <6>1
        <5> QED  BY <5>1, <5>2
      <4> HIDE DEF whole, first, end, k, End
      <4> QED  BY <3>7, <4>1, <4>2, SeqEqual DEF whole
    <3>9. From(format, rest, n) = {first \o x : x \in {end}}
      BY <3>2, <3>3
    <3> HIDE DEF first, end, End
    <3> QED  BY <3>8, <3>9
  <2> QED  BY <1>1, <2>1, <2>2
<1>4. 1 \in P
  <2> HIDE DEF P, l
  <2> QED  BY <1>1, <1>3, BackwardInduction
<1>5. End(1) = format
  <2>1. Len(format) \in Nat
    BY LenProperties
  <2>2. /\ SubSeq(format, 1, Len(format)) \in Seq(Character)
        /\ Len(SubSeq(format, 1, Len(format))) = IF 1 <= Len(format) THEN Len(format) - 1 + 1 ELSE 0
        /\ \A i \in 1 .. Len(format) - 1 + 1 : SubSeq(format, 1, Len(format))[i] = format[1 + i - 1]
    BY <1>1, <2>1, SubSeqProperties
  <2>3. Len(End(1)) = Len(format) /\ \A i \in 1 .. Len(format) : End(1)[i] = format[i]
    BY <2>1, <2>2
  <2> HIDE DEF End
  <2> QED  BY <2>2, <2>3, SeqEqual DEF End
<1> QED  BY <1>2, <1>4, <1>5

\* The first character of a text, seen behind what is on the screen, and moved there.
LEMMA MixedConcat ==
  ASSUME NEW R, NEW T, NEW a \in Seq(R), NEW b \in Seq(T), b # <<>>
  PROVE  Len(a \o b) = Len(a) + Len(b) /\ (a \o b)[Len(a) + 1] = b[1]
<1>1. a \in Seq(R \cup T) /\ b \in Seq(R \cup T) /\ Len(a) \in Nat /\ Len(b) \in Nat \ {0}
  BY EmptySeq, LenProperties
<1>2. /\ Len(a \o b) = Len(a) + Len(b)
      /\ \A i \in 1 .. Len(a) + Len(b) :
           (a \o b)[i] = IF i <= Len(a) THEN a[i] ELSE b[i - Len(a)]
  BY ONLY <1>1, ConcatProperties
<1>3. Len(a) + 1 \in 1 .. Len(a) + Len(b) /\ ~(Len(a) + 1 <= Len(a)) /\ (Len(a) + 1) - Len(a) = 1
  BY <1>1
<1> QED  BY <1>2, <1>3

LEMMA AppendTail ==
  ASSUME NEW R, NEW T, NEW a \in Seq(R), NEW b \in Seq(T), b # <<>>
  PROVE  Append(a, Head(b)) \o Tail(b) = a \o b
<1> DEFINE U == R \cup T
           c == Append(a, Head(b))
           l == Len(a) + Len(b)
<1>1. a \in Seq(U) /\ b \in Seq(U) /\ Len(a) \in Nat /\ Len(b) \in Nat \ {0}
  BY EmptySeq, LenProperties
<1>2. /\ Head(b) \in U /\ Head(b) = b[1] /\ Tail(b) \in Seq(U) /\ Len(Tail(b)) = Len(b) - 1
      /\ \A i \in 1 .. Len(b) - 1 : Tail(b)[i] = b[i + 1]
  BY <1>1, HeadTailProperties
<1>3. /\ c \in Seq(U) /\ Len(c) = Len(a) + 1 /\ c[Len(a) + 1] = b[1]
      /\ \A i \in 1 .. Len(a) : c[i] = a[i]
  BY <1>1, <1>2, AppendProperties
<1> HIDE DEF U, c
<1>4. /\ a \o b \in Seq(U) /\ Len(a \o b) = l
      /\ \A i \in 1 .. l : (a \o b)[i] = IF i <= Len(a) THEN a[i] ELSE b[i - Len(a)]
  BY ONLY <1>1, ConcatProperties
<1>5. /\ c \o Tail(b) \in Seq(U) /\ Len(c \o Tail(b)) = l
      /\ \A i \in 1 .. l :
           (c \o Tail(b))[i] = IF i <= Len(a) + 1 THEN c[i] ELSE Tail(b)[i - (Len(a) + 1)]
  <2>1. Len(c) + Len(Tail(b)) = l
    BY <1>1, <1>2, <1>3
  <2>2. /\ c \o Tail(b) \in Seq(U) /\ Len(c \o Tail(b)) = Len(c) + Len(Tail(b))
        /\ \A i \in 1 .. Len(c) + Len(Tail(b)) :
             (c \o Tail(b))[i] = IF i <= Len(c) THEN c[i] ELSE Tail(b)[i - Len(c)]
    BY <1>2, <1>3, ConcatProperties
  <2> QED  BY <1>3, <2>1, <2>2
<1>6. \A i \in 1 .. l : (c \o Tail(b))[i] = (a \o b)[i]
  <2> SUFFICES ASSUME NEW i \in 1 .. l PROVE (c \o Tail(b))[i] = (a \o b)[i]
    OBVIOUS
  <2>1. CASE i <= Len(a)
    <3>1. i \in 1 .. Len(a) /\ i <= Len(a) + 1
      BY <1>1, <2>1
    <3> QED  BY <1>3, <1>4, <1>5, <2>1, <3>1
  <2>2. CASE i = Len(a) + 1
    <3>1. ~(i <= Len(a)) /\ i <= Len(a) + 1 /\ i - Len(a) = 1
      BY <1>1, <2>2
    <3> QED  BY <1>3, <1>4, <1>5, <2>2, <3>1
  <2>3. CASE i > Len(a) + 1
    <3>1. /\ ~(i <= Len(a)) /\ ~(i <= Len(a) + 1) /\ i - (Len(a) + 1) \in 1 .. Len(b) - 1
          /\ (i - (Len(a) + 1)) + 1 = i - Len(a)
      BY <1>1, <2>3
    <3>2. (c \o Tail(b))[i] = Tail(b)[i - (Len(a) + 1)] /\ (a \o b)[i] = b[i - Len(a)]
      BY <1>4, <1>5, <3>1
    <3>3. Tail(b)[i - (Len(a) + 1)] = b[(i - (Len(a) + 1)) + 1]
      BY <1>2, <3>1
    <3> QED  BY <3>1, <3>2, <3>3
  <2>4. i <= Len(a) \/ i = Len(a) + 1 \/ i > Len(a) + 1
    BY <1>1
  <2> QED  BY <2>1, <2>2, <2>3, <2>4
<1> HIDE DEF l
<1>7. c \o Tail(b) = a \o b
  BY <1>4, <1>5, <1>6, SeqEqual
<1> QED  BY <1>7 DEF c

(***************************************************************************)
(* A password on its way to the screen.                                    *)
(***************************************************************************)
Harmless == 1 .. 127 \ Unfaithful
Holds(chars, set) == \A i \in 1 .. Len(chars) : chars[i] \in set

\* Nothing has been typed before the button is pressed; of a faithful password, what is on
\* the screen and what is still to write make the password; of one without the five
\* characters, no accent waits, and there is no more to come than there was.
BeforePress == ~typing => text = <<>> /\ screen = <<>> /\ deadKey = 0
FaithfulInv ==
  Holds(password, Faithful) /\ typing => screen \o text = password /\ deadKey = 0
HarmlessInv ==
  Holds(password, Harmless) /\ typing =>
    /\ Holds(text, Harmless) /\ deadKey = 0
    /\ Len(screen) + Len(text) <= Len(password)

IInv == TypeOK /\ BeforePress /\ FaithfulInv /\ HarmlessInv

LEMMA InitIInv == Init => IInv
<1> SUFFICES ASSUME Init PROVE IInv
  OBVIOUS
<1>1. TypeOK
  <2>1. 0 \in Byte
    BY DEF Byte
  <2>2. password \in Seq(Character)
    BY LayoutAssumption DEF Init
  <2> QED  BY <2>1, <2>2, EmptySeq DEF Init, TypeOK
<1>2. BeforePress /\ FaithfulInv /\ HarmlessInv
  BY DEF Init, BeforePress, FaithfulInv, HarmlessInv
<1> QED  BY <1>1, <1>2 DEF IInv

\* What printf makes of a password that has no percent sign is the password.
LEMMA PrintfIInv == IInv /\ Printf => IInv'
<1> SUFFICES ASSUME IInv, Printf PROVE IInv'
  OBVIOUS
<1>1. /\ password \in Seq(Character) /\ screen = <<>> /\ deadKey = 0 /\ TypeOK
      /\ typing' = TRUE /\ text' \in Formats(password) /\ UNCHANGED <<password, screen, deadKey>>
  BY DEF IInv, TypeOK, BeforePress, Printf
<1>2. TypeOK'
  <2>1. text' \in Seq(Character)
    BY <1>1, FormatsType
  <2> QED  BY <1>1, <2>1 DEF TypeOK
<1>3. BeforePress'
  BY <1>1 DEF BeforePress
<1>4. ASSUME Holds(password, Harmless) \/ Holds(password, Faithful) PROVE text' = password
  <2>1. \A i \in 1 .. Len(password) : password[i] # Percent
    BY <1>4 DEF Holds, Faithful, Harmless, Unfaithful
  <2> QED  BY <1>1, <2>1, FormatsItself
<1>5. FaithfulInv'
  <2> SUFFICES ASSUME Holds(password, Faithful) PROVE (screen \o text = password)' /\ deadKey' = 0
    BY <1>1 DEF FaithfulInv, Holds
  <2> QED  BY <1>1, <1>4, ConcatEmptySeq
<1>6. HarmlessInv'
  <2> SUFFICES ASSUME Holds(password, Harmless)
               PROVE  /\ Holds(text', Harmless) /\ deadKey' = 0
                      /\ Len(screen') + Len(text') <= Len(password')
    BY <1>1 DEF HarmlessInv, Holds
  <2>1. Len(screen') = 0 /\ Len(password) \in Nat /\ text' = password
    BY <1>1, <1>4, EmptySeq, LenProperties
  <2> QED  BY <1>1, <2>1
<1> QED  BY <1>2, <1>3, <1>5, <1>6 DEF IInv

\* A character of the text: what it does to the screen.
LEMMA WriteType == TypeOK /\ Write => TypeOK'
<1> SUFFICES ASSUME TypeOK, Write PROVE TypeOK'
  OBVIOUS
<1>1. /\ text \in Seq(Character) /\ text # <<>> /\ text' = Tail(text)
      /\ screen \in Seq(OnScreen) /\ deadKey \in Byte
      /\ UNCHANGED <<password, typing>>
  BY DEF TypeOK, Write
<1>2. Head(text) \in Character /\ text' \in Seq(Character)
  BY <1>1, HeadTailProperties
<1>3. screen' \in Seq(OnScreen) /\ deadKey' \in Byte
  <2>1. CASE UNCHANGED <<screen, deadKey>>
    BY <1>1, <2>1
  <2>2. ASSUME NEW data \in KeyData(Head(text)),
               Press(keycode_to_key(data), keycode_to_modifier(data))
        PROVE  screen' \in Seq(OnScreen) /\ deadKey' \in Byte
    <3>1. keycode_to_key(data) \in 0 .. 63
      BY <1>2, <2>2, DataType, KeyType
    <3> QED  BY <1>1, <2>2, <3>1, PressType
  <2> QED  BY <2>1, <2>2 DEF Write
<1> QED  BY <1>1, <1>2, <1>3 DEF TypeOK

\* A keycode that shows a character, with no accent before it, appends it.
LEMMA PressShows ==
  ASSUME NEW data, NEW chr, Shows(data, chr), chr # 0, deadKey = 0,
         Press(keycode_to_key(data), keycode_to_modifier(data))
  PROVE  screen' = Append(screen, chr) /\ deadKey' = 0
  BY DEF Press, Shows

\* One without an accent adds at most a character.
LEMMA PressHarmless ==
  ASSUME NEW key \in 0 .. 63, NEW modifiers, Press(key, modifiers), ~IsAccent(key, modifiers),
         deadKey = 0, screen \in Seq(OnScreen)
  PROVE  deadKey' = 0 /\ Len(screen') <= Len(screen) + 1
<1> DEFINE chr == Shown(key, modifiers)
<1>1. chr \in Byte
  BY ShownType
<1>2. Len(screen) \in Nat
  BY LenProperties
<1> HIDE DEF chr
<1>3. CASE UNCHANGED <<screen, deadKey>>
  BY <1>2, <1>3
<1>4. CASE deadKey' = 0 /\ screen' = IF deadKey = 0 /\ screen # <<>> THEN Front(screen) ELSE screen
  <2>1. screen # <<>> => Len(Front(screen)) = Len(screen) - 1
    BY FrontType
  <2> QED  BY <1>2, <1>4, <2>1
<1>5. CASE /\ chr # 0 /\ deadKey' = 0
           /\ screen' = Append(screen, IF deadKey = 0 THEN chr ELSE Composed(deadKey, chr))
  <2>1. chr \in OnScreen /\ screen' = Append(screen, chr)
    BY <1>1, <1>5 DEF OnScreen, Character
  <2> QED  BY <1>2, <1>5, <2>1, AppendProperties
<1> QED  BY <1>3, <1>4, <1>5 DEF Press, chr

\* A character moves from the text to the screen.
LEMMA WriteIInv == IInv /\ Write => IInv'
<1> SUFFICES ASSUME IInv, Write PROVE IInv'
  OBVIOUS
<1>1. /\ TypeOK /\ TypeOK' /\ typing /\ typing' /\ password' = password
      /\ text # <<>> /\ text' = Tail(text)
      /\ text \in Seq(Character) /\ screen \in Seq(OnScreen) /\ password \in Seq(Character)
  BY WriteType DEF IInv, TypeOK, Write
<1>2. BeforePress'
  BY <1>1 DEF BeforePress
<1>3. /\ Len(text) \in Nat \ {0} /\ Len(text') = Len(text) - 1 /\ Len(screen) \in Nat
      /\ Head(text) = text[1] /\ Head(text) \in Character
      /\ \A i \in 1 .. Len(text) - 1 : text'[i] = text[i + 1]
  BY <1>1, EmptySeq, LenProperties, HeadTailProperties
<1>4. FaithfulInv'
  <2> SUFFICES ASSUME Holds(password, Faithful)
               PROVE  screen' \o text' = password /\ deadKey' = 0
    BY <1>1 DEF FaithfulInv, Holds
  <2>1. screen \o text = password /\ deadKey = 0
    BY <1>1 DEF IInv, FaithfulInv
  <2>2. Head(text) \in Faithful /\ Head(text) # 13 /\ Head(text) # 0
    <3>1. Len(screen \o text) = Len(screen) + Len(text)
          /\ (screen \o text)[Len(screen) + 1] = text[1]
      BY <1>1, <1>3, MixedConcat
    <3>2. Len(screen) + 1 \in 1 .. Len(password)
      BY <1>3, <2>1, <3>1
    <3>3. text[1] \in Faithful
      BY <2>1, <3>1, <3>2 DEF Holds
    <3>4. 13 \notin Faithful /\ 0 \notin Faithful
      BY DEF Faithful, Printable
    <3> QED  BY <1>3, <3>3, <3>4
  <2>3. screen' = Append(screen, Head(text)) /\ deadKey' = 0
    <3>1. KeyData(Head(text)) = {Keycode(Head(text))} /\ Shows(Keycode(Head(text)), Head(text))
      BY <2>2, TableShows
    <3>2. Keycode(Head(text)) # 0
      BY <3>1 DEF Shows
    <3>3. PICK data \in KeyData(Head(text)) :
            \/ data = 0
            \/ data # 0 /\ Press(keycode_to_key(data), keycode_to_modifier(data))
      BY <2>2 DEF Write
    <3> QED  BY <2>1, <2>2, <3>1, <3>2, <3>3, PressShows
  <2>4. screen' \o text' = screen \o text
    BY <1>1, <2>3, AppendTail
  <2> QED  BY <2>1, <2>3, <2>4
<1>5. HarmlessInv'
  <2> SUFFICES ASSUME Holds(password, Harmless)
               PROVE  /\ Holds(text', Harmless) /\ deadKey' = 0
                      /\ Len(screen') + Len(text') <= Len(password)
    BY <1>1 DEF HarmlessInv, Holds
  <2>1. /\ Holds(text, Harmless) /\ deadKey = 0
        /\ Len(screen) + Len(text) <= Len(password)
    BY <1>1 DEF IInv, HarmlessInv
  <2>2. Head(text) \in Harmless
    BY <1>3, <2>1 DEF Holds
  <2>3. deadKey' = 0 /\ Len(screen') <= Len(screen) + 1 /\ Len(screen') \in Nat
    <3>1. Len(screen') \in Nat
      BY <1>1, LenProperties DEF TypeOK
    <3>2. CASE UNCHANGED <<screen, deadKey>>
      BY <1>3, <2>1, <3>2
    <3>3. ASSUME NEW data \in KeyData(Head(text)), data # 0,
                 Press(keycode_to_key(data), keycode_to_modifier(data))
          PROVE  deadKey' = 0 /\ Len(screen') <= Len(screen) + 1
      <4>1. ~IsAccent(keycode_to_key(data), keycode_to_modifier(data))
        BY <2>2, <3>3, HarmlessKeys DEF Harmless
      <4>2. keycode_to_key(data) \in 0 .. 63
        BY <1>3, <3>3, DataType, KeyType
      <4> QED  BY <1>1, <2>1, <3>3, <4>1, <4>2, PressHarmless
    <3> QED  BY <3>1, <3>2, <3>3 DEF Write
  <2>4. Holds(text', Harmless)
    <3> SUFFICES ASSUME NEW i \in 1 .. Len(text') PROVE text'[i] \in Harmless
      BY DEF Holds
    <3>1. i \in 1 .. Len(text) - 1 /\ i + 1 \in 1 .. Len(text)
      BY <1>3
    <3> QED  BY <1>3, <2>1, <3>1 DEF Holds
  <2>5. Len(password) \in Nat
    BY <1>1, LenProperties
  <2> QED  BY <1>3, <2>1, <2>3, <2>4, <2>5
<1> QED  BY <1>1, <1>2, <1>4, <1>5 DEF IInv

LEMMA NextIInv == IInv /\ [Next]_vars => IInv'
<1>1. IInv /\ UNCHANGED vars => IInv'
  BY DEF IInv, vars, TypeOK, BeforePress, FaithfulInv, HarmlessInv, Holds
<1> QED  BY <1>1, PrintfIInv, WriteIInv DEF Next

LEMMA InvariantIInv == Spec => []IInv
  BY InitIInv, NextIInv, PTL DEF Spec

\* The text, the screen and the accent stay what they are, for every password and
\* whatever lies in the flash behind the table.
THEOREM TypeCorrect == Spec => []TypeOK
<1>1. IInv => TypeOK
  BY DEF IInv
<1> QED  BY <1>1, InvariantIInv, PTL

\* A password of printable characters, but for the five of the findings, is on the
\* screen as it was stored, whatever its length.
THEOREM PasswordShown == Spec => []TypedAsStored
<1>1. IInv => TypedAsStored
  <2> SUFFICES ASSUME IInv, Typed, ToSet(password) \subseteq Faithful
               PROVE  screen = password /\ deadKey = 0
    BY DEF TypedAsStored
  <2>1. Holds(password, Faithful)
    BY DEF Holds, ToSet, IInv, TypeOK
  <2>2. screen \o text = password /\ deadKey = 0 /\ text = <<>> /\ screen \in Seq(OnScreen)
    BY <2>1 DEF IInv, TypeOK, FaithfulInv, Typed
  <2> QED  BY <2>2, ConcatEmptySeq
<1> QED  BY <1>1, InvariantIInv, PTL

\* Whatever else is in a password without these five characters, control characters
\* included: no accent falls on a neighbour, and nothing is added.
THEOREM NeighboursKept == Spec => []NoStrayAccent
<1>1. IInv => NoStrayAccent
  <2> SUFFICES ASSUME IInv, Typed, ToSet(password) \cap Unfaithful = {},
                      ToSet(password) \subseteq 1 .. 127
               PROVE  deadKey = 0 /\ Len(screen) <= Len(password)
    BY DEF NoStrayAccent
  <2>1. Holds(password, Harmless)
    <3> SUFFICES ASSUME NEW i \in 1 .. Len(password) PROVE password[i] \in Harmless
      BY DEF Holds
    <3>1. password[i] \in ToSet(password)
      BY DEF ToSet, IInv, TypeOK
    <3> QED  BY <3>1 DEF Harmless
  <2>2. /\ deadKey = 0 /\ Len(screen) + Len(text) <= Len(password) /\ text = <<>>
        /\ screen \in Seq(OnScreen) /\ password \in Seq(Character)
    BY <2>1 DEF IInv, TypeOK, HarmlessInv, Typed
  <2>3. Len(text) = 0 /\ Len(screen) \in Nat /\ Len(password) \in Nat
    BY <2>2, EmptySeq, LenProperties
  <2> QED  BY <2>2, <2>3
<1> QED  BY <1>1, InvariantIInv, PTL
=============================================================================
