------------------------------- MODULE MCDisplay -------------------------------
(***************************************************************************)
(* Display for TLC.  Two keys make two symbols with two modifiers, whose   *)
(* keys are those of Shift and of a level shift; the keys that packets     *)
(* name include a modifier and a letter that the keyboard has, too.        *)
(***************************************************************************)
EXTENDS Display

CONSTANTS less, comma, seat0, seat1

MCSym == {less, comma}

LFSH == <<60, 76, 70, 83, 72, 62>>
AB01 == <<60, 65, 66, 48, 49, 62>>
AB02 == <<60, 65, 66, 48, 50, 62>>
RTSH == <<60, 82, 84, 83, 72, 62>>
LVL3 == <<60, 76, 86, 76, 51, 62>>
LVL5 == <<60, 76, 86, 76, 53, 62>>
MCName == {LFSH, AB01, AB02, RTSH, LVL3, LVL5}
MCKeycode == {50, 52, 53, 62, 92, 203}
CodeOf(name) ==
    CASE name = LFSH -> 50 [] name = AB01 -> 52 [] name = AB02 -> 53
      [] name = RTSH -> 62 [] name = LVL3 -> 92 [] name = LVL5 -> 203

Plain(kind) == [kind |-> kind]
KeyLine(name) == [kind |-> "key", name |-> name, code |-> CodeOf(name)]
ModifierMap(m, names) == [kind |-> "modifier", mod |-> m, names |-> names]

Lined(map) ==
    <<Plain("other"), Plain("section"), Plain("other")>>
    \o [i \in 1 .. 6 |-> KeyLine(<<LFSH, AB01, AB02, RTSH, LVL3, LVL5>>[i])]
    \o <<Plain("end"), Plain("empty"), Plain("other")>> \o map \o <<Plain("end")>>

\* One line for each key, as older versions of libxkbcommon write them.
TextByKey == Lined(<<ModifierMap(0, <<LFSH>>), ModifierMap(0, <<RTSH>>), ModifierMap(1, <<LVL3>>)>>)
\* One line for each modifier.
TextByModifier == Lined(<<ModifierMap(0, <<LFSH, RTSH>>), ModifierMap(1, <<LVL5, LVL3>>)>>)
\* The modifiers on two keys whose names begin alike.
TextAlike == Lined(<<ModifierMap(0, <<LVL5>>), ModifierMap(1, <<LVL3>>)>>)
\* A modifier without a key.
TextWithout == Lined(<<ModifierMap(0, <<RTSH>>)>>)

Keyboard(first, second) ==
    [k \in MCKeycode |-> CASE k = 52 -> first [] k = 53 -> second [] OTHER -> [m \in 0 .. 3 |-> {}]]

\* The first key has any symbols at all, the second one of them once: the digits of d.
AnyKey(d) == [m \in 0 .. 3 |-> <<{less}, {comma}, {}>>[1 + ((d \div 3 ^ m) % 3)]]
OneSymbol(d) == [m \in 0 .. 3 |-> IF m = d \div 81 THEN {less} ELSE {}]

\* The keyboard of the other texts: a symbol with each of the modifiers.
Usual == Keyboard([m \in 0 .. 3 |-> IF m = 1 THEN {less} ELSE {}],
                  [m \in 0 .. 3 |-> IF m = 2 THEN {comma} ELSE {}])

\* A key with a level of two symbols, one of which has, in most cases, another level.
TwoSymbols(d) ==
    [m \in 0 .. 3 |-> IF m = d \div 4 THEN {less, comma} ELSE IF m = d % 4 THEN {less} ELSE {}]

MCDesktops == 0 .. 342
MCSyms == [d \in MCDesktops |->
    IF d < 324 THEN Keyboard(AnyKey(d), OneSymbol(d))
    ELSE IF d < 327 THEN Usual
    ELSE Keyboard(TwoSymbols(d - 327), [m \in 0 .. 3 |-> {}])]
MCText == [d \in MCDesktops |->
    IF d \in 324 .. 326 THEN <<TextByModifier, TextAlike, TextWithout>>[d - 323] ELSE TextByKey]

\* A seat with a keyboard, one without, and other globals around them.
MCAnnouncements ==
    { <<"other">>, <<"other", seat0>>, <<seat0, "other">>, <<seat0, seat1>>, <<seat1, seat0>> }

\* SHIFT_LEFT and Z, numbered from 0.
MCKey == 0 .. 1
MCLinuxKey == [k \in MCKey |-> IF k = 0 THEN 42 ELSE 44]
MCHotkeys == { <<0, 1>>, <<1, 1>>, << >> }

\* The keyboards are among those that the theorems are about.
ASSUME KeyboardsAssumption ==
    /\ MasksAreBinary
    /\ \A d \in Desktops : Orderly(Text[d]) /\ Regular(d)
=============================================================================
