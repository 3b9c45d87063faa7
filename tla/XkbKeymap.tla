------------------------------- MODULE XkbKeymap -------------------------------
(***************************************************************************)
(* The keymap of the desktop, as libxkbcommon gives it: what each key      *)
(* produces, and the same keymap as a text.  XkbFetch gets it at the start *)
(* of the program; XkbKeysyms reads the first, XkbModifiers the second.    *)
(***************************************************************************)
EXTENDS Integers, FiniteSetsExt, SequencesExt

CONSTANTS
    Sym,            \* the keysyms
    Keycode,        \* the keycodes that are keys
    ModifiersNum,   \* XKB_MODIFIERS_NUM
    Name,           \* the names of keys, <LCTL>, as sequences of bytes
    Desktops,       \* the keymaps that desktops have, and for each
    Syms,           \*   what its keys produce: the set Syms[d][k][m], under modifier mask m
    Text,           \*   and its text, a sequence of lines
    None            \* nothing; NULL

MinKeycode == Min(Keycode)
MaxKeycode == Max(Keycode)
Mod == 0 .. ModifiersNum - 1
Mask == 0 .. 2 ^ ModifiersNum - 1

\* The kinds of lines of the text.  "section" names xkb_keycodes, "end" is "};", and
\* "other" is any line that contains none of what the program looks for.  A blank line
\* is of white space; libxkbcommon writes none.
Line ==
    [kind : {"section", "end", "other", "empty", "blank"}]
    \cup [kind : {"key"}, name : Name, code : Keycode]
    \cup [kind : {"modifier"}, mod : Mod, names : Seq(Name)]

ASSUME KeycodeAssumption ==
    Keycode \subseteq Nat /\ IsFiniteSet(Keycode) /\ Keycode # {} /\ 8 <= MinKeycode
ASSUME ModAssumption == ModifiersNum \in Nat \ {0}
ASSUME NameAssumption == Name \subseteq Seq(1 .. 255) /\ None \notin Name
ASSUME DesktopAssumption ==
    /\ None \notin Desktops
    /\ Syms \in [Desktops -> [Keycode -> [Mask -> SUBSET Sym]]]
    /\ Text \in [Desktops -> Seq(Line)]
    /\ \A d \in Desktops : \A i \in DOMAIN Text[d] :
          Text[d][i].kind = "modifier" => Text[d][i].names # << >>

VARIABLE desktop    \* the keymap of this run, or None until it is there

\* The keycodes that a text gives to each modifier.
KeysIn == [d \in Desktops |-> [m \in Mod |->
    LET lines == ToSet(Text[d])
    IN  { l.code : l \in { k \in lines : k.kind = "key" /\ \E n \in lines :
              n.kind = "modifier" /\ n.mod = m /\ k.name \in ToSet(n.names) } }]]
KeysOf(m) == KeysIn[desktop][m]

\* The mask in effect while the modifiers are held down.
Held(modifiers) == MapThenSumSet(LAMBDA i : 2 ^ i, modifiers)
=============================================================================
