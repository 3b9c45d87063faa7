------------------------------- MODULE XkbKeysyms -------------------------------
(***************************************************************************)
(* xkb_keymap_get_keysyms_mapping() (src/src/commons/utils/xkb_utils.c):   *)
(* for every symbol of the keyboard, a key and the modifiers to hold while *)
(* it is pressed.  One step per key and mask, for the symbols, mostly one, *)
(* that they produce; which mask comes first is up to the type of the key. *)
(***************************************************************************)
EXTENDS XkbKeymap

VARIABLES
    keycode,    \* the loop's keycode, and
    masks,      \* the masks of it that have been looked at
    mapping     \* mapping[s] is what was put for s, or None

scan == <<keycode, masks, mapping>>

ASSUME MappingAssumption == None \notin [keycode : Keycode, modifiers : SUBSET Mod]

ScanInit ==
    /\ keycode = MinKeycode /\ masks = {}
    /\ mapping = [s \in Sym |-> None]

\* "Extract the mods indices from the mask"
Indices(mask) == { i \in Mod : (mask \div 2 ^ i) % 2 = 1 }

\* Mutant of Easier: the first combination stays.
NeverEasier(new, old) == FALSE

Easier(new, old) == Cardinality(new) < Cardinality(old)

More == keycode < MaxKeycode

\* Mutant of MasksOf: the levels are counted from 1.
MasksButLevel0(k) == { m \in Mask : m # 0 /\ Syms[desktop][k][m] # {} }

\* The masks of a key that produce something.
MasksOf(k) == { m \in Mask : Syms[desktop][k][m] # {} }

\* The symbol is new.
Inserted(m) == [keycode |-> keycode, modifiers |-> Indices(m)]

\* The symbol is known: "Just update the modifiers array".
Updated(old, m) ==
    IF Easier(Indices(m), old.modifiers) THEN [old EXCEPT !.modifiers = Indices(m)] ELSE old

\* The symbols of a mask have each an entry of their own; the loop over them has no order.
Scan ==
    /\ More
    /\ \E m \in MasksOf(keycode) \ masks :
          /\ mapping' = [s \in Sym |->
                IF s \notin Syms[desktop][keycode][m] THEN mapping[s]
                ELSE IF mapping[s] = None THEN Inserted(m)
                ELSE Updated(mapping[s], m)]
          /\ masks' = masks \cup {m}
    /\ UNCHANGED keycode

\* Keycodes that are not keys produce nothing.
NextKeycode ==
    /\ More /\ masks = MasksOf(keycode)
    /\ keycode' = Min({ k \in Keycode : keycode < k }) /\ masks' = {}
    /\ UNCHANGED mapping

ScanNext == (Scan \/ NextKeycode) /\ UNCHANGED desktop

-----------------------------------------------------------------------------
ScanTypeOK ==
    /\ keycode \in Keycode /\ masks \subseteq Mask
    /\ mapping \in [Sym -> [keycode : Keycode, modifiers : SUBSET Mod] \cup {None}]

Mapped == { s \in Sym : mapping[s] # None }

\* The combinations of s that the loop has seen.
Seen(s) == { c \in Keycode \X Mask :
    /\ s \in Syms[desktop][c[1]][c[2]]
    /\ c[1] < keycode \/ (c[1] = keycode /\ c[2] \in masks) }

\* No combination seen has fewer modifiers than the one in the mapping: a symbol is
\* typed as easily as the keyboard allows.
FewestModifiers ==
    \A s \in Mapped : \A c \in Seen(s) :
        Cardinality(mapping[s].modifiers) <= Cardinality(Indices(c[2]))

-----------------------------------------------------------------------------
\* xkb_utils.h on the mapping of a keysym: "the combination of modifiers and keycode
\* needed to generate it".
MappingGenerates ==
    \A s \in Mapped : s \in Syms[desktop][mapping[s].keycode][Held(mapping[s].modifiers)]
=============================================================================
