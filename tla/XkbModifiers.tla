------------------------------ MODULE XkbModifiers ------------------------------
(***************************************************************************)
(* xkb_keymap_get_modifiers_mapping() (src/src/commons/utils/xkb_utils.c): *)
(* for every modifier a key, found in the text of the keymap, which        *)
(* string_parse() (src/src/commons/utils/io_utils.c) gives to a callback   *)
(* line by line.  The callback keeps two hashes: the code of each name,    *)
(* and a name for each modifier.                                           *)
(***************************************************************************)
EXTENDS XkbKeymap

VARIABLES
    lineNum,    \* the line of the text that was given to the callback last
    parsing,    \* arg.parsing_keycodes
    symbols,    \* arg.result.symbols
    modifiers,  \* arg.result.modifiers: a name, or None, for each modifier
    modkeys     \* the mapping that is returned: a keycode for each modifier; None before

parse == <<lineNum, parsing, symbols, modifiers, modkeys>>

ParseInit ==
    /\ lineNum = 0 /\ parsing = FALSE
    /\ symbols = << >>
    /\ modifiers = [m \in Mod |-> None]
    /\ modkeys = None

-----------------------------------------------------------------------------
(* string_parse(). *)

\* Mutant of Ahead: strsep() in place of strtok_r().
AheadAndEmpty == lineNum + 1 .. Len(Text[desktop])

\* The lines to come; strtok_r() passes over empty ones.
Ahead == { i \in lineNum + 1 .. Len(Text[desktop]) : Text[desktop][i].kind # "empty" }

\* "continue" reads no new line: with a line that is skipped the loop never ends.
Skipped(line) == line.kind \in {"empty", "blank"}

-----------------------------------------------------------------------------
(* The hash of the names: str_hash_func() modulo its 256 buckets, then      *)
(* int_eq_func(), which compares the first four bytes.                      *)

Buckets == 256

\* Mutant of StrHash: of the four bytes that are compared.
StrHashOfInt(str) == FoldLeft(LAMBDA hash, c : (33 * hash + c) % Buckets, 5381, SubSeq(str, 1, 4))

\* unsigned long overflows, of which uint32 and the buckets leave the last eight bits.
StrHash(str) == FoldLeft(LAMBDA hash, c : (33 * hash + c) % Buckets, 5381, str)

\* Names with one slot are one key of the hash.
Slot(name) == <<StrHash(name), SubSeq(name, 1, 4)>>

-----------------------------------------------------------------------------
(* The callback, for one line. *)

\* A line of modifier_map has "};" in it, too.
ParsingAfter(line) ==
    IF parsing THEN line.kind \notin {"end", "modifier"} ELSE line.kind = "section"

SymbolsAfter(line) ==
    IF parsing /\ line.kind = "key"
    THEN [slot \in DOMAIN symbols \cup {Slot(line.name)} |->
             IF slot = Slot(line.name) THEN line.code ELSE symbols[slot]]
    ELSE symbols

\* hash_contains() is given the address of the name's address, and never finds it: a
\* later line replaces an earlier one.  Of the names of a line the first is taken.
ModifiersAfter(line) ==
    IF ~parsing /\ line.kind = "modifier" THEN [modifiers EXCEPT ![line.mod] = Head(line.names)]
    ELSE modifiers

ParseLine ==
    /\ modkeys = None /\ Ahead # {}
    /\ LET line == Text[desktop][Min(Ahead)]
       IN  /\ ~Skipped(line)
           /\ parsing' = ParsingAfter(line)
           /\ symbols' = SymbolsAfter(line)
           /\ modifiers' = ModifiersAfter(line)
    /\ lineNum' = Min(Ahead)
    /\ UNCHANGED modkeys

\* XKB_KEY_NoSymbol, 0, stays where a modifier has no name, or its name no code.
Resolve ==
    /\ modkeys = None /\ Ahead = {}
    /\ modkeys' = [m \in Mod |->
           IF modifiers[m] # None /\ Slot(modifiers[m]) \in DOMAIN symbols
           THEN symbols[Slot(modifiers[m])] ELSE 0]
    /\ UNCHANGED <<lineNum, parsing, symbols, modifiers>>

ParseNext == (ParseLine \/ Resolve) /\ UNCHANGED desktop

-----------------------------------------------------------------------------
ParseTypeOK ==
    /\ lineNum \in Nat /\ parsing \in BOOLEAN
    /\ \A slot \in DOMAIN symbols : symbols[slot] \in Keycode
    /\ modifiers \in [Mod -> Name \cup {None}]
    /\ modkeys = None \/ modkeys \in [Mod -> Keycode \cup {0}]

\* The key found for a modifier is one that the keymap gives to it, and one is found if
\* there is any: the hash, though it compares four bytes of the names, keeps them apart.
ModifiersResolved ==
    modkeys # None => \A m \in Mod :
        IF KeysOf(m) = {} THEN modkeys[m] = 0 ELSE modkeys[m] \in KeysOf(m)

-----------------------------------------------------------------------------
(* The texts for which ModifiersResolved is proved. *)

KeyLines(t) == { i \in DOMAIN t : t[i].kind = "key" }
ModifierLines(t) == { i \in DOMAIN t : t[i].kind = "modifier" }

\* The line i is behind the head of the section of the keycodes, and before its end.
InSection(t, i) ==
    \E j \in DOMAIN t : /\ j < i /\ t[j].kind = "section"
                        /\ \A k \in DOMAIN t : j < k /\ k < i => t[k].kind \notin {"end", "modifier"}

\* The keys are in the section and the modifiers are not; the first key of each is in it.
Orderly(t) ==
    /\ \A i \in KeyLines(t) : InSection(t, i)
    /\ \A i \in ModifierLines(t) : /\ ~InSection(t, i)
                                   /\ \E k \in KeyLines(t) : t[k].name = Head(t[i].names)

\* No two names share a slot of the hash.
NamesApart(t) == \A i, k \in KeyLines(t) : Slot(t[i].name) = Slot(t[k].name) => t[i].name = t[k].name
=============================================================================
