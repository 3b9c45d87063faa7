-------------------------------- MODULE Display --------------------------------
(***************************************************************************)
(* Keys, buttons, the wheel and characters (src/src/display, and the       *)
(* handlers of src/src/controller that lead there).  At the start the      *)
(* display fetches the keymap and reads from it which keys make which      *)
(* symbols and which are modifiers.  From then on a packet of any client   *)
(* becomes input events of the one virtual device.  The server handles one *)
(* packet at a time, but sleeps between the events of a hotkey, a          *)
(* character or a scroll, and the desktop sees each as it comes.           *)
(***************************************************************************)
EXTENDS XkbFetch, XkbKeysyms, XkbModifiers

CONSTANTS
    Key,            \* minimote_key_type
    LinuxKey,       \* MINIMOTE_KEY_TO_LINUX_KEY: Key -> code
    Button,         \* BTN_LEFT, BTN_MIDDLE, BTN_RIGHT
    Hotkeys,        \* the HOTKEY payloads, of at most MAX_HOTKEY_LENGTH keys
    ScrollSensibility, ScrollReverse    \* controller->config

ASSUME KeyAssumption == LinuxKey \in [Key -> 0 .. 254]
ASSUME ButtonAssumption == Button \subseteq Nat /\ Button \cap 0 .. 254 = {}
ASSUME HotkeyAssumption == Hotkeys \subseteq Seq(Key)
ASSUME ScrollAssumption == ScrollSensibility \in Int /\ ScrollReverse \in BOOLEAN

\* minimote_display_init() registers the keys below 255 and the three buttons.
Supported == 0 .. 254 \cup Button

Packets ==
    [type : {"DOWN", "UP", "CLICK"}, button : Button]
    \cup [type : {"KEY_DOWN", "KEY_UP", "KEY_CLICK"}, key : Key]
    \cup [type : {"HOTKEY"}, keys : Hotkeys]
    \cup [type : {"WRITE"}, sym : Sym]
    \cup [type : {"SCROLL_UP", "SCROLL_DOWN"}]

NoPacket == [type |-> "NONE"]

VARIABLES
    down,       \* the kernel: the keys and buttons that are pressed
    packet,     \* the packet being handled, or the last one
    todo,       \* the events of it that are still to be written
    before,     \* history: what was pressed when its handling began
    asked,      \* history: what the packets, one by one, ask to be held
    typed       \* history: the key presses that type, since the handling began

device == <<down, packet, todo, before, asked, typed>>
startup == <<desktop, fetching, scan, parse>>
vars == <<startup, device>>

Init ==
    /\ FetchInit /\ ScanInit /\ ParseInit
    /\ down = {} /\ asked = {} /\ before = {}
    /\ packet = NoPacket
    /\ todo = << >> /\ typed = << >>

-----------------------------------------------------------------------------
(* minimote_display_init(). *)

Scanned == fetch = "fetched" /\ ~More
Ready == modkeys # None

\* The keymap, then the symbols, then the modifiers.
Start ==
    \/ Fetch /\ UNCHANGED <<scan, parse>>
    \/ fetch = "fetched" /\ ScanNext /\ UNCHANGED <<fetching, parse>>
    \/ Scanned /\ ParseNext /\ UNCHANGED <<fetching, scan>>

-----------------------------------------------------------------------------
(* The events that a packet becomes. *)

Press(code) == [type |-> "key", code |-> code, value |-> 1]
Release(code) == [type |-> "key", code |-> code, value |-> 0]
Wheel(value) == [type |-> "wheel", code |-> 8, value |-> value]

\* Mutant of KeyCode: the key type goes to the kernel as it is.
KeyCodeOfType(key) == key

KeyCode(key) == LinuxKey[key]

\* xkb_keycode_to_linux_keycode()
LinuxKeycode(k) == k - 8

\* Mutant of Chord: the last loop leaves out the first key.
ChordButOne(codes) ==
    [i \in 1 .. Len(codes) |-> Press(codes[i])]
    \o [i \in 1 .. Len(codes) - 1 |-> Release(codes[Len(codes) + 1 - i])]

\* Mutant of Chord: each key is released before the next one is pressed.
ClickEach(codes) == FlattenSeq([i \in 1 .. Len(codes) |-> <<Press(codes[i]), Release(codes[i])>>])

\* Forward, press every key; backward, release it.
Chord(codes) ==
    [i \in 1 .. Len(codes) |-> Press(codes[i])]
    \o [i \in 1 .. Len(codes) |-> Release(Reverse(codes)[i])]

\* The modifiers of a symbol, in the order of their indices.
Modifiers(s) ==
    LET indices == mapping[s].modifiers
    IN  CHOOSE f \in [1 .. Cardinality(indices) -> indices] :
           \A i, j \in DOMAIN f : i < j => f[i] < f[j]
ModifierCodes(s) == [i \in DOMAIN Modifiers(s) |-> LinuxKeycode(modkeys[Modifiers(s)[i]])]

\* Mutant of WriteCodes: the key is pressed before its modifiers.
WriteCodesKeyFirst(s) == <<LinuxKeycode(mapping[s].keycode)>> \o ModifierCodes(s)

\* The modifiers, then the key.
WriteCodes(s) == ModifierCodes(s) \o <<LinuxKeycode(mapping[s].keycode)>>

\* What no key makes is not written.
Written(s) == IF mapping[s] = None THEN << >> ELSE WriteCodes(s)

\* The codes of a packet, in the order in which they are pressed.
Codes(p) ==
    CASE p.type \in {"DOWN", "UP", "CLICK"} -> <<p.button>>
      [] p.type \in {"KEY_DOWN", "KEY_UP", "KEY_CLICK"} -> <<KeyCode(p.key)>>
      [] p.type = "HOTKEY" -> [i \in 1 .. Len(p.keys) |-> KeyCode(p.keys[i])]
      [] p.type = "WRITE" -> Written(p.sym)
      [] p.type \in {"SCROLL_UP", "SCROLL_DOWN"} -> << >>

\* minimote_controller_scroll(): as many notches as configured, all in one direction.
Notch(up) == Wheel(IF up # ScrollReverse THEN 1 ELSE -1)
Scroll(up) == [i \in 1 .. ScrollSensibility |-> Notch(up)]

Events(p) ==
    CASE p.type \in {"DOWN", "KEY_DOWN"} -> <<Press(Codes(p)[1])>>
      [] p.type \in {"UP", "KEY_UP"} -> <<Release(Codes(p)[1])>>
      [] p.type \in {"SCROLL_UP", "SCROLL_DOWN"} -> Scroll(p.type = "SCROLL_UP")
      [] OTHER -> Chord(Codes(p))

\* Packets are served when the display is ready.
Handle(p) ==
    /\ Ready
    /\ todo = << >>
    /\ packet' = p
    /\ todo' = Events(p)
    /\ before' = down /\ typed' = << >>
    /\ asked' = (asked \ ToSet(Codes(p)))
                \cup (IF p.type \in {"DOWN", "KEY_DOWN"} THEN ToSet(Codes(p)) ELSE {})
    /\ UNCHANGED <<startup, down>>

-----------------------------------------------------------------------------
(* The kernel and the desktop. *)

ModCodes == UNION { { LinuxKeycode(k) : k \in KeysOf(m) } : m \in Mod }
HeldMods(codes) == { m \in Mod : \E k \in KeysOf(m) : LinuxKeycode(k) \in codes }

\* A key press as the desktop sees it, with the modifiers that are held; what it makes of it.
KeyPress(code, codes) == [code |-> code, held |-> HeldMods(codes)]
Symbols(press) ==
    IF press.code + 8 \in Keycode THEN Syms[desktop][press.code + 8][Held(press.held)] ELSE {}

\* The kernel.  An event that changes nothing, or is of a code that was not registered,
\* is not passed on.
EmitKey(e) ==
    /\ e.type = "key"
    /\ down' = IF e.code \notin Supported THEN down
               ELSE IF e.value = 1 THEN down \cup {e.code} ELSE down \ {e.code}
    /\ typed' = IF down' \ down \subseteq ModCodes \cup Button THEN typed
                ELSE Append(typed, KeyPress(e.code, down))

EmitWheel(e) == e.type = "wheel" /\ UNCHANGED <<down, typed>>

\* uinput_emit_event_and_syn()
Emit ==
    /\ todo # << >>
    /\ EmitKey(Head(todo)) \/ EmitWheel(Head(todo))
    /\ todo' = Tail(todo)
    /\ UNCHANGED <<startup, packet, before, asked>>

Next ==
    \/ Start /\ UNCHANGED device
    \/ Compositor /\ UNCHANGED <<scan, parse, device>>
    \/ \E p \in Packets : Handle(p)
    \/ Emit

Spec == Init /\ [][Next]_vars

\* The program is scheduled, and the compositor answers.
FairSpec == Spec /\ WF_startup(Start) /\ WF_fetching(Compositor)

-----------------------------------------------------------------------------
\* The codes that an event may carry: those of the keys, the buttons and the keyboard.
Codomain ==
    { LinuxKey[k] : k \in Key } \cup Button \cup { LinuxKeycode(k) : k \in Keycode \cup {0} }

TypeOK ==
    /\ FetchTypeOK /\ ScanTypeOK /\ ParseTypeOK
    /\ down \subseteq Supported /\ before \subseteq Supported
    /\ packet \in Packets \cup {NoPacket}
    /\ todo \in Seq([type : {"key"}, code : Codomain, value : {0, 1}]
                   \cup [type : {"wheel"}, code : {8}, value : {-1, 1}])
    /\ asked \subseteq Codomain
    /\ typed \in Seq([code : Codomain, held : SUBSET Mod])

\* The start ends: with a keymap that is read line by line to its end, or without one.
StartsUp == <>(fetch = "failed" \/ Ready)

\* Between packets a key is pressed if, and only if, the last packet that was about it,
\* of any client, is a DOWN: no hotkey, no character and no click leaves a key pressed.
HeldAsAsked == todo = << >> => down = asked

\* When the last key of a hotkey is pressed, all of them are.
HotkeyIsAChord ==
    packet.type = "HOTKEY" /\ Len(todo) = Len(packet.keys) =>
        \A i \in 1 .. Len(packet.keys) : LinuxKey[packet.keys[i]] \in down

\* When packets are served, every symbol is mapped that any key but the last one has.
EverySymbolMapped ==
    packet # NoPacket =>
        \A k \in Keycode \ {MaxKeycode} : \A m \in Mask : Syms[desktop][k][m] \subseteq Mapped

\* The keys that type, of those that the display looks at: the device is registered for
\* them, and they are of no modifier.
TypingKeys == { k \in Keycode \ {MaxKeycode} :
    LinuxKeycode(k) \in 0 .. 254 /\ \A m \in Mod : k \notin KeysOf(m) }

On(s, k) == \E m \in Mask : s \in Syms[desktop][k][m]
OnOneKey(s) == \E k \in TypingKeys : \A l \in Keycode : On(s, l) <=> l = k

\* A character that is on one key of the keyboard, and one that types, is typed as it was
\* asked for: one key press, of which the desktop makes that character, and what else the
\* level has.  This is so if every modifier has a key and nothing that changes the
\* meaning of a key was held when the packet came.
WritesWhatIsAsked ==
    /\ packet.type = "WRITE" /\ todo = << >>
    /\ OnOneKey(packet.sym)
    /\ before \subseteq Button
    /\ \A m \in Mod : KeysOf(m) # {}
    => Len(typed) = 1 /\ packet.sym \in Symbols(typed[1])

-----------------------------------------------------------------------------
(* The keyboards for which WritesWhatIsAsked is proved. *)

\* No key is of two modifiers, and their codes are registered.
Regular(d) ==
    /\ \A m, n \in Mod : \A k \in KeysIn[d][m] \cap KeysIn[d][n] : m = n
    /\ \A m \in Mod : \A k \in KeysIn[d][m] : LinuxKeycode(k) \in 0 .. 254

\* A mask is the sum of the powers of two that its bits stand for.
MasksAreBinary == \A m \in Mask : Held(Indices(m)) = m
=============================================================================
