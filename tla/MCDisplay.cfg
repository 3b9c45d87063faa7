CONSTANTS
    less = less
    comma = comma
    None = None
    Sym <- MCSym
    seat0 = seat0
    seat1 = seat1
    Keycode <- MCKeycode
    ModifiersNum = 2
    Name <- MCName
    Desktops <- MCDesktops
    Syms <- MCSyms
    Text <- MCText
    Seat = {seat0, seat1}
    Keyboards = {seat0}
    Announcements <- MCAnnouncements
    Key <- MCKey
    LinuxKey <- MCLinuxKey
    Button = {272}
    Hotkeys <- MCHotkeys
    ScrollSensibility = 2
    ScrollReverse = TRUE
SPECIFICATION FairSpec
\* Without a keymap the program exits.
CHECK_DEADLOCK FALSE
INVARIANTS
    TypeOK
    FetchesKeymap
    FewestModifiers
    ModifiersResolved
    EverySymbolMapped
    HeldAsAsked
    HotkeyIsAChord
    WritesWhatIsAsked
PROPERTY StartsUp
