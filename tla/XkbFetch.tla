-------------------------------- MODULE XkbFetch --------------------------------
(***************************************************************************)
(* xkb_get_keymap_x11() and xkb_get_keymap_wayland()                       *)
(* (src/src/commons/utils/xkb_utils.c).  X11 answers calls.  A Wayland     *)
(* compositor takes requests from one queue and puts events into another,  *)
(* and the program lets its handlers see them twice, once for the seat and *)
(* once for its keyboard's keymap: each time it waits for any event at all *)
(* (wl_display_dispatch), then for those of all earlier requests           *)
(* (wl_display_roundtrip).                                                 *)
(***************************************************************************)
EXTENDS XkbKeymap

CONSTANTS
    Seat,           \* the seats of the compositor
    Keyboards,      \* those that have a keyboard
    Announcements   \* what the registry may announce: seats, and "other" globals

ASSUME SeatAssumption == Keyboards \subseteq Seat /\ None \notin Seat /\ "other" \notin Seat
ASSUME AnnouncementAssumption == Announcements \subseteq Seq(Seat \cup {"other"})

VARIABLES
    fetch,      \* what the program is about to do, see Stage
    announced,  \* what this compositor's registry announces
    requests,   \* to the compositor, in order
    events,     \* to the program, in order
    seat,       \* helper.seat
    keymapFd    \* helper.keymap_fd: the seat whose keymap it is, or None, not initialized

connection == <<announced, requests, events, seat, keymapFd>>
fetching == <<fetch, connection>>

Stage ==
    {"x11", "wayland",          \* connect
     "globals", "syncGlobals",  \* let the handlers see the registry's events
     "keymap", "syncKeymap",    \* and those of the keyboard
     "open",                    \* read the keymap file
     "fetched", "failed"}

FetchInit ==
    /\ fetch \in {"x11", "wayland"}
    /\ desktop = None
    /\ announced = << >> /\ requests = << >> /\ events = << >>
    /\ seat = None /\ keymapFd = None

-----------------------------------------------------------------------------
(* The program. *)

\* No connection, no xkb extension, no keymap: minimote_display_init() exits.
Fail ==
    /\ fetch \in {"x11", "wayland"}
    /\ fetch' = "failed"
    /\ UNCHANGED <<desktop, connection>>

FetchX11 ==
    /\ fetch = "x11" /\ fetch' = "fetched"
    /\ desktop' \in Desktops
    /\ UNCHANGED connection

Connect ==
    /\ fetch = "wayland" /\ fetch' = "globals"
    /\ announced' \in Announcements
    /\ requests' = <<[type |-> "get_registry"]>>
    /\ UNCHANGED <<desktop, events, seat, keymapFd>>

Sync == [type |-> "sync"]
Has(batch, type) == \E i \in DOMAIN batch : batch[i].type = type

\* Where the seats and the keymaps are in a batch, and the requests that bind the seats.
SeatsIn(batch) == { i \in DOMAIN batch : batch[i].type = "global" /\ batch[i].global # "other" }
KeymapsIn(batch) == { i \in DOMAIN batch : batch[i].type = "keymap" }
Binds(batch) == [i \in 1 .. Cardinality(SeatsIn(batch)) |-> [type |-> "bind"]]

\* The handlers see a batch of events: each seat is bound, the last one stays.
Handlers(batch) ==
    /\ IsPrefix(batch, events) /\ batch # << >>
    /\ seat' = IF SeatsIn(batch) = {} THEN seat ELSE batch[Max(SeatsIn(batch))].global
    /\ keymapFd' = IF KeymapsIn(batch) = {} THEN keymapFd ELSE batch[Max(KeymapsIn(batch))].seat

\* wl_display_dispatch() returns when there was something; then a roundtrip begins.
DispatchGlobals(batch) ==
    /\ fetch = "globals" /\ fetch' = "syncGlobals"
    /\ Handlers(batch)
    /\ requests' = requests \o Binds(batch) \o <<Sync>>

\* A roundtrip ends with the events among which its answer is.
RoundtripGlobals(batch) ==
    /\ fetch = "syncGlobals"
    /\ Handlers(batch)
    /\ \/ /\ ~Has(batch, "done") /\ UNCHANGED fetch
          /\ requests' = requests \o Binds(batch)
       \/ /\ Has(batch, "done") /\ seat' = None
          /\ fetch' = "failed" /\ UNCHANGED requests
       \/ /\ Has(batch, "done") /\ seat' # None
          /\ fetch' = "keymap"
          /\ requests' = requests \o Binds(batch) \o <<[type |-> "get_keyboard", seat |-> seat']>>

\* Mutant of DispatchKeymap: no roundtrip follows.
DispatchKeymapOnly(batch) ==
    /\ fetch = "keymap" /\ fetch' = "open"
    /\ Handlers(batch)
    /\ UNCHANGED requests

\* After a protocol error every further wait fails at once, which nobody looks at.
DispatchKeymap(batch) ==
    /\ fetch = "keymap"
    /\ Handlers(batch)
    /\ \/ Has(batch, "error") /\ fetch' = "open" /\ UNCHANGED requests
       \/ ~Has(batch, "error") /\ fetch' = "syncKeymap" /\ requests' = Append(requests, Sync)

RoundtripKeymap(batch) ==
    /\ fetch = "syncKeymap"
    /\ fetch' = IF Has(batch, "done") \/ Has(batch, "error") THEN "open" ELSE fetch
    /\ Handlers(batch)
    /\ UNCHANGED requests

Dispatch(batch) ==
    /\ \/ DispatchGlobals(batch) \/ RoundtripGlobals(batch)
       \/ DispatchKeymap(batch) \/ RoundtripKeymap(batch)
    /\ events' = SubSeq(events, Len(batch) + 1, Len(events))
    /\ UNCHANGED <<desktop, announced>>

\* fdopen(), stream_read(), xkb_keymap_new_from_string().  With a descriptor that is not
\* initialized this ends the program, one way or another.  Otherwise the program leaves
\* the compositor, and the function its variables.
OpenKeymap ==
    /\ fetch = "open"
    /\ \/ /\ keymapFd = None /\ fetch' = "failed"
          /\ UNCHANGED <<desktop, connection>>
       \/ /\ keymapFd # None /\ fetch' = "fetched"
          /\ desktop' \in Desktops
          /\ announced' = << >> /\ requests' = << >> /\ events' = << >>
          /\ seat' = None /\ keymapFd' = None

Fetch ==
    \/ Fail \/ FetchX11 \/ Connect \/ OpenKeymap
    \/ \E n \in 1 .. Len(events) : Dispatch(SubSeq(events, 1, n))

-----------------------------------------------------------------------------
(* The compositor. *)

Answer(request) ==
    CASE request.type = "get_registry" ->
           [i \in DOMAIN announced |-> [type |-> "global", global |-> announced[i]]]
      [] request.type = "sync" -> <<[type |-> "done"]>>
      [] request.type = "bind" -> <<[type |-> "capabilities"]>>
      [] request.type = "get_keyboard" ->
           IF request.seat \in Keyboards THEN <<[type |-> "keymap", seat |-> request.seat]>>
           ELSE <<[type |-> "error"]>>

\* It answers requests in order, as long as the program is connected, and none after
\* an error.
Compositor ==
    /\ fetch \in {"globals", "syncGlobals", "keymap", "syncKeymap"}
    /\ requests # << >> /\ ~Has(events, "error")
    /\ events' = events \o Answer(Head(requests))
    /\ requests' = Tail(requests)
    /\ UNCHANGED <<fetch, desktop, announced, seat, keymapFd>>

-----------------------------------------------------------------------------
FetchTypeOK ==
    /\ fetch \in Stage
    /\ desktop \in Desktops \cup {None}
    /\ announced \in Announcements \cup {<< >>}
    /\ seat \in Seat \cup {None} /\ keymapFd \in Seat \cup {None}

SeatsAnnounced == { i \in DOMAIN announced : announced[i] # "other" }
LastSeat == announced[Max(SeatsAnnounced)]

\* If the last seat of the compositor has a keyboard, the program gets the keymap of that
\* seat: the seat is known when its keyboard is asked for, the descriptor when it is used.
FetchesKeymap ==
    SeatsAnnounced # {} /\ LastSeat \in Keyboards =>
        /\ fetch # "failed"
        /\ fetch = "open" => keymapFd = LastSeat
=============================================================================
