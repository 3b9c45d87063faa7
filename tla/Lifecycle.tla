------------------------------- MODULE Lifecycle -------------------------------
(***************************************************************************)
(* The life of the process (src/src/main.c and the loop of                 *)
(* minimote_server_start()): set up, wait in select() and handle what is   *)
(* ready, and stop when the SIGINT handler has cleared the flag that the   *)
(* loop looks at.  The handler may run between any two steps.              *)
(***************************************************************************)
EXTENDS Integers

CONSTANTS
    Timeout,    \* the time select() may wait, in ticks of a clock
    MaxSigInt   \* bound: how often SIGINT is sent

ASSUME TimeoutAssumption == Timeout \in Nat /\ MaxSigInt \in Nat

VARIABLES
    pc,             \* where main() and minimote_server_start() are
    running,        \* minimote_server_is_running
    ret,            \* what select() returned: "zero", "ready" or "error"
    remaining,      \* timeout: Linux leaves in it the time that was not waited
    readable,       \* some socket that is watched can be read
    startFailed,    \* history: minimote_server_start() returned false
    interrupts      \* history: how often the SIGINT handler has run

vars == <<pc, running, ret, remaining, readable, startFailed, interrupts>>

Places ==
    {"init",        \* before setup_sigint_handler(): SIGINT kills the process
     "setup",       \* before minimote_server_start() sets the flag
     "bind",        \* the sockets are made
     "loop",        \* at the condition of the outer loop
     "poll",        \* between that condition, or the inner one, and select()
     "wait",        \* in select()
     "return",      \* select() has returned
     "pass",        \* what is ready is handled
     "destroy",     \* behind minimote_server_start()
     "exited", "killed"}

Init ==
    /\ pc = "init"
    /\ running = FALSE
    /\ ret = "zero"
    /\ remaining = Timeout
    /\ readable = FALSE
    /\ startFailed = FALSE
    /\ interrupts = 0

Goto(from, to) == pc = from /\ pc' = to

-----------------------------------------------------------------------------
(* main() and minimote_server_start(). *)

SetupHandler ==
    /\ Goto("init", "setup")
    /\ UNCHANGED <<running, ret, remaining, readable, startFailed, interrupts>>

\* The flag is set without a look at what the handler may have done to it.
Start ==
    /\ Goto("setup", "bind")
    /\ running' = TRUE
    /\ UNCHANGED <<ret, remaining, readable, startFailed, interrupts>>

Bind ==
    /\ Goto("bind", "loop")
    /\ UNCHANGED <<running, ret, remaining, readable, startFailed, interrupts>>

\* A socket cannot be made or bound: main() does not look at the result.
BindFails ==
    /\ Goto("bind", "destroy")
    /\ startFailed' = TRUE
    /\ UNCHANGED <<running, ret, remaining, readable, interrupts>>

Loop ==
    /\ \/ running /\ Goto("loop", "poll")
       \/ ~running /\ Goto("loop", "destroy")
    /\ UNCHANGED <<running, ret, remaining, readable, startFailed, interrupts>>

EnterSelect ==
    /\ Goto("poll", "wait")
    /\ UNCHANGED <<running, ret, remaining, readable, startFailed, interrupts>>

SelectReady ==
    /\ readable
    /\ Goto("wait", "return")
    /\ ret' = "ready"
    /\ UNCHANGED <<running, remaining, readable, startFailed, interrupts>>

\* Mutant of Tick: select() is given no timeout.
TickForever ==
    /\ pc = "wait" /\ 0 < remaining
    /\ UNCHANGED vars

Tick ==
    /\ pc = "wait" /\ 0 < remaining
    /\ remaining' = remaining - 1
    /\ UNCHANGED <<pc, running, ret, readable, startFailed, interrupts>>

\* The timeout is never set again: from the first one on, select() does not wait.
SelectTimeout ==
    /\ ~readable /\ remaining = 0
    /\ Goto("wait", "return")
    /\ ret' = "zero"
    /\ UNCHANGED <<running, remaining, readable, startFailed, interrupts>>

\* Mutant of AfterSelect: the inner loop does not look at the flag.
PollUntilReady ==
    /\ \/ ret = "zero" /\ Goto("return", "poll")
       \/ ret # "zero" /\ ~running /\ Goto("return", "destroy")
       \/ ret = "error" /\ running /\ Goto("return", "loop")
       \/ ret = "ready" /\ running /\ Goto("return", "pass")
    /\ UNCHANGED <<running, ret, remaining, readable, startFailed, interrupts>>

\* Mutant of AfterSelect: a timeout ends the loop.
StopOnTimeout ==
    /\ \/ (ret = "zero" \/ ~running) /\ Goto("return", "destroy")
       \/ ret = "error" /\ running /\ Goto("return", "loop")
       \/ ret = "ready" /\ running /\ Goto("return", "pass")
    /\ UNCHANGED <<running, ret, remaining, readable, startFailed, interrupts>>

AfterSelect ==
    /\ \/ ~running /\ Goto("return", "destroy")
       \/ ret = "zero" /\ running /\ Goto("return", "poll")
       \/ ret = "error" /\ running /\ Goto("return", "loop")
       \/ ret = "ready" /\ running /\ Goto("return", "pass")
    /\ UNCHANGED <<running, ret, remaining, readable, startFailed, interrupts>>

\* One pass reads each ready socket once, which may leave more to read.
Pass ==
    /\ Goto("pass", "loop")
    /\ readable' \in BOOLEAN
    /\ UNCHANGED <<running, ret, remaining, startFailed, interrupts>>

Destroy ==
    /\ Goto("destroy", "exited")
    /\ UNCHANGED <<running, ret, remaining, readable, startFailed, interrupts>>

Main ==
    \/ SetupHandler \/ Start \/ Bind \/ BindFails
    \/ Loop \/ EnterSelect \/ SelectReady \/ Tick \/ SelectTimeout \/ AfterSelect
    \/ Pass \/ Destroy

-----------------------------------------------------------------------------
(* The peers and the user. *)

DataArrives ==
    /\ pc \in {"loop", "poll", "wait", "return", "pass"}
    /\ readable' = TRUE
    /\ UNCHANGED <<pc, running, ret, remaining, startFailed, interrupts>>

\* Without its handler, SIGINT ends the process.
Kill ==
    /\ Goto("init", "killed")
    /\ UNCHANGED <<running, ret, remaining, readable, startFailed, interrupts>>

\* sigint_handler(); select() is not restarted after it, SA_RESTART or not.
SigInt ==
    /\ pc \notin {"init", "exited", "killed"}
    /\ interrupts < MaxSigInt
    /\ interrupts' = interrupts + 1
    /\ running' = FALSE
    /\ IF pc = "wait" THEN pc' = "return" /\ ret' = "error" ELSE UNCHANGED <<pc, ret>>
    /\ UNCHANGED <<remaining, readable, startFailed>>

Next == Main \/ DataArrives \/ Kill \/ SigInt

Spec == Init /\ [][Next]_vars

\* The process is scheduled and time passes.
FairSpec == Spec /\ WF_vars(Main)

-----------------------------------------------------------------------------
TypeOK ==
    /\ pc \in Places
    /\ running \in BOOLEAN /\ readable \in BOOLEAN /\ startFailed \in BOOLEAN
    /\ ret \in {"zero", "ready", "error"}
    /\ remaining \in 0 .. Timeout
    /\ interrupts \in 0 .. MaxSigInt

\* minimote_server_start() has set the flag.
Started == pc \notin {"init", "setup", "killed"}

\* The loop is left because of SIGINT or a failed start: no timeout, failed
\* select() or burst of data ends the service.
LeavesOnlyWhenAsked ==
    pc \in {"destroy", "exited"} => startFailed \/ interrupts # 0

\* A SIGINT that arrives after the flag was last looked at finds select() about to
\* wait; it then waits that one time, and never again.
AtMostOneMoreWait ==
    [][~running /\ Started => ~(pc # "poll" /\ pc' = "poll")]_vars

\* Once the flag is cleared in a started server, the process exits: the timeout of
\* select() covers the moment in which SIGINT would otherwise be missed.
StopsAfterSigInt == ~running /\ Started ~> pc = "exited"
=============================================================================
