---------------------------- MODULE Lifecycle_proofs ----------------------------
(***************************************************************************)
(* The loop of the server ends for no other reason than SIGINT or a failed *)
(* start, and after SIGINT it waits at most once more.                     *)
(***************************************************************************)
EXTENDS Lifecycle, TLAPS

\* In a started server only the SIGINT handler clears the flag.
ClearedByHandler == Started /\ ~running => interrupts # 0

IInv == TypeOK /\ ClearedByHandler /\ LeavesOnlyWhenAsked

\* Before the start nothing is left and nothing is claimed.
LEMMA InitIInv == Init => IInv
<1> SUFFICES ASSUME Init PROVE IInv
  OBVIOUS
<1>1. remaining \in 0 .. Timeout /\ interrupts \in 0 .. MaxSigInt
  BY TimeoutAssumption DEF Init
<1> QED
  BY <1>1 DEF Init, IInv, TypeOK, Places, ClearedByHandler, Started, LeavesOnlyWhenAsked

\* No step of main() leaves the loop without the flag cleared or the start failed.
LEMMA MainIInv == IInv /\ Main => IInv'
<1> SUFFICES ASSUME IInv, Main PROVE IInv'
  OBVIOUS
<1> USE DEF IInv, TypeOK, Places, ClearedByHandler, Started, LeavesOnlyWhenAsked, Goto
<1>1. CASE SetupHandler
  BY <1>1 DEF SetupHandler
<1>2. CASE Start
  BY <1>2 DEF Start
<1>3. CASE Bind
  BY <1>3 DEF Bind
<1>4. CASE BindFails
  BY <1>4 DEF BindFails
<1>5. CASE Loop
  BY <1>5 DEF Loop
<1>6. CASE EnterSelect
  BY <1>6 DEF EnterSelect
<1>7. CASE SelectReady
  BY <1>7 DEF SelectReady
<1>8. CASE Tick
  BY <1>8, TimeoutAssumption DEF Tick
<1>9. CASE SelectTimeout
  BY <1>9 DEF SelectTimeout
<1>10. CASE AfterSelect
  BY <1>10 DEF AfterSelect
<1>11. CASE Pass
  BY <1>11 DEF Pass
<1>12. CASE Destroy
  BY <1>12 DEF Destroy
<1> QED
  BY <1>1, <1>2, <1>3, <1>4, <1>5, <1>6, <1>7, <1>8, <1>9, <1>10, <1>11, <1>12 DEF Main

\* Nor do the peers and the user.
LEMMA EnvironmentIInv == IInv /\ (DataArrives \/ Kill \/ SigInt) => IInv'
<1> SUFFICES ASSUME IInv, DataArrives \/ Kill \/ SigInt PROVE IInv'
  OBVIOUS
<1> USE DEF IInv, TypeOK, Places, ClearedByHandler, Started, LeavesOnlyWhenAsked, Goto
<1>1. CASE DataArrives
  BY <1>1 DEF DataArrives
<1>2. CASE Kill
  BY <1>2 DEF Kill
<1>3. CASE SigInt
  <2>1. interrupts' \in 0 .. MaxSigInt /\ interrupts' # 0
    BY <1>3, TimeoutAssumption DEF SigInt
  <2> QED BY <1>3, <2>1 DEF SigInt
<1> QED BY <1>1, <1>2, <1>3

\* The invariant of the life cycle: the flag, the place and what has happened agree.
THEOREM LifecycleInvariant == Spec => []IInv
<1>1. IInv /\ [Next]_vars => IInv'
  <2>1. IInv /\ UNCHANGED vars => IInv'
    BY DEF IInv, TypeOK, Places, ClearedByHandler, Started, LeavesOnlyWhenAsked, vars
  <2> QED BY <2>1, MainIInv, EnvironmentIInv DEF Next
<1> QED BY <1>1, InitIInv, PTL DEF Spec

\* The time left never goes below zero and select() returns one of its three answers, at
\* every place of main().
THEOREM LifecycleTypeCorrect == Spec => []TypeOK
<1>1. IInv => TypeOK
  BY DEF IInv
<1> QED BY <1>1, LifecycleInvariant, PTL

\* No timeout, no failed select() and no burst of data ends the service.
THEOREM ServiceEndsOnlyWhenAsked == Spec => []LeavesOnlyWhenAsked
<1>1. IInv => LeavesOnlyWhenAsked
  BY DEF IInv
<1> QED BY <1>1, LifecycleInvariant, PTL

\* Once the flag is cleared, nothing leads back to the head of select().
THEOREM OneMoreWait == Spec => AtMostOneMoreWait
<1>1. [Next]_vars => [~running /\ Started => ~(pc # "poll" /\ pc' = "poll")]_vars
  <2> SUFFICES ASSUME Next, ~running, Started, pc # "poll", pc' = "poll" PROVE FALSE
    OBVIOUS
  <2>1. CASE Main
    BY <2>1 DEF Main, SetupHandler, Start, Bind, BindFails, Loop, EnterSelect, SelectReady,
                Tick, SelectTimeout, AfterSelect, Pass, Destroy, Goto
  <2>2. CASE DataArrives \/ Kill \/ SigInt
    BY <2>2 DEF DataArrives, Kill, SigInt, Goto
  <2> QED BY <2>1, <2>2 DEF Next
<1> QED BY <1>1, PTL DEF Spec, AtMostOneMoreWait
=============================================================================
