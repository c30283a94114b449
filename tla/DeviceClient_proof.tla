-------------------------- MODULE DeviceClient_proof --------------------------
(***************************************************************************)
(* Proofs about DeviceClient for any number of callers, any threshold,     *)
(* cooldown and number of retries, on any network.                         *)
(***************************************************************************)
EXTENDS DeviceClient, TLAPS

\* The breaker's state tells how long ago the last attempt failed.
BreakerInv ==
    /\ opened => failures >= Threshold /\ sinceOpened = quiet
    /\ (failures >= Threshold /\ ~opened) => quiet = Cooldown

\* Only a read with attempts left sleeps; a write under way has not reached
\* the device.
CallInv ==
    \A c \in Callers :
        /\ pc[c] = "backoff" => kind[c] = "read" /\ attempt[c] < Retries
        /\ (kind[c] = "write" /\ pc[c] # "idle") =>
             applied[c] = 0 /\ result[c] = "none"

IInv == TypeOK /\ BreakerInv /\ CallInv /\ WrittenAtMostOnce

-----------------------------------------------------------------------------
(* What one step does to its own call, and leaves of the others.            *)

\* A step of c keeps what every other caller's invariants speak of.
Others(c) ==
    \A d \in Callers \ {c} :
        /\ pc'[d] = pc[d]
        /\ kind'[d] = kind[d]
        /\ attempt'[d] = attempt[d]
        /\ result'[d] = result[d]
        /\ applied'[d] = applied[d]

\* What the invariants say of one caller.
Settled(c) ==
    /\ pc[c] = "backoff" => kind[c] = "read" /\ attempt[c] < Retries
    /\ kind[c] = "write" =>
         /\ pc[c] # "idle" => applied[c] = 0 /\ result[c] = "none"
         /\ applied[c] \in {0, 1}
         /\ result[c] = "ok" => applied[c] = 1
         /\ result[c] \in {"circuit open", "no connection", "internal error"}
              => applied[c] = 0

LEMMA OthersKept ==
    ASSUME CallInv, WrittenAtMostOnce, NEW c \in Callers, Others(c), Settled(c)'
    PROVE  CallInv' /\ WrittenAtMostOnce'
<1> SUFFICES ASSUME NEW d \in Callers
             PROVE
        /\ pc'[d] = "backoff" => kind'[d] = "read" /\ attempt'[d] < Retries
        /\ (kind'[d] = "write" /\ pc'[d] # "idle") =>
             applied'[d] = 0 /\ result'[d] = "none"
        /\ kind'[d] = "write" =>
             /\ applied'[d] <= 1
             /\ result'[d] = "ok" => applied'[d] = 1
             /\ result'[d] \in {"circuit open", "no connection", "internal error"}
                  => applied'[d] = 0
  BY DEF CallInv, WrittenAtMostOnce
<1>1. CASE d = c
  <2>1. applied'[c] \in {0, 1} => applied'[c] <= 1
    OBVIOUS
  <2>. QED
    BY <1>1, <2>1 DEF Settled
<1>2. CASE d # c
  <2>1. /\ pc'[d] = pc[d] /\ kind'[d] = kind[d] /\ attempt'[d] = attempt[d]
        /\ result'[d] = result[d] /\ applied'[d] = applied[d]
    BY <1>2 DEF Others
  <2>. QED
    BY <2>1 DEF CallInv, WrittenAtMostOnce
<1>. QED
  BY <1>1, <1>2

\* An invariant of the calls speaks of these five variables only.
LEMMA CallsKept ==
    ASSUME CallInv, WrittenAtMostOnce,
           UNCHANGED <<pc, kind, attempt, result, applied>>
    PROVE  CallInv' /\ WrittenAtMostOnce'
  BY DEF CallInv, WrittenAtMostOnce

LEMMA ReturnDoes ==
    ASSUME TypeOK, NEW c \in Callers, NEW how \in Results, Return(c, how)
    PROVE  /\ pc' \in [Callers -> Steps]
           /\ attempt' \in [Callers -> 0..Retries]
           /\ via' \in [Callers -> Sessions]
           /\ result' \in [Callers -> Results]
           /\ nap' = nap /\ kind' = kind /\ stopped' = stopped
           /\ pc'[c] = "idle" /\ result'[c] = how
           /\ \A d \in Callers \ {c} :
                 pc'[d] = pc[d] /\ attempt'[d] = attempt[d] /\ result'[d] = result[d]
  BY DeviceClientConstants DEF Return, GoTo, TypeOK, Steps, Sessions

LEMMA RetryOrRaiseDoes ==
    ASSUME TypeOK, NEW c \in Callers, NEW how \in Results, RetryOrRaise(c, how)
    PROVE  /\ pc' \in [Callers -> Steps]
           /\ attempt' \in [Callers -> 0..Retries]
           /\ via' \in [Callers -> Sessions]
           /\ result' \in [Callers -> Results]
           /\ nap' \in [Callers -> 0..2]
           /\ kind' = kind /\ stopped' = stopped
           /\ \/ /\ pc'[c] = "backoff" /\ kind[c] = "read"
                 /\ attempt'[c] < Retries /\ result'[c] = result[c]
              \/ pc'[c] = "idle" /\ result'[c] = how
           /\ \A d \in Callers \ {c} :
                 pc'[d] = pc[d] /\ attempt'[d] = attempt[d] /\ result'[d] = result[d]
<1>1. CASE MayRetry(c) /\ GoTo(c, "backoff")
           /\ nap' = [nap EXCEPT ![c] = RetryDelay(attempt[c])]
           /\ via' = [via EXCEPT ![c] = "none"]
           /\ UNCHANGED <<kind, attempt, result, stopped>>
  <2>1. RetryDelay(attempt[c]) \in 0..2
    BY DEF RetryDelay
  <2>. QED
    BY <1>1, <2>1 DEF MayRetry, GoTo, TypeOK, Steps, Sessions
<1>2. CASE Return(c, how)
  BY <1>2, ReturnDoes DEF TypeOK
<1>. QED
  BY <1>1, <1>2 DEF RetryOrRaise

LEMMA CapType ==
    /\ Threshold \in Nat /\ Threshold > 0
    /\ FailureCap = Threshold + 1
    /\ 0 \in 0..FailureCap
    /\ \A n \in 0..FailureCap :
         /\ CountUp(n) \in 0..FailureCap
         /\ n >= Threshold => CountUp(n) >= Threshold
<1>1. Threshold \in Nat /\ Threshold > 0 /\ FailureCap = Threshold + 1
  BY DeviceClientConstants DEF FailureCap
<1>. QED
  BY <1>1 DEF CountUp

LEMMA OlderType ==
    ASSUME NEW age \in 0..Cooldown
    PROVE  Older(age) \in 0..Cooldown /\ (age = Cooldown => Older(age) = Cooldown)
  BY DeviceClientConstants DEF Older

-----------------------------------------------------------------------------
(* The invariant.                                                           *)

LEMMA IInvInit == Init => IInv
<1> SUFFICES ASSUME Init
             PROVE  IInv
  OBVIOUS
<1>1. TypeOK
  <2>1. /\ up \in BOOLEAN /\ opened \in BOOLEAN /\ stopped \in BOOLEAN
        /\ conn \in Sessions
    BY DEF Init, Sessions
  <2>2. failures \in 0..FailureCap /\ sinceOpened \in 0..Cooldown /\ quiet \in 0..Cooldown
    BY CapType, DeviceClientConstants DEF Init
  <2>3. attempt \in [Callers -> 0..Retries] /\ nap \in [Callers -> 0..2]
        /\ applied \in [Callers -> Nat]
    BY DeviceClientConstants DEF Init
  <2>4. /\ pc \in [Callers -> Steps] /\ kind \in [Callers -> Kinds]
        /\ via \in [Callers -> Sessions] /\ result \in [Callers -> Results]
    BY DEF Init, Steps, Kinds, Sessions, Results
  <2>. QED
    BY <2>1, <2>2, <2>3, <2>4 DEF TypeOK
<1>2. BreakerInv /\ CallInv /\ WrittenAtMostOnce
  BY DeviceClientConstants DEF Init, BreakerInv, CallInv, WrittenAtMostOnce
<1>. QED
  BY <1>1, <1>2 DEF IInv

LEMMA BeginStep ==
    ASSUME IInv, NEW c \in Callers, NEW k \in Kinds, Begin(c, k)
    PROVE  IInv'
<1>1. TypeOK'
  BY DEF Begin, GoTo, IInv, TypeOK, Steps, Results, breaker
<1>2. BreakerInv'
  BY DEF Begin, IInv, BreakerInv, breaker
<1>3. Others(c)
  BY DEF Begin, GoTo, IInv, TypeOK, Others
<1>4. pc'[c] = "check" /\ result'[c] = "none" /\ applied'[c] = 0
  BY DEF Begin, GoTo, IInv, TypeOK
<1>5. CallInv' /\ WrittenAtMostOnce'
  BY <1>3, <1>4, OthersKept DEF Settled, IInv
<1>. QED
  BY <1>1, <1>2, <1>5 DEF IInv

LEMMA CheckStep ==
    ASSUME IInv, NEW c \in Callers, Check(c)
    PROVE  IInv'
<1>1. TypeOK'
  BY DEF Check, GoTo, IInv, TypeOK, Steps, breaker
<1>2. BreakerInv'
  BY DEF Check, IInv, BreakerInv, breaker
<1>3. Others(c)
  BY DEF Check, GoTo, IInv, TypeOK, Others
<1>4. /\ pc'[c] \in {"admit", "invoke"} /\ pc[c] = "check"
      /\ UNCHANGED <<kind, attempt, result, applied>>
  BY DEF Check, GoTo, IInv, TypeOK
<1>5. CallInv' /\ WrittenAtMostOnce'
  BY <1>3, <1>4, OthersKept DEF Settled, IInv, CallInv, WrittenAtMostOnce
<1>. QED
  BY <1>1, <1>2, <1>5 DEF IInv

LEMMA AdmitStep ==
    ASSUME IInv, NEW c \in Callers, Admit(c)
    PROVE  IInv'
<1>0. /\ TypeOK /\ BreakerInv /\ pc[c] = "admit"
      /\ UNCHANGED <<up, conn, failures, sinceOpened, quiet, applied>>
  BY DEF Admit, IInv
<1>1. CASE Cooling /\ Return(c, "circuit open") /\ UNCHANGED opened
  <2>1. TypeOK'
    BY <1>0, <1>1, ReturnDoes DEF TypeOK, Results
  <2>2. BreakerInv'
    BY <1>0, <1>1 DEF BreakerInv
  <2>3. Others(c) /\ pc'[c] = "idle" /\ result'[c] = "circuit open" /\ kind' = kind
    BY <1>0, <1>1, ReturnDoes DEF Others, Results
  <2>4. CallInv' /\ WrittenAtMostOnce'
    BY <1>0, <2>3, OthersKept DEF Settled, IInv, CallInv
  <2>. QED
    BY <2>1, <2>2, <2>4 DEF IInv
<1>2. CASE /\ ~Cooling
           /\ opened' = FALSE
           /\ GoTo(c, "connect")
           /\ UNCHANGED <<kind, attempt, nap, via, result, stopped>>
  <2>1. TypeOK'
    BY <1>0, <1>2 DEF GoTo, TypeOK, Steps
  <2>2. BreakerInv'
    BY <1>0, <1>2, DeviceClientConstants DEF BreakerInv, Cooling, TypeOK
  <2>3. Others(c) /\ pc'[c] = "connect"
    BY <1>0, <1>2 DEF GoTo, TypeOK, Others
  <2>4. CallInv' /\ WrittenAtMostOnce'
    BY <1>0, <1>2, <2>3, OthersKept DEF Settled, IInv, CallInv, WrittenAtMostOnce
  <2>. QED
    BY <2>1, <2>2, <2>4 DEF IInv
<1>. QED
  BY <1>1, <1>2 DEF Admit

LEMMA ConnectedStep ==
    ASSUME IInv, NEW c \in Callers, Connected(c)
    PROVE  IInv'
<1>1. TypeOK'
  BY DEF Connected, GoTo, IInv, TypeOK, Steps, Sessions, breaker
<1>2. BreakerInv'
  BY DEF Connected, IInv, BreakerInv, breaker
<1>3. Others(c) /\ pc'[c] = "record"
  BY DEF Connected, GoTo, IInv, TypeOK, Others
<1>4. CallInv' /\ WrittenAtMostOnce'
  BY <1>3, OthersKept DEF Settled, Connected, IInv, CallInv, WrittenAtMostOnce
<1>. QED
  BY <1>1, <1>2, <1>4 DEF IInv

LEMMA ConnectFailsStep ==
    ASSUME IInv, NEW c \in Callers, ConnectFails(c)
    PROVE  IInv'
<1>0. /\ TypeOK /\ BreakerInv /\ pc[c] = "connect"
      /\ UNCHANGED <<up, conn, applied>>
      /\ failures' = CountUp(failures)
      /\ quiet' = 0
      /\ RetryOrRaise(c, "no connection")
  BY DEF ConnectFails, IInv
<1>1. failures' \in 0..FailureCap /\ failures \in 0..FailureCap
  BY <1>0, CapType DEF TypeOK
<1>2. (IF failures' >= Threshold
       THEN opened' = TRUE /\ sinceOpened' = 0
       ELSE opened' = opened /\ sinceOpened' = sinceOpened)
  BY DEF ConnectFails, Opens
<1>3. TypeOK'
  <2>1. 0 \in 0..Cooldown
    BY DeviceClientConstants
  <2>2. opened' \in BOOLEAN /\ sinceOpened' \in 0..Cooldown
    BY <1>0, <1>2, <2>1 DEF TypeOK
  <2>. QED
    BY <1>0, <1>1, <2>1, <2>2, RetryOrRaiseDoes DEF TypeOK, Results
<1>4. BreakerInv'
  <2>1. CASE failures' >= Threshold
    BY <1>0, <1>2, <2>1 DEF BreakerInv
  <2>2. CASE ~(failures' >= Threshold)
    <3>1. ~(failures >= Threshold)
      BY <1>0, <1>1, <2>2, CapType
    <3>. QED
      BY <1>0, <1>2, <2>2, <3>1 DEF BreakerInv
  <2>. QED
    BY <2>1, <2>2
<1>5. Others(c) /\ kind' = kind
  BY <1>0, RetryOrRaiseDoes DEF Others, Results
<1>6. CallInv' /\ WrittenAtMostOnce'
  BY <1>0, <1>5, RetryOrRaiseDoes, OthersKept DEF Settled, IInv, CallInv, Results
<1>. QED
  BY <1>3, <1>4, <1>6 DEF IInv

LEMMA TlsSetupFailsStep ==
    ASSUME IInv, NEW c \in Callers, TlsSetupFails(c)
    PROVE  IInv'
<1>0. /\ TypeOK /\ BreakerInv /\ pc[c] = "connect"
      /\ Return(c, "internal error")
      /\ UNCHANGED <<up, conn, failures, opened, sinceOpened, quiet, applied>>
  BY DEF TlsSetupFails, IInv, breaker
<1>1. TypeOK'
  BY <1>0, ReturnDoes DEF TypeOK, Results
<1>2. BreakerInv'
  BY <1>0 DEF BreakerInv
<1>3. Others(c) /\ pc'[c] = "idle" /\ result'[c] = "internal error" /\ kind' = kind
  BY <1>0, ReturnDoes DEF Others, Results
<1>4. CallInv' /\ WrittenAtMostOnce'
  BY <1>0, <1>3, OthersKept DEF Settled, IInv, CallInv
<1>. QED
  BY <1>1, <1>2, <1>4 DEF IInv

LEMMA RecordStep ==
    ASSUME IInv, NEW c \in Callers, Record(c)
    PROVE  IInv'
<1>1. TypeOK'
  BY CapType DEF Record, GoTo, IInv, TypeOK, Steps
<1>2. BreakerInv'
  BY DeviceClientConstants DEF Record, IInv, BreakerInv
<1>3. Others(c) /\ pc'[c] = "invoke"
  BY DEF Record, GoTo, IInv, TypeOK, Others
<1>4. CallInv' /\ WrittenAtMostOnce'
  BY <1>3, OthersKept DEF Settled, Record, IInv, CallInv, WrittenAtMostOnce
<1>. QED
  BY <1>1, <1>2, <1>4 DEF IInv

LEMMA ApplyDoes ==
    ASSUME TypeOK, NEW c \in Callers, Apply(c)
    PROVE  /\ applied' \in [Callers -> Nat]
           /\ kind[c] = "write" => applied'[c] = applied[c] + 1
           /\ \A d \in Callers \ {c} : applied'[d] = applied[d]
  BY DEF Apply, TypeOK

LEMMA ReplyStep ==
    ASSUME IInv, NEW c \in Callers, Reply(c)
    PROVE  IInv'
<1>0. /\ TypeOK /\ BreakerInv /\ pc[c] = "invoke"
      /\ Return(c, "ok") /\ Apply(c)
      /\ UNCHANGED <<up, conn, failures, opened, sinceOpened, quiet>>
  BY DEF Reply, IInv, breaker
<1>1. TypeOK'
  BY <1>0, ReturnDoes, ApplyDoes DEF TypeOK, Results
<1>2. BreakerInv'
  BY <1>0 DEF BreakerInv
<1>3. Others(c) /\ pc'[c] = "idle" /\ result'[c] = "ok" /\ kind' = kind
  BY <1>0, ReturnDoes, ApplyDoes DEF Others, Results
<1>4. kind[c] = "write" => applied'[c] = 1
  BY <1>0, ApplyDoes DEF IInv, CallInv
<1>5. CallInv' /\ WrittenAtMostOnce'
  BY <1>3, <1>4, OthersKept DEF Settled, IInv
<1>. QED
  BY <1>1, <1>2, <1>5 DEF IInv

LEMMA TrapStep ==
    ASSUME IInv, NEW c \in Callers, Trap(c)
    PROVE  IInv'
<1>0. /\ TypeOK /\ BreakerInv /\ pc[c] = "invoke"
      /\ Return(c, "command failed")
      /\ UNCHANGED <<up, conn, failures, opened, sinceOpened, quiet, applied>>
  BY DEF Trap, IInv, breaker
<1>1. TypeOK'
  BY <1>0, ReturnDoes DEF TypeOK, Results
<1>2. BreakerInv'
  BY <1>0 DEF BreakerInv
<1>3. Others(c) /\ pc'[c] = "idle" /\ result'[c] = "command failed" /\ kind' = kind
  BY <1>0, ReturnDoes DEF Others, Results
<1>4. CallInv' /\ WrittenAtMostOnce'
  BY <1>0, <1>3, OthersKept DEF Settled, IInv, CallInv
<1>. QED
  BY <1>1, <1>2, <1>4 DEF IInv

LEMMA LostStep ==
    ASSUME IInv, NEW c \in Callers, Lost(c)
    PROVE  IInv'
<1>0. /\ TypeOK /\ BreakerInv /\ pc[c] = "invoke"
      /\ RetryOrRaise(c, "command failed")
      /\ Apply(c) \/ UNCHANGED applied
      /\ UNCHANGED <<up, conn, failures, opened, sinceOpened, quiet>>
  BY DEF Lost, IInv, breaker
<1>1. /\ applied' \in [Callers -> Nat]
      /\ \A d \in Callers \ {c} : applied'[d] = applied[d]
      /\ kind[c] = "write" => applied'[c] \in {0, 1}
  <2>0. kind[c] = "write" => applied[c] = 0
    BY <1>0 DEF IInv, CallInv
  <2>1. CASE Apply(c)
    <3>1. kind[c] = "write" => applied'[c] = applied[c] + 1
      BY <1>0, <2>1, ApplyDoes
    <3>2. kind[c] = "write" => applied'[c] = 1
      BY <2>0, <3>1
    <3>. QED
      BY <1>0, <2>1, <3>2, ApplyDoes
  <2>2. CASE UNCHANGED applied
    BY <1>0, <2>0, <2>2 DEF TypeOK
  <2>. QED
    BY <1>0, <2>1, <2>2
<1>2. TypeOK'
  BY <1>0, <1>1, RetryOrRaiseDoes DEF TypeOK, Results
<1>3. BreakerInv'
  BY <1>0 DEF BreakerInv
<1>4. Others(c) /\ kind' = kind
  BY <1>0, <1>1, RetryOrRaiseDoes DEF Others, Results
<1>5. \/ pc'[c] = "backoff" /\ kind[c] = "read" /\ attempt'[c] < Retries
      \/ pc'[c] = "idle" /\ result'[c] = "command failed"
  BY <1>0, RetryOrRaiseDoes DEF Results
<1>6. CallInv' /\ WrittenAtMostOnce'
  BY <1>1, <1>4, <1>5, OthersKept DEF Settled, IInv
<1>. QED
  BY <1>2, <1>3, <1>6 DEF IInv

LEMMA WakeStep ==
    ASSUME IInv, NEW c \in Callers, Wake(c)
    PROVE  IInv'
<1>1. kind[c] = "read" /\ attempt[c] < Retries /\ attempt[c] \in 0..Retries
  BY DEF Wake, IInv, CallInv, TypeOK
<1>2. attempt[c] + 1 \in 0..Retries
  BY <1>1, DeviceClientConstants
<1>3. TypeOK'
  BY <1>2 DEF Wake, GoTo, NextAttempt, IInv, TypeOK, Steps, breaker
<1>4. BreakerInv'
  BY DEF Wake, IInv, BreakerInv, breaker
<1>5. Others(c) /\ pc'[c] = "check"
  BY DEF Wake, GoTo, NextAttempt, IInv, TypeOK, Others
<1>6. CallInv' /\ WrittenAtMostOnce'
  BY <1>1, <1>5, OthersKept DEF Settled, Wake, IInv
<1>. QED
  BY <1>3, <1>4, <1>6 DEF IInv

LEMMA OutageStep == IInv /\ Outage => IInv'
<1> SUFFICES ASSUME IInv, Outage
             PROVE  IInv'
  OBVIOUS
<1>1. \A session \in Sessions : Dropped(session) \in Sessions
  BY DEF Dropped, Sessions
<1>2. TypeOK'
  BY <1>1 DEF Outage, IInv, TypeOK, breaker
<1>3. BreakerInv'
  BY DEF Outage, IInv, BreakerInv, breaker
<1>4. CallInv' /\ WrittenAtMostOnce'
  BY CallsKept DEF Outage, IInv
<1>. QED
  BY <1>2, <1>3, <1>4 DEF IInv

LEMMA TickStep == IInv /\ Tick => IInv'
<1> SUFFICES ASSUME IInv, Tick
             PROVE  IInv'
  OBVIOUS
<1>0. /\ sinceOpened \in 0..Cooldown /\ quiet \in 0..Cooldown
      /\ sinceOpened' = (IF opened THEN Older(sinceOpened) ELSE sinceOpened)
      /\ quiet' = Older(quiet)
      /\ UNCHANGED <<failures, opened>>
  BY DEF Tick, IInv, TypeOK
<1>1. sinceOpened' \in 0..Cooldown /\ quiet' \in 0..Cooldown
  BY <1>0, OlderType
<1>2. nap' \in [Callers -> 0..2]
  BY DEF Tick, IInv, TypeOK
<1>3. TypeOK'
  BY <1>1, <1>2 DEF Tick, IInv, TypeOK
<1>4. BreakerInv'
  BY <1>0, OlderType DEF IInv, BreakerInv
<1>5. CallInv' /\ WrittenAtMostOnce'
  BY CallsKept DEF Tick, IInv
<1>. QED
  BY <1>3, <1>4, <1>5 DEF IInv

LEMMA IInvStep == IInv /\ [Next]_vars => IInv'
<1> SUFFICES ASSUME IInv, [Next]_vars
             PROVE  IInv'
  OBVIOUS
<1>1. ASSUME NEW c \in Callers, NEW k \in Kinds, Begin(c, k)
      PROVE  IInv'
  BY <1>1, BeginStep
<1>2. ASSUME NEW c \in Callers, CallStep(c)
      PROVE  IInv'
  BY <1>2, CheckStep, AdmitStep, ConnectedStep, ConnectFailsStep,
     TlsSetupFailsStep, RecordStep, ReplyStep, TrapStep, LostStep, WakeStep
     DEF CallStep
<1>3. CASE Outage
  BY <1>3, OutageStep
<1>4. CASE ComesBack
  <2>1. TypeOK' /\ BreakerInv'
    BY <1>4 DEF ComesBack, IInv, TypeOK, BreakerInv, breaker
  <2>. QED
    BY <1>4, <2>1, CallsKept DEF ComesBack, IInv
<1>5. CASE Tick
  BY <1>5, TickStep
<1>6. CASE Close
  <2>1. TypeOK' /\ BreakerInv'
    BY <1>6 DEF Close, IInv, TypeOK, BreakerInv, breaker, Sessions
  <2>. QED
    BY <1>6, <2>1, CallsKept DEF Close, IInv
<1>7. CASE UNCHANGED vars
  <2>1. TypeOK' /\ BreakerInv'
    BY <1>7 DEF vars, IInv, TypeOK, BreakerInv, breaker
  <2>. QED
    BY <1>7, <2>1, CallsKept DEF vars, IInv
<1>. QED
  BY <1>1, <1>2, <1>3, <1>4, <1>5, <1>6, <1>7 DEF Next

LEMMA IInvAlways == Spec => []IInv
  BY IInvInit, IInvStep, PTL DEF Spec

-----------------------------------------------------------------------------
(* The theorems.                                                            *)

\* Every variable keeps its type: no call makes more than Retries + 1 attempts.
THEOREM TypeCorrect == Spec => []TypeOK
<1>1. IInv => TypeOK
  BY DEF IInv
<1>. QED
  BY <1>1, IInvAlways, PTL

\* A write reaches the device at most once, and the errors that say it never
\* did are right.
THEOREM WritesOnce == Spec => []WrittenAtMostOnce
<1>1. IInv => WrittenAtMostOnce
  BY DEF IInv
<1>. QED
  BY <1>1, IInvAlways, PTL

\* Only before_connect admits, and it decides by Cooling.
LEMMA AdmitDecides ==
    ASSUME IInv, [Next]_vars, NEW c \in Callers,
           pc[c] = "admit", pc'[c] # "admit"
    PROVE  \/ pc'[c] = "idle" /\ Cooling
           \/ pc'[c] = "connect" /\ ~Cooling
<1>1. ASSUME NEW d \in Callers, Admit(d)
      PROVE  d = c /\ (\/ pc'[c] = "idle" /\ Cooling
                       \/ pc'[c] = "connect" /\ ~Cooling)
  BY <1>1 DEF Admit, Return, GoTo, IInv, TypeOK
<1>2. ASSUME NEW d \in Callers, CallStep(d), ~Admit(d)
      PROVE  FALSE
  <2>1. pc[d] # "admit"
    BY <1>2 DEF CallStep, Check, Connected, ConnectFails, TlsSetupFails, Record,
                Reply, Trap, Lost, Wake
  <2>2. pc'[c] = pc[c]
    BY <1>2, <2>1 DEF CallStep, Check, Connected, ConnectFails, TlsSetupFails,
       Record, Reply, Trap, Lost, Wake, Return, RetryOrRaise, GoTo, IInv, TypeOK
  <2>. QED
    BY <2>2
<1>3. ASSUME NEW d \in Callers, NEW k \in Kinds, Begin(d, k)
      PROVE  FALSE
  BY <1>3 DEF Begin, GoTo, IInv, TypeOK
<1>4. ~(Outage \/ ComesBack \/ Tick \/ Close \/ UNCHANGED vars)
  BY DEF Outage, ComesBack, Tick, Close, vars
<1>. QED
  BY <1>1, <1>2, <1>3, <1>4 DEF Next

\* No caller, of however many, tries to connect while the circuit must be
\* open.
THEOREM FailsFast == Spec => FailFast
<1>1. ASSUME IInv, [Next]_vars, NEW c \in Callers,
             pc[c] = "admit", pc'[c] = "connect", failures >= Threshold
      PROVE  quiet >= Cooldown
  <2>1. ~Cooling
    BY <1>1, AdmitDecides
  <2>2. quiet \in 0..Cooldown
    BY <1>1 DEF IInv, TypeOK
  <2>3. CASE opened
    BY <1>1, <2>1, <2>2, <2>3, DeviceClientConstants DEF Cooling, IInv, BreakerInv
  <2>4. CASE ~opened
    BY <1>1, <2>4, DeviceClientConstants DEF IInv, BreakerInv
  <2>. QED
    BY <2>3, <2>4
<1>2. IInv /\ [Next]_vars =>
        [\A c \in Callers :
           (pc[c] = "admit" /\ pc'[c] = "connect" /\ failures >= Threshold)
              => quiet >= Cooldown]_vars
  BY <1>1
<1>. QED
  BY <1>2, IInvAlways, PTL DEF Spec, FailFast

\* No caller is refused once the cooldown is over.
THEOREM RefusesOnlyWhileCooling == Spec => RefusedOnlyWhileCooling
<1>1. ASSUME IInv, [Next]_vars, NEW c \in Callers,
             pc[c] = "admit", pc'[c] = "idle"
      PROVE  failures >= Threshold /\ quiet < Cooldown
  <2>1. Cooling
    BY <1>1, AdmitDecides
  <2>. QED
    BY <1>1, <2>1 DEF Cooling, IInv, BreakerInv
<1>2. IInv /\ [Next]_vars =>
        [\A c \in Callers :
           (pc[c] = "admit" /\ pc'[c] = "idle")
              => failures >= Threshold /\ quiet < Cooldown]_vars
  BY <1>1
<1>. QED
  BY <1>2, IInvAlways, PTL DEF Spec, RefusedOnlyWhileCooling
==============================================================================
