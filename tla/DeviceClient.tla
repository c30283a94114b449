----------------------------- MODULE DeviceClient -----------------------------
(***************************************************************************)
(* One device's MikrotikClient of client.py: the cached connection, the    *)
(* circuit breaker in front of connecting, the retries of reads and the    *)
(* single attempt of writes.                                               *)
(*                                                                         *)
(* Several calls may be in flight, as CircuitBreaker's documentation has   *)
(* it; what is one locked region, or one request to the device, is one     *)
(* step.  Time advances in ticks of half a second, the unit of the         *)
(* back-offs; ages are counted up to Cooldown, the only value they are     *)
(* compared with, and failures up to one more than Threshold.              *)
(***************************************************************************)
EXTENDS Integers

CONSTANTS
    Callers,        \* tool calls that may be in flight at once
    Threshold,      \* MIKROTIK_BREAKER_THRESHOLD
    Cooldown,       \* MIKROTIK_BREAKER_COOLDOWN, in ticks
    Retries,        \* MIKROTIK_READ_RETRIES
    Flaky,          \* a device that is up may lose a request, a reply or a login
    OutageDrops,    \* an outage ends the TCP session with the device
    CaFileVanishes  \* building the TLS context may fail

ASSUME DeviceClientConstants ==
    /\ Threshold \in Nat \ {0}
    /\ Cooldown \in Nat
    /\ Retries \in Nat
    /\ Flaky \in BOOLEAN
    /\ OutageDrops \in BOOLEAN
    /\ CaFileVanishes \in BOOLEAN

VARIABLES
    up,             \* the device answers
    conn,           \* self._connection: none, or a session live or dead
    failures,       \* _consecutive_failures
    opened,         \* _opened_at is set
    sinceOpened,    \* ticks since _opened_at
    quiet,          \* history: ticks since a connection attempt last failed
    pc,             \* pc[c]: what c does next
    kind,           \* kind[c]: a read, or a write
    attempt,        \* attempt[c]: _run_read's counter
    nap,            \* nap[c]: ticks left of time.sleep
    via,            \* via[c]: the session c's attempt uses
    result,         \* result[c]: how c's last call ended
    applied,        \* applied[c]: times the device carried out c's write
    stopped         \* the server has shut down

breaker == <<failures, opened, sinceOpened, quiet>>
vars == <<up, conn, breaker, pc, kind, attempt, nap, via, result, applied, stopped>>

Kinds == {"read", "write"}
Sessions == {"none", "live", "dead"}
Steps == {"idle", "check", "admit", "connect", "record", "invoke", "backoff"}

\* Not ended; the reply; CircuitOpenError; DeviceConnectionError;
\* DeviceCommandError; an error of the TLS set-up, which nothing translates.
Results == {"none", "ok", "circuit open", "no connection", "command failed",
            "internal error"}

FailureCap == Threshold + 1

\* Mutant: a counter that starts one too early gives one attempt too many.
AlwaysRetries(c) == kind[c] = "read" /\ attempt[c] <= Retries
\* Mutant: writes are retried like reads.
RetriesWrites(c) == attempt[c] < Retries
\* A transient failure is retried by reads only, Retries times.
MayRetry(c) == kind[c] = "read" /\ attempt[c] < Retries

\* _read_retry_delay: half a second, then one second.
RetryDelay(n) == IF n = 0 THEN 1 ELSE 2

TypeOK ==
    /\ up \in BOOLEAN
    /\ conn \in Sessions
    /\ failures \in 0..FailureCap
    /\ opened \in BOOLEAN
    /\ sinceOpened \in 0..Cooldown
    /\ quiet \in 0..Cooldown
    /\ pc \in [Callers -> Steps]
    /\ kind \in [Callers -> Kinds]
    /\ attempt \in [Callers -> 0..Retries]
    /\ nap \in [Callers -> 0..2]
    /\ via \in [Callers -> Sessions]
    /\ result \in [Callers -> Results]
    /\ applied \in [Callers -> Nat]
    /\ stopped \in BOOLEAN

Init ==
    /\ up \in BOOLEAN
    /\ conn = "none"
    /\ failures = 0
    /\ opened = FALSE
    /\ sinceOpened = 0
    /\ quiet = Cooldown
    /\ pc = [c \in Callers |-> "idle"]
    /\ kind = [c \in Callers |-> "read"]
    /\ attempt = [c \in Callers |-> 0]
    /\ nap = [c \in Callers |-> 0]
    /\ via = [c \in Callers |-> "none"]
    /\ result = [c \in Callers |-> "none"]
    /\ applied = [c \in Callers |-> 0]
    /\ stopped = FALSE

-----------------------------------------------------------------------------
(* A call.                                                                  *)

GoTo(c, step) == pc' = [pc EXCEPT ![c] = step]

Begin(c, k) ==
    /\ ~stopped
    /\ pc[c] = "idle"
    /\ GoTo(c, "check")
    /\ kind' = [kind EXCEPT ![c] = k]
    /\ result' = [result EXCEPT ![c] = "none"]
    /\ applied' = [applied EXCEPT ![c] = 0]
    /\ UNCHANGED <<up, conn, breaker, attempt, nap, via, stopped>>

Return(c, how) ==
    /\ GoTo(c, "idle")
    /\ result' = [result EXCEPT ![c] = how]
    /\ attempt' = [attempt EXCEPT ![c] = 0]
    /\ via' = [via EXCEPT ![c] = "none"]
    /\ UNCHANGED <<kind, nap, stopped>>

\* A transient failure: sleep before the next attempt, or raise.
RetryOrRaise(c, how) ==
    \/ /\ MayRetry(c)
       /\ GoTo(c, "backoff")
       /\ nap' = [nap EXCEPT ![c] = RetryDelay(attempt[c])]
       /\ via' = [via EXCEPT ![c] = "none"]
       /\ UNCHANGED <<kind, attempt, result, stopped>>
    \/ /\ ~MayRetry(c)
       /\ Return(c, how)

\* _connect_guarded: a cached connection is used as it is, dead or alive.
Check(c) ==
    /\ pc[c] = "check"
    /\ GoTo(c, IF conn = "none" THEN "admit" ELSE "invoke")
    /\ via' = [via EXCEPT ![c] = conn]
    /\ UNCHANGED <<up, conn, breaker, kind, attempt, nap, result, applied, stopped>>

\* Mutant: refused for one tick longer than the cooldown.
CoolingLate == opened /\ sinceOpened <= Cooldown
\* Mutant: the cooldown is never looked at.
NeverCools == opened
\* The circuit is open and within its cooldown.
Cooling == opened /\ sinceOpened < Cooldown

\* before_connect; once the cooldown is over it closes the circuit again.
Admit(c) ==
    /\ pc[c] = "admit"
    /\ \/ /\ Cooling
          /\ Return(c, "circuit open")
          /\ UNCHANGED opened
       \/ /\ ~Cooling
          /\ opened' = FALSE
          /\ GoTo(c, "connect")
          /\ UNCHANGED <<kind, attempt, nap, via, result, stopped>>
    /\ UNCHANGED <<up, conn, failures, sinceOpened, quiet, applied>>

CountUp(n) == IF n < FailureCap THEN n + 1 ELSE FailureCap

\* Mutant: the circuit opens when the count reaches Threshold, not beyond it.
OpenOnce(n) == n = Threshold
\* record_failure opens the circuit, also again after a trial that failed.
Opens(n) == n >= Threshold

Connected(c) ==
    /\ pc[c] = "connect"
    /\ up
    /\ conn' = "live"
    /\ via' = [via EXCEPT ![c] = "live"]
    /\ GoTo(c, "record")
    /\ UNCHANGED <<up, breaker, kind, attempt, nap, result, applied, stopped>>

\* DeviceConnectionError, then record_failure: no answer, or a login that the
\* device rejects.
ConnectFails(c) ==
    /\ pc[c] = "connect"
    /\ Flaky \/ ~up
    /\ failures' = CountUp(failures)
    /\ quiet' = 0
    /\ IF Opens(failures')
       THEN opened' = TRUE /\ sinceOpened' = 0
       ELSE UNCHANGED <<opened, sinceOpened>>
    /\ RetryOrRaise(c, "no connection")
    /\ UNCHANGED <<up, conn, applied>>

\* _build_ssl_context raises outside _connect's try: the breaker never hears
\* of it and no retry happens.
TlsSetupFails(c) ==
    /\ pc[c] = "connect"
    /\ CaFileVanishes
    /\ Return(c, "internal error")
    /\ UNCHANGED <<up, conn, breaker, applied>>

\* record_success.
Record(c) ==
    /\ pc[c] = "record"
    /\ failures' = 0
    /\ opened' = FALSE
    /\ GoTo(c, "invoke")
    /\ UNCHANGED <<up, conn, sinceOpened, quiet, kind, attempt, nap, via, result,
                   applied, stopped>>

Answers(c) == via[c] = "live" /\ up

\* The device carries out c's command.
Apply(c) ==
    applied' = [applied EXCEPT ![c] = @ + (IF kind[c] = "write" THEN 1 ELSE 0)]

Reply(c) ==
    /\ pc[c] = "invoke"
    /\ Answers(c)
    /\ Apply(c)
    /\ Return(c, "ok")
    /\ UNCHANGED <<up, conn, breaker>>

\* A LibRouterosError: RouterOS rejected the command, or the library found
\* the session closed.  Never retried.
Trap(c) ==
    /\ pc[c] = "invoke"
    /\ Answers(c) \/ via[c] = "dead"
    /\ Return(c, "command failed")
    /\ UNCHANGED <<up, conn, breaker, applied>>

\* An OSError: the request never arrived, or its reply never came back.
Lost(c) ==
    /\ pc[c] = "invoke"
    /\ Flaky \/ ~Answers(c)
    /\ (Answers(c) /\ Apply(c)) \/ UNCHANGED applied
    /\ RetryOrRaise(c, "command failed")
    /\ UNCHANGED <<up, conn, breaker>>

\* Mutant: the counter does not advance.
SameAttempt(c) == UNCHANGED attempt
NextAttempt(c) == attempt' = [attempt EXCEPT ![c] = @ + 1]

Wake(c) ==
    /\ pc[c] = "backoff"
    /\ nap[c] = 0
    /\ NextAttempt(c)
    /\ GoTo(c, "check")
    /\ UNCHANGED <<up, conn, breaker, kind, nap, via, result, applied, stopped>>

CallStep(c) ==
    \/ Check(c)
    \/ Admit(c)
    \/ Connected(c)
    \/ ConnectFails(c)
    \/ TlsSetupFails(c)
    \/ Record(c)
    \/ Reply(c)
    \/ Trap(c)
    \/ Lost(c)
    \/ Wake(c)

-----------------------------------------------------------------------------
(* The device, the clock, and the end of the server.                        *)

Dropped(session) == IF session = "live" THEN "dead" ELSE session

Outage ==
    /\ up
    /\ up' = FALSE
    /\ IF OutageDrops
       THEN /\ conn' = Dropped(conn)
            /\ via' = [c \in Callers |-> Dropped(via[c])]
       ELSE UNCHANGED <<conn, via>>
    /\ UNCHANGED <<breaker, pc, kind, attempt, nap, result, applied, stopped>>

ComesBack ==
    /\ ~up
    /\ up' = TRUE
    /\ UNCHANGED <<conn, breaker, pc, kind, attempt, nap, via, result, applied, stopped>>

Older(age) == IF age < Cooldown THEN age + 1 ELSE Cooldown

Tick ==
    /\ sinceOpened' = IF opened THEN Older(sinceOpened) ELSE sinceOpened
    /\ quiet' = Older(quiet)
    /\ nap' = [c \in Callers |-> IF nap[c] > 0 THEN nap[c] - 1 ELSE 0]
    /\ UNCHANGED <<up, conn, failures, opened, pc, kind, attempt, via, result,
                   applied, stopped>>

\* ClientPool.close_all, at the end of the server's lifespan.
Close ==
    /\ ~stopped
    /\ \A c \in Callers : pc[c] = "idle"
    /\ conn' = "none"
    /\ stopped' = TRUE
    /\ UNCHANGED <<up, breaker, pc, kind, attempt, nap, via, result, applied>>

Next ==
    \/ \E c \in Callers, k \in Kinds : Begin(c, k)
    \/ \E c \in Callers : CallStep(c)
    \/ Outage
    \/ ComesBack
    \/ Tick
    \/ Close

Spec == Init /\ [][Next]_vars

\* Every request ends by the socket's timeout at the latest, and sleeps end.
\* Nothing obliges a caller to call, or the device to come back.
Fairness ==
    /\ \A c \in Callers : WF_vars(CallStep(c))
    /\ WF_vars(Tick)

FairSpec == Spec /\ Fairness

-----------------------------------------------------------------------------
(* Properties.                                                              *)

\* Once Threshold connection attempts in a row have failed, no caller starts
\* another one until Cooldown has passed since the last failure, not even
\* after a trial that failed in its turn (CircuitBreaker).
FailFast ==
    [][\A c \in Callers :
         (pc[c] = "admit" /\ pc'[c] = "connect" /\ failures >= Threshold)
            => quiet >= Cooldown]_vars

\* Failing fast ends with the cooldown: a call is refused only when Threshold
\* attempts in a row failed and the last of them failed within Cooldown.
RefusedOnlyWhileCooling ==
    [][\A c \in Callers :
         (pc[c] = "admit" /\ pc'[c] = "idle")
            => failures >= Threshold /\ quiet < Cooldown]_vars

\* A write is carried out at most once however its call fails; it was when
\* the call returns, and was not when the error says that the device was
\* never reached, so that such a call may be made again (_execute_once).
WrittenAtMostOnce ==
    \A c \in Callers : kind[c] = "write" =>
        /\ applied[c] <= 1
        /\ result[c] = "ok" => applied[c] = 1
        /\ result[c] \in {"circuit open", "no connection", "internal error"}
             => applied[c] = 0

\* Every call ends, whatever the device does (_run_read's loop).
CallsEnd == \A c \in Callers : pc[c] # "idle" ~> pc[c] = "idle"

KeepsBeingUsed == []<>(\E c \in Callers : pc[c] # "idle")

\* After the last outage, calls that keep coming end up on a live connection:
\* neither the breaker nor the cache keeps the device out of reach.
Recovers == (<>[]up /\ KeepsBeingUsed) => <>[](conn = "live")

\* The same once logins no longer fail and the cached session, if there is one,
\* was not among those an outage ended: however often the circuit opened and
\* trials failed before, the breaker lets a call through and the client stays
\* connected.
RecoversIfSessionLives ==
    (/\ <>[](up /\ conn # "dead")
     /\ <>[][\A c \in Callers : pc[c] = "connect" => pc'[c] \in {"connect", "record"}]_vars
     /\ KeepsBeingUsed)
    => <>[](conn = "live")
=============================================================================
