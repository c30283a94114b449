------------------------ MODULE DisciplinedDeadMan_proof ------------------------
(***************************************************************************)
(* Proofs about the disciplined use of the dead-man, for every set of      *)
(* rows and requests and every link that fit the assumptions of            *)
(* DisciplinedDeadMan.                                                     *)
(***************************************************************************)
EXTENDS DisciplinedDeadMan, DeadMan_proof

-----------------------------------------------------------------------------
(* One dead-man at a time.                                                  *)

\* A call that has read the clock is not over its limit, so its window is open.
AgeInv ==
    /\ age <= CallLimit
    /\ pc \notin {"add", "write"} => age = 0

LEMMA StillInTime ==
    ASSUME TypeOK, AgeInv, NEW r \in Requests
    PROVE  InTime(r)
<1>1. r.minutes >= 1 /\ r.minutes \in Int
  BY RequestType
<1>2. age \in Nat /\ age <= CallLimit /\ CallLimit \in 0..59
  BY CallsAreShort DEF TypeOK, AgeInv
<1>. QED
  BY <1>1, <1>2 DEF InTime

LEMMA AgeInit == Init => AgeInv
  BY DeadManConstants DEF Init, AgeInv

LEMMA AgeReturn ==
    ASSUME Return
    PROVE  AgeInv'
  BY DeadManConstants DEF Return, AgeInv

LEMMA AgeStep == TypeOK /\ AgeInv /\ [Next]_vars => AgeInv'
<1> SUFFICES ASSUME TypeOK, AgeInv, [Next]_vars
             PROVE  AgeInv'
  OBVIOUS
<1>1. CASE Return
  BY <1>1, AgeReturn
<1>2. CASE Tick
  <2>1. CASE Arming
    BY <1>2, <2>1 DEF Tick, Arming, AgeInv
  <2>2. CASE ~Arming
    BY <1>2, <2>2 DEF Tick, AgeInv
  <2>. QED
    BY <2>1, <2>2
<1>3. CASE age' = age /\ (pc' \notin {"add", "write"} => pc \notin {"add", "write"})
  BY <1>3 DEF AgeInv
<1>4. \/ Return
      \/ Tick
      \/ age' = age /\ (pc' \notin {"add", "write"} => pc \notin {"add", "write"})
  BY DEF Next, CallStep, Begin, BeginCancel, ReadRow, ReadClock, AddScheduler,
         WriteRow, FindScheduler, RemoveScheduler, Fail, Fire, Edit, GoTo,
         vars, call
<1>. QED
  BY <1>1, <1>2, <1>3, <1>4

\* Nothing is in the scheduler while a change is prepared, nor anything but its
\* own dead-man when it is written; the row stays as the call read it.
QuietInv ==
    /\ pc \in {"read", "clock", "add"} => armed = {}
    /\ pc \in {"clock", "add", "write"} => before = row
    /\ (pc \in {"clock", "add", "write"} /\ Arms(req)) => CanArm(req, row)
    /\ (pc = "write" /\ Arms(req)) => armed = {name}
    /\ (pc = "write" /\ ~Arms(req)) => armed = {}
    /\ \A m, n \in armed : m = n

LEMMA QuietInit == Init => QuietInv
  BY DEF Init, QuietInv

LEMMA QuietReturn ==
    ASSUME QuietInv, Return, armed' \subseteq armed
    PROVE  QuietInv'
  BY DEF QuietInv, Return

LEMMA SameRequest ==
    ASSUME req' = req
    PROVE  Arms(req)' = Arms(req) /\ RevertFields(req)' = RevertFields(req)
  BY DEF Arms, LockoutRisk, RevertFields

LEMMA SameCheck ==
    ASSUME req' = req, row' = row
    PROVE  CanArm(req, row)' = CanArm(req, row)
  BY DEF CanArm, RevertFields, Given, Override, DfsCacSeconds

LEMMA QuietStep == IInv /\ AgeInv /\ QuietInv /\ [Next]_vars => QuietInv'
<1> SUFFICES ASSUME IInv, AgeInv, QuietInv, [Next]_vars
             PROVE  QuietInv'
  OBVIOUS
<1>0. CallInv /\ TypeOK
  BY DEF IInv
<1>1. ASSUME NEW r \in Requests, Begin(r)
      PROVE  QuietInv'
  <2>1. pc' = "read" /\ armed = {} /\ armed' = {}
    BY <1>1, OneTrialAtATime DEF Begin, device
  <2>. QED
    BY <2>1 DEF QuietInv
<1>2. ASSUME NEW n \in Name, BeginCancel(n)
      PROVE  QuietInv'
  BY <1>2 DEF BeginCancel, QuietInv, device
<1>3. CASE ReadRow
  <2>1. armed' = armed /\ row' = row /\ armed = {}
    BY <1>3 DEF ReadRow, device, QuietInv
  <2>2. CASE Return
    BY <2>1, <2>2, QuietReturn
  <2>3. CASE /\ Arms(req) => CanArm(req, row)
             /\ pc' = IF Arms(req) THEN "clock" ELSE "write"
             /\ before' = row
             /\ UNCHANGED <<req, name, age>>
    BY <2>1, <2>3, SameRequest, SameCheck DEF QuietInv
  <2>. QED
    BY <1>3, <2>2, <2>3 DEF ReadRow
<1>4. CASE ReadClock
  <2>1. armed' = armed /\ row' = row /\ armed = {} /\ before = row
    BY <1>4 DEF ReadClock, device, QuietInv
  <2>2. CASE Return
    BY <2>1, <2>2, QuietReturn
  <2>3. CASE pc' = "add" /\ UNCHANGED <<req, before>>
    BY <1>4, <2>1, <2>3, SameRequest, SameCheck DEF QuietInv, ReadClock
  <2>. QED
    BY <1>4, <2>2, <2>3 DEF ReadClock
<1>5. CASE AddScheduler
  <2>1. /\ pc = "add" /\ req \in Requests /\ req.tool # "arm_dead_man"
        /\ armed = {} /\ armed' = {name} /\ row' = row /\ before = row
    BY <1>0, <1>5, OneTrialAtATime DEF AddScheduler, QuietInv, CallInv
  <2>2. CASE Return
    BY <2>1, <2>2 DEF QuietInv, Return
  <2>3. CASE GoTo("write")
    <3>1. Arms(req) /\ CanArm(req, row)
      BY <1>0, <2>1 DEF CallInv, QuietInv
    <3>. QED
      BY <2>1, <2>3, <3>1, SameRequest, SameCheck DEF QuietInv, GoTo
  <2>. QED
    BY <1>5, <2>2, <2>3 DEF AddScheduler
<1>6. CASE WriteRow
  BY <1>6, QuietReturn DEF WriteRow
<1>7. CASE FindScheduler
  <2>1. CASE Return
    BY <1>7, <2>1, QuietReturn DEF FindScheduler, device
  <2>2. CASE GoTo("remove")
    BY <1>7, <2>2 DEF FindScheduler, GoTo, device, QuietInv
  <2>. QED
    BY <1>7, <2>1, <2>2 DEF FindScheduler
<1>8. CASE RemoveScheduler
  BY <1>8, QuietReturn DEF RemoveScheduler, Drop
<1>9. CASE Fail
  BY <1>9, QuietReturn DEF Fail, device
<1>10. ASSUME NEW n \in Name, Fire(n)
       PROVE  QuietInv'
  <2>1. /\ n \in armed /\ armed' = armed \ {n} /\ left[n] = 0
        /\ pc' = pc /\ req' = req /\ before' = before /\ name' = name
    BY <1>10 DEF Fire, Drop, call
  <2>2. pc \notin {"read", "clock", "add"}
    BY <2>1 DEF QuietInv
  <2>3. pc # "write"
    <3> SUFFICES ASSUME pc = "write", Arms(req), n = name
                 PROVE  FALSE
      BY <2>1 DEF QuietInv
    <3>1. req \in Requests /\ age \in Nat /\ InTime(req)
      BY <1>0, StillInTime DEF CallInv, TypeOK
    <3>2. left[n] = Deadline(req) - age
      BY <1>0, <3>1 DEF CallInv
    <3>. QED
      BY <2>1, <3>1, <3>2, DeadlineAhead
  <2>. QED
    BY <2>1, <2>2, <2>3, <1>0 DEF QuietInv, TypeOK, Steps
<1>11. ASSUME NEW fields \in Edits, Edit(fields)
       PROVE  QuietInv'
  BY <1>11, OneTrialAtATime
<1>12. CASE Tick
  <2>1. /\ UNCHANGED <<row, armed, pc, req, before, name>>
    BY <1>12 DEF Tick
  <2>. QED
    BY <2>1, SameRequest, SameCheck DEF QuietInv
<1>13. CASE UNCHANGED vars
  <2>1. /\ UNCHANGED <<row, armed, pc, req, before, name>>
    BY <1>13 DEF vars, device, call
  <2>. QED
    BY <2>1, SameRequest, SameCheck DEF QuietInv
<1>. QED
  BY <1>1, <1>2, <1>3, <1>4, <1>5, <1>6, <1>7, <1>8, <1>9, <1>10, <1>11,
     <1>12, <1>13 DEF Next, CallStep
-----------------------------------------------------------------------------
(* Rows, as writes and reverts leave them.                                  *)

LEMMA OverrideAt ==
    ASSUME NEW r \in Rows, NEW s \in Rows, NEW f \in Field
    PROVE  Override(r, s)[f] = IF f \in Given(s) THEN s[f] ELSE r[f]
  BY DEF Override

LEMMA RowsEqual ==
    ASSUME NEW r \in Rows, NEW s \in Rows, \A f \in Field : r[f] = s[f]
    PROVE  r = s
  BY DEF Rows

\* What a revert restores comes from the write it covers.
LEMMA RevertWithin ==
    ASSUME NEW q \in Requests, Arms(q)
    PROVE  RevertFields(q) \subseteq Given(q.fields)
  BY DEF Arms, LockoutRisk, RevertFields

\* Restoring what a row has leaves it as it is.
LEMMA RestoreIsIdle ==
    ASSUME NEW r \in Rows, NEW S \in SUBSET Given(r)
    PROVE  Override(r, Only(r, S)) = r
<1>1. Only(r, S) \in Rows /\ Given(Only(r, S)) = S
  BY OnlyType, OnlyGiven
<1>2. \A f \in Field : Override(r, Only(r, S))[f] = r[f]
  BY <1>1, OnlyGiven, OverrideAt
<1>. QED
  BY <1>1, <1>2, OverrideType, RowsEqual

\* A protected write, and then its revert, set what no revert need restore.
LEMMA RevertLeaves ==
    ASSUME NEW q \in Requests, Arms(q), NEW r \in Rows,
           RevertFields(q) \subseteq Given(r)
    PROVE  Override(Override(r, q.fields), Only(r, RevertFields(q)))
             = Override(r, Only(q.fields, Innocuous(q.fields)))
<1> DEFINE back == Only(r, RevertFields(q))
           kept == Only(q.fields, Innocuous(q.fields))
<1>1. /\ back \in Rows /\ Given(back) = RevertFields(q)
      /\ \A f \in RevertFields(q) : back[f] = r[f]
  BY OnlyType, OnlyGiven
<1>2. /\ q.fields \in Rows /\ kept \in Rows /\ Given(kept) = Innocuous(q.fields)
      /\ \A f \in Innocuous(q.fields) : kept[f] = q.fields[f]
  BY RequestType, OnlyType, OnlyGiven DEF Innocuous
<1>3. \A f \in Field : f \in Given(q.fields) =>
        (f \in RevertFields(q) <=> f \notin Innocuous(q.fields))
  BY DeadManConstants DEF Arms, LockoutRisk, WellFormed, RevertFields, Innocuous,
                          Harmless, Given
<1>4. Innocuous(q.fields) \subseteq Given(q.fields)
  BY DEF Innocuous
<1>5. Override(r, q.fields) \in Rows
  BY <1>2, OverrideType
<1> HIDE DEF back, kept
<1>6. \A f \in Field : Override(Override(r, q.fields), back)[f] = Override(r, kept)[f]
  BY <1>1, <1>2, <1>3, <1>4, <1>5, OverrideAt, RevertWithin
<1>. QED
  BY <1>1, <1>2, <1>5, <1>6, OverrideType, RowsEqual DEF back, kept

\* Where nobody opts out, an unprotected write sets only what cannot drop a link.
LEMMA UnprotectedIsInnocuous ==
    ASSUME NEW q \in Requests, ~Arms(q), q.arm, q.tool # "arm_dead_man",
           NEW r \in Rows
    PROVE  Override(r, q.fields) = Override(r, Only(q.fields, Innocuous(q.fields)))
<1>1. q.fields \in Rows /\ Only(q.fields, Innocuous(q.fields)) \in Rows
  BY RequestType, OnlyType
<1>2. Innocuous(q.fields) = Given(q.fields)
  BY DeadManConstants DEF Arms, LockoutRisk, WellFormed, Tools, Innocuous, Harmless
<1>3. \A f \in Field : Override(r, q.fields)[f]
                        = Override(r, Only(q.fields, Innocuous(q.fields)))[f]
  BY <1>1, <1>2, OverrideAt, OnlyGiven
<1>. QED
  BY <1>1, <1>3, OverrideType, RowsEqual

-----------------------------------------------------------------------------
(* What the operator confirmed stays.                                       *)

\* A dead-man in the scheduler restores no field to another value than the
\* one the operator confirmed for it.
StayInv ==
    /\ ConfirmedChangeStays
    /\ \A n \in armed, f \in Field :
         (f \in Given(onEvent[n]) /\ f \in Given(confirmed)) =>
            onEvent[n][f] = confirmed[f]

LEMMA StayInit == Init => StayInv
  BY DEF Init, StayInv, ConfirmedChangeStays, Given, NoFields

LEMMA StayKept ==
    ASSUME StayInv, UNCHANGED <<row, armed, onEvent, confirmed>>
    PROVE  StayInv'
  BY DEF StayInv, ConfirmedChangeStays, Given

LEMMA StayStep == IInv /\ QuietInv /\ StayInv /\ [Next]_vars => StayInv'
<1> SUFFICES ASSUME TypeOK, CallInv, QuietInv, StayInv, [Next]_vars
             PROVE  StayInv'
  BY DEF IInv
<1>1. ASSUME NEW r \in Requests, Begin(r)
      PROVE  StayInv'
  BY <1>1, StayKept DEF Begin, device, history
<1>2. ASSUME NEW n \in Name, BeginCancel(n)
      PROVE  StayInv'
  BY <1>2, StayKept DEF BeginCancel, device, history
<1>3. CASE ReadRow
  BY <1>3, StayKept DEF ReadRow, device, history
<1>4. CASE ReadClock
  BY <1>4, StayKept DEF ReadClock, device, history
<1>5. CASE AddScheduler
  <2>1. /\ name \in Name /\ req \in Requests /\ req.tool # "arm_dead_man"
        /\ armed' = {name} /\ before = row
        /\ RevertFields(req) \subseteq Given(row)
    BY <1>5, OneTrialAtATime DEF AddScheduler, QuietInv, CallInv, TypeOK
  <2>2. /\ onEvent'[name] = Only(row, RevertFields(req))
        /\ row' = row /\ confirmed' = confirmed
    BY <1>5, <2>1 DEF AddScheduler, Revert, TypeOK, history
  <2>3. /\ Given(Only(row, RevertFields(req))) = RevertFields(req)
        /\ \A f \in RevertFields(req) : Only(row, RevertFields(req))[f] = row[f]
    BY <2>1, OnlyGiven DEF TypeOK
  <2>. QED
    BY <2>1, <2>2, <2>3 DEF StayInv, ConfirmedChangeStays, Given
<1>6. CASE WriteRow
  <2>1. /\ req \in Requests /\ req.fields \in Rows
        /\ row \in Rows /\ confirmed \in Rows
        /\ row' = Override(row, req.fields)
        /\ confirmed' = Without(confirmed, Given(req.fields))
        /\ armed' = armed /\ onEvent' = onEvent
    BY <1>6, RequestType DEF WriteRow, CallInv, TypeOK
  <2>2. \A f \in Given(confirmed') : f \in Given(confirmed) /\ f \notin Given(req.fields)
                                      /\ confirmed'[f] = confirmed[f]
    BY <2>1 DEF Given, Without
  <2>3. \A f \in Given(confirmed') : row'[f] = confirmed'[f]
    BY <2>1, <2>2, OverrideAt DEF StayInv, ConfirmedChangeStays, Given
  <2>. QED
    BY <2>1, <2>2, <2>3 DEF StayInv, ConfirmedChangeStays, Given
<1>7. CASE FindScheduler
  BY <1>7, StayKept DEF FindScheduler, device, history
<1>8. CASE RemoveScheduler
  <2>1. CASE UNCHANGED <<armed, onEvent, left, history>>
    BY <1>8, <2>1, StayKept DEF RemoveScheduler, history
  <2>2. CASE /\ name \in armed
             /\ Drop(name)
             /\ told \subseteq {name}
             /\ confirmed' = Override(confirmed, Only(row, Given(onEvent[name])))
    <3>1. armed' = {} /\ row' = row /\ row \in Rows /\ confirmed \in Rows
      BY <1>8, <2>2 DEF RemoveScheduler, Drop, QuietInv, TypeOK
    <3>2. Only(row, Given(onEvent[name])) \in Rows
      BY <3>1, OnlyType
    <3>3. \A f \in Field : f \in Given(confirmed') => row[f] = confirmed'[f]
      <4> SUFFICES ASSUME NEW f \in Field, confirmed'[f] # Absent
                   PROVE  row[f] = confirmed'[f]
        BY DEF Given
      <4>1. CASE f \in Given(Only(row, Given(onEvent[name])))
        BY <2>2, <3>1, <3>2, <4>1, OverrideAt DEF Only, Given
      <4>2. CASE f \notin Given(Only(row, Given(onEvent[name])))
        BY <2>2, <3>1, <3>2, <4>2, OverrideAt DEF StayInv, ConfirmedChangeStays, Given
      <4>. QED
        BY <4>1, <4>2
    <3>. QED
      BY <3>1, <3>3 DEF StayInv, ConfirmedChangeStays, Given
  <2>3. CASE name \in armed /\ Drop(name) /\ confirmed' = confirmed
    <3>1. armed' = {} /\ row' = row
      BY <1>8, <2>3 DEF RemoveScheduler, Drop, QuietInv
    <3>. QED
      BY <2>3, <3>1 DEF StayInv, ConfirmedChangeStays, Given
  <2>. QED
    BY <1>8, <2>1, <2>2, <2>3 DEF RemoveScheduler
<1>9. CASE Fail
  BY <1>9, StayKept DEF Fail, device, history
<1>10. ASSUME NEW n \in Name, Fire(n)
       PROVE  StayInv'
  <2>1. /\ n \in armed /\ armed' = {}
        /\ row' = Override(row, onEvent[n]) /\ confirmed' = confirmed
        /\ row \in Rows /\ onEvent[n] \in Rows
    BY <1>10 DEF Fire, Drop, QuietInv, TypeOK
  <2>2. \A f \in Given(confirmed) : row'[f] = confirmed[f]
    BY <2>1, OverrideAt DEF StayInv, ConfirmedChangeStays, Given
  <2>. QED
    BY <2>1, <2>2 DEF StayInv, ConfirmedChangeStays, Given
<1>11. ASSUME NEW fields \in Edits, Edit(fields)
       PROVE  StayInv'
  BY <1>11, OneTrialAtATime
<1>12. CASE Tick
  BY <1>12, StayKept DEF Tick, history
<1>13. CASE UNCHANGED vars
  BY <1>13, StayKept DEF vars, device, history
<1>. QED
  BY <1>1, <1>2, <1>3, <1>4, <1>5, <1>6, <1>7, <1>8, <1>9, <1>10, <1>11,
     <1>12, <1>13 DEF Next, CallStep

LEMMA CalmAlways == Spec => [](IInv /\ AgeInv /\ QuietInv)
<1>1. IInv => TypeOK
  BY DEF IInv
<1>. QED
  BY <1>1, IInvInit, AgeInit, QuietInit, IInvStep, AgeStep, QuietStep, PTL DEF Spec

\* A field the operator confirmed keeps its value until somebody sets it anew:
\* neither a lost reply nor a dead-man that fires late takes it back.
THEOREM ConfirmedChangeStaysAlways == Spec => []ConfirmedChangeStays
<1>1. StayInv => ConfirmedChangeStays
  BY DEF StayInv
<1>. QED
  BY <1>1, CalmAlways, StayInit, StayStep, PTL DEF Spec

-----------------------------------------------------------------------------
(* The link can always be restored, and no check is cut short.              *)

\* Whatever is armed would restore a row the link works with, and is due no
\* earlier than the channel check ends; with nothing armed the link works.
TrialInv ==
    /\ row \in Settings
    /\ armed = {} => LinkUp(row)
    /\ \A n \in armed :
         /\ Override(row, onEvent[n]) \in Settings
         /\ LinkUp(Override(row, onEvent[n]))
         /\ cac <= left[n]

LEMMA TrialInit == Init => TrialInv
  BY ProtectedChanges DEF Init, TrialInv

LEMMA TrialKept ==
    ASSUME TrialInv, UNCHANGED device
    PROVE  TrialInv'
  BY DEF TrialInv, device

\* The check that a protected write starts is over when its dead-man is due.
LEMMA CheckEndsFirst ==
    ASSUME NEW q \in Requests, Arms(q), NEW r \in Settings, CanArm(q, r),
           NEW d \in Nat, Deadline(q) - d <= CallLimit
    PROVE  \/ Override(r, q.fields)["frequency"] = r["frequency"]
           \/ DfsCacSeconds(Override(r, q.fields)) <= d
<1>1. /\ q.fields \in Rows /\ r \in Rows /\ "frequency" \in Field
      /\ q.minutes \in 1..60 /\ CallLimit \in 0..59
  BY RequestType, ProtectedChanges, CallsAreShort DEF Field
<1>2. CASE q.tool = "set_wireless_channel"
  <2>1. DfsCacSeconds(Override(r, q.fields)) + CallLimit <= q.minutes * 60
    BY <1>2, WindowsOutlastCalls DEF CanArm
  <2>2. DfsCacSeconds(Override(r, q.fields)) \in Nat
    BY <1>1, CacType, OverrideType
  <2>. QED
    BY <1>1, <2>1, <2>2 DEF Deadline
<1>3. CASE q.tool # "set_wireless_channel"
  <2>1. "frequency" \notin Given(q.fields)
    BY <1>3, DeadManConstants DEF Arms, LockoutRisk, WellFormed
  <2>. QED
    BY <1>1, <2>1, OverrideAt
<1>. QED
  BY <1>2, <1>3

LEMMA TrialStep == IInv /\ AgeInv /\ QuietInv /\ TrialInv /\ [Next]_vars => TrialInv'
<1> SUFFICES ASSUME TypeOK, CallInv, AgeInv, QuietInv, TrialInv, [Next]_vars
             PROVE  TrialInv'
  BY DEF IInv
<1>1. ASSUME NEW r \in Requests, Begin(r)
      PROVE  TrialInv'
  BY <1>1, TrialKept DEF Begin
<1>2. ASSUME NEW n \in Name, BeginCancel(n)
      PROVE  TrialInv'
  BY <1>2, TrialKept DEF BeginCancel
<1>3. CASE ReadRow
  BY <1>3, TrialKept DEF ReadRow
<1>4. CASE ReadClock
  BY <1>4, TrialKept DEF ReadClock
<1>5. CASE AddScheduler
  <2>1. /\ name \in Name /\ req \in Requests /\ req.tool # "arm_dead_man"
        /\ armed = {} /\ armed' = {name} /\ before = row
        /\ RevertFields(req) \subseteq Given(row)
    BY <1>5, OneTrialAtATime DEF AddScheduler, QuietInv, CallInv, TypeOK
  <2>2. /\ onEvent'[name] = Only(row, RevertFields(req))
        /\ row' = row /\ cac' = cac /\ cac = 0
    BY <1>5, <2>1 DEF AddScheduler, Revert, Reachable, TypeOK
  <2>3. InTime(req) /\ left'[name] = Deadline(req) - age /\ age \in Nat
    BY <1>5, <2>1, StillInTime, AddedInTime DEF TypeOK
  <2>4. cac' <= left'[name]
    BY <2>1, <2>2, <2>3, DeadlineAhead
  <2>5. Override(row', onEvent'[name]) = row
    BY <2>1, <2>2, RestoreIsIdle DEF TypeOK
  <2>. QED
    BY <2>1, <2>2, <2>4, <2>5 DEF TrialInv
<1>6. CASE WriteRow
  <2>1. /\ req \in Requests /\ row \in Settings /\ row \in Rows
        /\ row' = Override(row, req.fields) /\ cac' = CacAfter(row, row')
        /\ cac = 0 /\ LinkUp(row)
        /\ armed' = armed /\ onEvent' = onEvent /\ left' = left
    BY <1>6 DEF WriteRow, CallInv, TypeOK, TrialInv, Reachable
  <2>2. row' \in Settings
    BY <2>1, ProtectedChanges
  <2>3. CASE Arms(req)
    <3>1. /\ armed = {name} /\ name \in Name
          /\ CanArm(req, row) /\ RevertFields(req) \subseteq Given(row)
          /\ onEvent[name] = Only(row, RevertFields(req))
          /\ left[name] = Deadline(req) - age
      BY <1>6, <2>1, <2>3, StillInTime DEF WriteRow, QuietInv, CallInv, TypeOK
    <3>2. left[name] \in Nat /\ Deadline(req) - left[name] <= CallLimit
      <4>1. Deadline(req) \in Nat /\ age \in Nat /\ age <= CallLimit
        BY ReqType DEF Deadline, TypeOK, AgeInv
      <4>2. left[name] \in Nat
        BY <2>1, <3>1, <4>1, StillInTime, DeadlineAhead
      <4>. QED
        BY <3>1, <4>1, <4>2
    <3>3. Override(row', onEvent[name])
            = Override(row, Only(req.fields, Innocuous(req.fields)))
      BY <2>1, <2>3, <3>1, RevertLeaves
    <3>4. /\ Override(row', onEvent[name]) \in Settings
          /\ LinkUp(Override(row', onEvent[name]))
      BY <2>1, <3>3, ProtectedChanges
    <3>5. cac' <= left[name]
      BY <2>1, <2>3, <3>1, <3>2, CheckEndsFirst DEF CacAfter
    <3>. QED
      BY <2>1, <2>2, <3>1, <3>4, <3>5 DEF TrialInv
  <2>4. CASE ~Arms(req)
    <3>1. armed = {}
      BY <1>6, <2>4 DEF WriteRow, QuietInv
    <3>2. row' = Override(row, Only(req.fields, Innocuous(req.fields)))
      BY <2>1, <2>4, ProtectedChanges, OneTrialAtATime, UnprotectedIsInnocuous
    <3>. QED
      BY <2>1, <2>2, <3>1, <3>2, ProtectedChanges DEF TrialInv
  <2>. QED
    BY <2>3, <2>4
<1>7. CASE FindScheduler
  BY <1>7, TrialKept DEF FindScheduler
<1>8. CASE RemoveScheduler
  <2>1. CASE UNCHANGED <<armed, onEvent, left, history>>
    BY <1>8, <2>1, TrialKept DEF RemoveScheduler, device
  <2>2. CASE name \in armed /\ Drop(name)
    <3>1. armed' = {} /\ row' = row /\ LinkUp(row)
      BY <1>8, <2>2 DEF RemoveScheduler, Drop, QuietInv, Reachable
    <3>. QED
      BY <3>1 DEF TrialInv
  <2>. QED
    BY <1>8, <2>1, <2>2 DEF RemoveScheduler
<1>9. CASE Fail
  BY <1>9, TrialKept DEF Fail
<1>10. ASSUME NEW n \in Name, Fire(n)
       PROVE  TrialInv'
  <2>1. n \in armed /\ armed' = {} /\ row' = Override(row, onEvent[n])
    BY <1>10 DEF Fire, Drop, QuietInv
  <2>. QED
    BY <2>1 DEF TrialInv
<1>11. ASSUME NEW fields \in Edits, Edit(fields)
       PROVE  TrialInv'
  BY <1>11, OneTrialAtATime
<1>12. CASE Tick
  <2>1. /\ UNCHANGED <<row, armed, onEvent>>
        /\ cac' = Minus(cac) /\ cac \in Nat
        /\ \A n \in armed :
              /\ left[n] \in Nat \cup {Never} /\ cac <= left[n]
              /\ left'[n] = IF left[n] = Never THEN Never ELSE Minus(left[n])
    BY <1>12 DEF Tick, TypeOK, TrialInv
  <2>2. \A n \in armed : cac' <= left'[n]
    BY <2>1, DeadManConstants DEF Minus, Never
  <2>. QED
    BY <2>1, <2>2 DEF TrialInv
<1>13. CASE UNCHANGED vars
  BY <1>13, TrialKept DEF vars
<1>. QED
  BY <1>1, <1>2, <1>3, <1>4, <1>5, <1>6, <1>7, <1>8, <1>9, <1>10, <1>11,
     <1>12, <1>13 DEF Next, CallStep

LEMMA TrialAlways == Spec => [](TypeOK /\ TrialInv)
<1>1. IInv => TypeOK
  BY DEF IInv
<1>. QED
  BY <1>1, CalmAlways, TrialInit, TrialStep, PTL DEF Spec

\* The device can always heal itself: the link works with the row as it is, or
\* with the row some dead-man in the scheduler is going to restore.
THEOREM RecoverableAlways == Spec => []Recoverable
<1>1. TrialInv => Recoverable
  BY DEF TrialInv, Recoverable
<1>. QED
  BY <1>1, TrialAlways, PTL

\* No dead-man is due before the channel check its write started has ended,
\* provided windows outlast the check by the time a call takes.
THEOREM NeverFiresMidCacAlways == Spec => []NeverFiresMidCac
<1>1. TypeOK /\ TrialInv => NeverFiresMidCac
  BY DEF TypeOK, TrialInv, NeverFiresMidCac
<1>. QED
  BY <1>1, TrialAlways, PTL

-----------------------------------------------------------------------------
(* The dead-man is a transaction.                                           *)

LEMMA RiskyAt ==
    ASSUME NEW r \in Rows
    PROVE  /\ Risky(r) \in Rows
           /\ \A f \in Field : Risky(r)[f] = IF f \in Harmless THEN Absent ELSE r[f]
  BY OnlyType DEF Risky, Without

LEMMA SavedOf ==
    ASSUME NEW n, armed = {n}
    PROVE  Saved = Risky(Override(row, onEvent[n]))
  BY DEF Saved

\* Innocuous fields apart, a protected write and its revert leave the row alone.
LEMMA WriteKeepsSaved ==
    ASSUME NEW q \in Requests, Arms(q), NEW r \in Rows,
           RevertFields(q) \subseteq Given(r)
    PROVE  Risky(Override(Override(r, q.fields), Only(r, RevertFields(q)))) = Risky(r)
<1> DEFINE back == Only(r, RevertFields(q))
           written == Override(r, q.fields)
<1>1. /\ back \in Rows /\ Given(back) = RevertFields(q)
      /\ \A f \in RevertFields(q) : back[f] = r[f]
  BY OnlyType, OnlyGiven
<1>2. q.fields \in Rows /\ written \in Rows
  BY RequestType, OverrideType
<1>3. \A f \in Field \ Harmless : written[f] = r[f] \/ f \in RevertFields(q)
  BY <1>2, RevertCovers, OverrideAt
<1> HIDE DEF back, written
<1>4. \A f \in Field \ Harmless : Override(written, back)[f] = r[f]
  BY <1>1, <1>2, <1>3, OverrideAt
<1>5. \A f \in Field : Risky(Override(written, back))[f] = Risky(r)[f]
  BY <1>1, <1>2, <1>4, OverrideType, RiskyAt
<1>. QED
  BY <1>1, <1>2, <1>5, OverrideType, RiskyAt, RowsEqual DEF back, written

LEMMA AbsInit == Init => Abs!Init
<1> SUFFICES ASSUME Init
             PROVE  Abs!Init
  OBVIOUS
<1>1. row \in Rows /\ armed = {}
  BY DeadManConstants DEF Init
<1>. QED
  BY <1>1, RiskyAt DEF Abs!Init, Saved

LEMMA AbsStutter ==
    ASSUME UNCHANGED <<row, armed, onEvent>>
    PROVE  UNCHANGED <<Risky(row), armed # {}, Saved>>
  BY DEF Risky, Without, Saved, Override, Given

\* Arming starts a trial, the write changes what is on trial, cancelling commits
\* and firing rolls back; nothing else touches the configuration.
LEMMA AbsStep ==
    IInv /\ AgeInv /\ QuietInv /\ [Next]_vars
      => [Abs!Next]_<<Risky(row), armed # {}, Saved>>
<1> SUFFICES ASSUME TypeOK, TypeOK', CallInv, AgeInv, QuietInv, [Next]_vars
             PROVE  [Abs!Next]_<<Risky(row), armed # {}, Saved>>
  BY TypeStep DEF IInv
<1>1. ASSUME NEW r \in Requests, Begin(r)
      PROVE  [Abs!Next]_<<Risky(row), armed # {}, Saved>>
  BY <1>1, AbsStutter DEF Begin, device
<1>2. ASSUME NEW n \in Name, BeginCancel(n)
      PROVE  [Abs!Next]_<<Risky(row), armed # {}, Saved>>
  BY <1>2, AbsStutter DEF BeginCancel, device
<1>3. CASE ReadRow \/ ReadClock \/ FindScheduler \/ Fail
  BY <1>3, AbsStutter DEF ReadRow, ReadClock, FindScheduler, Fail, device
<1>4. CASE Tick \/ UNCHANGED vars
  BY <1>4, AbsStutter DEF Tick, vars, device
<1>5. CASE AddScheduler
  <2>1. /\ name \in Name /\ req \in Requests /\ req.tool # "arm_dead_man"
        /\ armed = {} /\ armed' = {name} /\ before = row
        /\ RevertFields(req) \subseteq Given(row)
    BY <1>5, OneTrialAtATime DEF AddScheduler, QuietInv, CallInv, TypeOK
  <2>2. onEvent'[name] = Only(row, RevertFields(req)) /\ row' = row /\ row \in Rows
    BY <1>5, <2>1 DEF AddScheduler, Revert, TypeOK
  <2>3. Saved' = Risky(row')
    <3>1. Saved' = Risky(Override(row', onEvent'[name]))
      BY <2>1 DEF Saved, Risky, Without, Override, Given
    <3>. QED
      BY <2>1, <2>2, <3>1, RestoreIsIdle
  <2>4. Saved = Risky(row)
    BY <2>1 DEF Saved
  <2>. QED
    BY <2>1, <2>2, <2>3, <2>4 DEF Abs!Next, Abs!Start
<1>6. CASE WriteRow
  <2>1. /\ req \in Requests /\ row \in Rows /\ row' \in Rows
        /\ row' = Override(row, req.fields)
        /\ armed' = armed /\ onEvent' = onEvent
    BY <1>6 DEF WriteRow, CallInv, TypeOK
  <2>2. Risky(row)' \in Rows
    BY <2>1, RiskyAt DEF Risky, Without
  <2>3. CASE Arms(req)
    <3>1. /\ armed = {name} /\ RevertFields(req) \subseteq Given(row)
          /\ onEvent[name] = Only(row, RevertFields(req))
      BY <1>6, <2>1, <2>3, StillInTime DEF WriteRow, QuietInv, CallInv
    <3>2. Saved = Risky(row)
      BY <2>1, <3>1, SavedOf, RestoreIsIdle
    <3>3. Saved' = Risky(Override(row', onEvent[name]))
      BY <2>1, <3>1 DEF Saved, Risky, Without, Override, Given
    <3>4. Saved' = Saved
      BY <2>1, <2>3, <3>1, <3>2, <3>3, WriteKeepsSaved
    <3>. QED
      BY <2>1, <2>2, <3>1, <3>4 DEF Abs!Next, Abs!Change
  <2>4. CASE ~Arms(req)
    <3>1. armed = {}
      BY <1>6, <2>4 DEF WriteRow, QuietInv
    <3>2. Saved' = Risky(row)'
      BY <2>1, <3>1 DEF Saved, Risky, Without
    <3>. QED
      BY <2>1, <2>2, <3>1, <3>2 DEF Abs!Next, Abs!Unprotected
  <2>. QED
    BY <2>3, <2>4
<1>7. CASE RemoveScheduler
  <2>1. CASE UNCHANGED <<armed, onEvent, left, history>>
    BY <1>7, <2>1, AbsStutter DEF RemoveScheduler
  <2>2. CASE name \in armed /\ Drop(name)
    <3>1. armed # {} /\ armed' = {} /\ row' = row
      BY <1>7, <2>2 DEF RemoveScheduler, Drop, QuietInv
    <3>2. Risky(row)' = Risky(row) /\ Saved' = Risky(row)
      BY <3>1 DEF Saved, Risky, Without
    <3>. QED
      BY <3>1, <3>2 DEF Abs!Next, Abs!Commit
  <2>. QED
    BY <1>7, <2>1, <2>2 DEF RemoveScheduler
<1>8. ASSUME NEW n \in Name, Fire(n)
      PROVE  [Abs!Next]_<<Risky(row), armed # {}, Saved>>
  <2>1. /\ armed = {n} /\ armed' = {} /\ row' = Override(row, onEvent[n])
    BY <1>8 DEF Fire, Drop, QuietInv
  <2>2. Saved = Risky(row')
    BY <2>1, SavedOf
  <2>3. Risky(row)' = Risky(row') /\ Saved' = Risky(row')
    BY <2>1 DEF Saved, Risky, Without
  <2>. QED
    BY <2>1, <2>2, <2>3 DEF Abs!Next, Abs!Rollback
<1>9. ASSUME NEW fields \in Edits, Edit(fields)
      PROVE  FALSE
  BY <1>9, OneTrialAtATime
<1>. QED
  BY <1>1, <1>2, <1>3, <1>4, <1>5, <1>6, <1>7, <1>8, <1>9 DEF Next, CallStep

\* One at a time, the dead-man implements SafeChange: every protected change is
\* committed as it was written or rolled back to exactly what it began with.
THEOREM Transaction == Spec => CommitsOrRollsBack
  BY CalmAlways, AbsInit, AbsStep, PTL DEF Spec, CommitsOrRollsBack, Abs!Spec
=============================================================================
