------------------------------ MODULE SafeChange ------------------------------
(***************************************************************************)
(* What the dead-man promises, with no scheduler, clock or network: a      *)
(* protected change is on trial until it is committed, which keeps the     *)
(* configuration as it is, or rolled back, which restores exactly the one  *)
(* the trial began with.  Nothing else ends a trial, and nothing alters    *)
(* what it would restore.                                                  *)
(***************************************************************************)
CONSTANT Config

VARIABLES
    config,     \* the configuration in force
    onTrial,    \* a protected change is neither committed nor rolled back
    saved       \* the configuration a rollback restores

TypeOK == config \in Config /\ saved \in Config /\ onTrial \in BOOLEAN

Init ==
    /\ config \in Config
    /\ onTrial = FALSE
    /\ saved = config

\* Protection is in place before anything changes.
Start ==
    /\ ~onTrial
    /\ onTrial' = TRUE
    /\ saved' = config
    /\ config' = config

Change ==
    /\ onTrial
    /\ config' \in Config
    /\ UNCHANGED <<onTrial, saved>>

Commit ==
    /\ onTrial
    /\ onTrial' = FALSE
    /\ saved' = config
    /\ config' = config

Rollback ==
    /\ onTrial
    /\ onTrial' = FALSE
    /\ config' = saved
    /\ UNCHANGED saved

\* A change whose caller declined protection, or that needs none.
Unprotected ==
    /\ ~onTrial
    /\ config' \in Config
    /\ saved' = config'
    /\ UNCHANGED onTrial

Next == Start \/ Change \/ Commit \/ Rollback \/ Unprotected

Spec == Init /\ [][Next]_<<config, onTrial, saved>>
=============================================================================
