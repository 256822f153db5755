---------------------------- MODULE RunLifecycle ----------------------------
(***************************************************************************)
(* What the task engine promises to those who start, watch and cancel      *)
(* runs, without attempts, leases, locks or recovery: a run is a set of    *)
(* pages; while it is active pages are opened by open pages and settled;   *)
(* it ends only when no page is open, or by an abort that settles them all *)
(* at once; and only a failed or partial run is ever reopened.             *)
(***************************************************************************)
CONSTANTS Run, Task

VARIABLES
  phase,   \* "absent", "active", or how the run ended
  open,    \* the pages of a run still to be processed
  settled  \* the pages of a run already decided

vars == <<phase, open, settled>>

Verdict == {"succeeded", "partial", "limited", "failed", "cancelled"}

TypeOK ==
  /\ phase \in [Run -> Verdict \cup {"absent", "active"}]
  /\ open \in [Run -> SUBSET Task]
  /\ settled \in [Run -> SUBSET Task]

Unused(t) == \A r \in Run : t \notin open[r] \cup settled[r]

Init ==
  /\ phase = [r \in Run |-> "absent"]
  /\ open = [r \in Run |-> {}]
  /\ settled = [r \in Run |-> {}]

Begin(r, t) ==
  /\ phase[r] = "absent" /\ Unused(t)
  /\ phase' = [phase EXCEPT ![r] = "active"]
  /\ open' = [open EXCEPT ![r] = {t}]
  /\ UNCHANGED settled

Spawn(r, t) ==
  /\ phase[r] = "active" /\ open[r] # {} /\ Unused(t)
  /\ open' = [open EXCEPT ![r] = @ \cup {t}]
  /\ UNCHANGED <<phase, settled>>

Settle(r, S) ==
  /\ phase[r] = "active"
  /\ S # {} /\ S \subseteq open[r]
  /\ open' = [open EXCEPT ![r] = @ \ S]
  /\ settled' = [settled EXCEPT ![r] = @ \cup S]
  /\ UNCHANGED phase

End(r, v) ==
  /\ phase[r] = "active" /\ open[r] = {}
  /\ phase' = [phase EXCEPT ![r] = v]
  /\ UNCHANGED <<open, settled>>

Abort(r) ==
  /\ phase[r] = "active"
  /\ phase' = [phase EXCEPT ![r] = "cancelled"]
  /\ open' = [open EXCEPT ![r] = {}]
  /\ settled' = [settled EXCEPT ![r] = @ \cup open[r]]

Reopen(r, t) ==
  /\ phase[r] \in {"active", "failed", "partial"}
  /\ t \in settled[r]
  /\ phase' = [phase EXCEPT ![r] = "active"]
  /\ open' = [open EXCEPT ![r] = @ \cup {t}]
  /\ settled' = [settled EXCEPT ![r] = @ \ {t}]

Next ==
  \E r \in Run :
    \/ \E t \in Task : Begin(r, t) \/ Spawn(r, t) \/ Reopen(r, t)
    \/ \E S \in SUBSET Task : Settle(r, S)
    \/ \E v \in Verdict : End(r, v)
    \/ Abort(r)

Spec == Init /\ [][Next]_vars
=============================================================================
