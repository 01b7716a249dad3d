--------------------------- MODULE BoundedExecution ---------------------------
(***************************************************************************)
(* What controlled execution promises to whoever starts it, without plans, *)
(* captures or adapters: an external agent is started only under terms     *)
(* that allow it, after consent for the escalation position it runs at, at *)
(* most max_attempts times, at most max_same_step_retries + 1 times per    *)
(* position, and only forward along the route one position at a time.      *)
(***************************************************************************)
EXTENDS Integers, Sequences

VARIABLES
  terms,    \* the policy and the caller's side of the bargain
  route,    \* number of escalation positions the accepted plan may use
  phase,    \* "planning", "ready", "running" or "over"
  consent,  \* the position the person last consented to, or Unasked
  ledger    \* the position of every start of the external agent, in order

promiseVars == <<terms, route, phase, consent, ledger>>

Unasked == -1

NeedsConsent(position) == terms.ask_first \/ position > 0

LastPosition == ledger[Len(ledger)]

\* The agent ran at this position as often as the terms allow.
Exhausted(position) ==
  /\ Len(ledger) > terms.max_same_step_retries
  /\ ledger[Len(ledger) - terms.max_same_step_retries] = position

\* Where the next start may be: first at the plan's own step, then there again
\* or one position further along the route.
Reachable(position) ==
  IF ledger = <<>> THEN position = 0
  ELSE \/ position = LastPosition
       \/ /\ position = LastPosition + 1
          /\ terms.allow_escalation
          /\ position <= route

-----------------------------------------------------------------------------
PromiseInit ==
  /\ phase = "planning"
  /\ route = 0
  /\ consent = Unasked
  /\ ledger = <<>>

AcceptPlan ==
  /\ phase = "planning"
  /\ phase' = "ready"
  /\ UNCHANGED <<terms, route, consent, ledger>>

\* The router's path becomes known while the plan is made.
FixRoute ==
  /\ phase = "planning"
  /\ route' \in Nat
  /\ UNCHANGED <<terms, phase, consent, ledger>>

Consent ==
  /\ phase = "ready"
  /\ \E position \in 0..route : consent' = position
  /\ UNCHANGED <<terms, route, phase, ledger>>

StartAgent ==
  /\ phase = "ready"
  /\ terms.may_run
  /\ Len(ledger) < terms.max_attempts
  /\ \E position \in 0..route :
       /\ Reachable(position)
       /\ ~Exhausted(position)
       /\ NeedsConsent(position) => consent = position
       /\ ledger' = Append(ledger, position)
  /\ phase' = "running"
  /\ UNCHANGED <<terms, route, consent>>

AgentAnswers ==
  /\ phase = "running"
  /\ phase' = "ready"
  /\ UNCHANGED <<terms, route, consent, ledger>>

GiveUpOrFinish ==
  /\ phase # "over"
  /\ phase' = "over"
  /\ UNCHANGED <<terms, route, consent, ledger>>

PromiseNext ==
  AcceptPlan \/ FixRoute \/ Consent \/ StartAgent \/ AgentAnswers \/ GiveUpOrFinish

PromiseSpec == PromiseInit /\ [][PromiseNext]_promiseVars
=============================================================================
