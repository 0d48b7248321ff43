-------------------------- MODULE SessionContract --------------------------
(***************************************************************************)
(* What EngineSession (crates/cpg-engine/src/session.rs) promises a front  *)
(* end, without its worker, its mailbox, its files and its tokens: one     *)
(* operation at a time, offers that stand only over an idle session, and   *)
(* authorized operations that use up the offer on display.                 *)
(*                                                                         *)
(* EngineSession implements this specification; the front ends are built   *)
(* on it.  An offer is the revision it was displayed with, 0 for none.     *)
(***************************************************************************)
EXTENDS Naturals

VARIABLES
  phase,        \* ForegroundState
  kind,         \* the operation in hand
  operation,    \* the operations dispatched so far
  ready,        \* the view shows a usable configuration
  revision, consent, repair,
  closed        \* "open", "closing", "closed"

contract == <<phase, kind, operation, ready, revision, consent, repair, closed>>

Kinds == {"refresh", "proxy", "consent", "launch", "repair"}

\* How an operation may end, as poll tells them apart.
Fates == [refresh |-> {"snapshot", "panicked"},
          proxy   |-> {"committed", "refused", "panicked"},
          consent |-> {"committed", "refused", "panicked"},
          launch  |-> {"launched", "panicked"},
          repair  |-> {"launched", "panicked"}]

Init ==
  /\ phase = "idle" /\ kind = "none" /\ operation = 0
  /\ ready = FALSE /\ revision = 0 /\ consent = 0 /\ repair = 0
  /\ closed = "open"

Idle == phase = "idle" /\ closed = "open"

Withdraw == consent' = 0 /\ repair' = 0 /\ UNCHANGED revision

\* A consent and a repair are authorized by the offer on display alone.
Authorized(k) ==
  /\ k \in {"consent", "launch", "repair"} => ready
  /\ k = "consent" => consent # 0
  /\ k = "repair" => repair # 0

\* Mutant: operations share an id.
RequestSameId(k) ==
  /\ Idle /\ Authorized(k) /\ Withdraw
  /\ kind' = k /\ phase' = "running"
  /\ UNCHANGED <<operation, ready, closed>>

Request(k) ==
  /\ Idle /\ Authorized(k)
  /\ Withdraw
  /\ operation' = operation + 1 /\ kind' = k /\ phase' = "running"
  /\ UNCHANGED <<ready, closed>>

\* A refused request and a cancellation leave nothing to confirm.
Refuse ==
  /\ closed = "open" /\ Withdraw
  /\ UNCHANGED <<phase, kind, operation, ready, closed>>

TimeOut ==
  /\ phase = "running" /\ closed = "open"
  /\ Withdraw /\ phase' = "cancelling"
  /\ UNCHANGED <<kind, operation, ready, closed>>

Offer ==
  \/ ~ready' /\ Withdraw
  \/ /\ ready' /\ revision' = revision + 1
     /\ consent' \in {0, revision'} /\ repair' \in {0, revision'}

\* The operation ends and the session is idle in the same step.  New offers come
\* with a fresh revision, and never after a refusal, a launch or a lost budget.
Settle(fate) ==
  /\ phase # "idle" /\ closed = "open" /\ kind \in Kinds /\ fate \in Fates[kind]
  /\ phase' = "idle" /\ kind' = "none"
  /\ ready' \in BOOLEAN
  /\ fate = "committed" => ready'
  /\ fate \in {"refused", "launched", "panicked"} => ready' = ready
  /\ IF fate \in {"refused", "launched"} \/ (fate # "committed" /\ phase = "cancelling")
       THEN Withdraw ELSE Offer
  /\ UNCHANGED <<operation, closed>>

Close ==
  /\ closed = "open" /\ closed' = "closing" /\ Withdraw
  /\ UNCHANGED <<phase, kind, operation, ready>>

Join ==
  /\ closed = "closing" /\ closed' = "closed" /\ kind' = "none"
  /\ UNCHANGED <<phase, operation, ready, revision, consent, repair>>

Next ==
  \/ (\E k \in Kinds : Request(k)) \/ Refuse \/ TimeOut
  \/ (\E fate \in UNION {Fates[k] : k \in Kinds} : Settle(fate))
  \/ Close \/ Join

Spec == Init /\ [][Next]_contract
==============================================================================
