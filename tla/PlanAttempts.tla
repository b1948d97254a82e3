---------------------------- MODULE PlanAttempts ----------------------------
(***************************************************************************)
(* What the operation ledger promises about plans, without rows, clocks,   *)
(* nonces or concurrent calls.  A plan is named by its idempotency key.  A *)
(* machine is held by at most one plan at a time; a plan that lapsed before *)
(* it started may be asked for again; a plan that started, or was settled  *)
(* without starting, is settled for good.                                  *)
(***************************************************************************)
CONSTANTS Keys, Machines,
          NoKey   \* not a key

VARIABLES
    phase,   \* of each plan: free, asked, cleared, started or settled
    holder   \* the plan that holds each machine, or NoKey

avars == <<phase, holder>>

Init ==
    /\ phase = [k \in Keys |-> "free"]
    /\ holder = [m \in Machines |-> NoKey]

Released(S) == [m \in Machines |-> IF holder[m] \in S THEN NoKey ELSE holder[m]]

Ask(k, m) ==
    /\ phase[k] = "free"
    /\ holder[m] = NoKey
    /\ phase' = [phase EXCEPT ![k] = "asked"]
    /\ holder' = [holder EXCEPT ![m] = k]

Clear(k) ==
    /\ phase[k] = "asked"
    /\ phase' = [phase EXCEPT ![k] = "cleared"]
    /\ UNCHANGED holder

\* Time runs out for plans that nobody started.
Lapse(S) ==
    /\ \A k \in S : phase[k] \in {"asked", "cleared"}
    /\ phase' = [k \in Keys |-> IF k \in S THEN "free" ELSE phase[k]]
    /\ holder' = Released(S)

Start(k) ==
    /\ phase[k] = "cleared"
    /\ phase' = [phase EXCEPT ![k] = "started"]
    /\ UNCHANGED holder

Settle(k) ==
    /\ phase[k] \in {"asked", "cleared", "started"}
    /\ phase' = [phase EXCEPT ![k] = "settled"]
    /\ holder' = Released({k})

Next ==
    \/ \E k \in Keys, m \in Machines : Ask(k, m)
    \/ \E k \in Keys : Clear(k) \/ Start(k) \/ Settle(k)
    \/ \E S \in SUBSET Keys : Lapse(S)

Spec == Init /\ [][Next]_avars

=============================================================================
