--------------------------- MODULE OperationStates ---------------------------
(* The states of an operation and the steps between them, as the ledger     *)
(* (src/steam_agent/execution/ledger.py) enforces them for every caller.    *)

TerminalStates ==
    {"confirmed", "unconfirmed", "contradicted", "aborted", "failed",
     "expired", "dispatched"}

LiveStates ==
    {"pending_confirmation", "authorized", "dispatch_pending",
     "lease_acquired", "client_stopping", "content_running", "adopting",
     "client_restart_pending", "verifying", "interrupted"}

States == LiveStates \cup TerminalStates

\* _TRANSITIONS, with .get(state, frozenset()) for the terminal states
Transitions ==
    [s \in States |->
       CASE s = "pending_confirmation"   -> {"authorized", "expired", "aborted"}
         [] s = "authorized"             -> {"lease_acquired", "dispatch_pending",
                                             "expired", "aborted"}
         [] s = "dispatch_pending"       -> {"dispatched", "unconfirmed"}
         [] s = "lease_acquired"         -> {"client_stopping", "aborted",
                                             "interrupted"}
         [] s = "client_stopping"        -> {"content_running", "aborted",
                                             "interrupted"}
         [] s = "content_running"        -> {"adopting", "failed", "interrupted",
                                             "aborted"}
         [] s = "adopting"               -> {"client_restart_pending",
                                             "interrupted", "failed"}
         [] s = "client_restart_pending" -> {"verifying", "interrupted"}
         [] s = "verifying"              -> {"confirmed", "unconfirmed",
                                             "contradicted"}
         [] s = "interrupted"            -> {"content_running", "adopting",
                                             "verifying", "failed", "aborted"}
         [] OTHER                        -> {}]

=============================================================================
