------------------------------ MODULE Session ------------------------------
(***************************************************************************)
(* What the tickers of a connection may rely on in the session around them *)
(* (internal/ui/main_window.go): how the state that the window shows       *)
(* moves, when a late status report may still move it, and between which   *)
(* moves the tickers run.  The user is patient: nothing is started while a *)
(* report is pending.  Controller implements this; Traffic and Monitor are *)
(* built on it.                                                            *)
(***************************************************************************)
VARIABLES
  state,    \* c.state
  asking,   \* the status query that has not reported: start-up's, a clean-up's
  ticking   \* a connection's tickers run

sessionVars == <<state, asking, ticking>>

States == {"Disconnected", "Connecting", "Connected", "Disconnecting", "Error"}
Queries == {"start-up", "clean-up"}

(* A report is awaited only by a window that shows no connection, and the  *)
(* tickers run only beside one, or one that is being closed.               *)
SessionTypeOK ==
  /\ state \in States
  /\ asking \in Queries \union {"no"}
  /\ ticking \in BOOLEAN
  /\ asking # "no" => state = "Disconnected"
  /\ ticking => state \in {"Connected", "Disconnecting"}

SessionInit ==
  /\ state = "Disconnected"
  /\ asking = "start-up"
  /\ ticking = FALSE

-----------------------------------------------------------------------------
Idle == state \in {"Disconnected", "Error"} /\ asking = "no"

(* The report of the start-up's query or a clean-up's: a tunnel that is up *)
(* is shown as connected, without tickers.                                 *)
Reports ==
  /\ asking # "no"
  /\ asking' = "no"
  /\ state' \in {state, "Connected"}
  /\ UNCHANGED ticking

(* What the user starts and the window refuses, and saves.                 *)
Remarks ==
  /\ Idle
  /\ state' \in {"Disconnected", "Error"}
  /\ UNCHANGED <<asking, ticking>>

Connects ==
  /\ Idle
  /\ state' = "Connecting"
  /\ UNCHANGED <<asking, ticking>>

(* The three ways a connect ends.                                          *)
GoesUp ==
  /\ state = "Connecting"
  /\ state' = "Connected"
  /\ ticking' = TRUE
  /\ UNCHANGED asking

Fails ==
  /\ state = "Connecting"
  /\ state' = "Error"
  /\ UNCHANGED <<asking, ticking>>

IsCancelled ==
  /\ state = "Connecting"
  /\ state' = "Disconnected"
  /\ asking' = "clean-up"
  /\ UNCHANGED ticking

Disconnects ==
  /\ state = "Connected"
  /\ state' = "Disconnecting"
  /\ UNCHANGED <<asking, ticking>>

(* The two ways a disconnect ends.                                         *)
Closes ==
  /\ state = "Disconnecting"
  /\ state' = "Disconnected"
  /\ ticking' = FALSE
  /\ UNCHANGED asking

StaysUp ==
  /\ state = "Disconnecting"
  /\ state' = "Connected"
  /\ UNCHANGED <<asking, ticking>>

SessionNext ==
  \/ Reports \/ Remarks
  \/ Connects \/ GoesUp \/ Fails \/ IsCancelled
  \/ Disconnects \/ Closes \/ StaysUp

SessionSpec == SessionInit /\ [][SessionNext]_sessionVars

=============================================================================
