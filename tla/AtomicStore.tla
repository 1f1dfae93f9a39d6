----------------------------- MODULE AtomicStore -----------------------------
(***************************************************************************)
(* What config.SaveStored and config.LoadStored promise about the file     *)
(* (internal/config/config.go): a save either replaces the whole store and *)
(* answers "ok", or leaves it alone and answers "err"; a load returns the  *)
(* store as it was when the load opened it, or an error; a crash loses no  *)
(* store.                                                                  *)
(***************************************************************************)
CONSTANTS
  Values,     \* complete stores
  NoStore     \* there is none

VARIABLES
  stored,     \* the store, or NoStore
  saving,     \* the value of the save under way, or NoStore
  answer,     \* what the last save returned
  loading,    \* the store a load under way has opened
  loaded      \* what the last load returned

vars == <<stored, saving, answer, loading, loaded>>

Init ==
  /\ stored \in Values \union {NoStore}
  /\ saving = NoStore
  /\ answer = "none"
  /\ loading = NoStore
  /\ loaded = NoStore

Save(v) ==
  /\ saving = NoStore
  /\ saving' = v
  /\ answer' = "none"
  /\ UNCHANGED <<stored, loading, loaded>>

Replace ==
  /\ saving # NoStore
  /\ stored' = saving
  /\ saving' = NoStore
  /\ answer' = "ok"
  /\ UNCHANGED <<loading, loaded>>

Refuse ==
  /\ saving # NoStore
  /\ saving' = NoStore
  /\ answer' = "err"
  /\ UNCHANGED <<stored, loading, loaded>>

StartLoad ==
  /\ loading = NoStore
  /\ stored # NoStore
  /\ loading' = stored
  /\ UNCHANGED <<stored, saving, answer, loaded>>

EndLoad ==
  /\ loading # NoStore
  /\ loaded' = loading
  /\ loading' = NoStore
  /\ UNCHANGED <<stored, saving, answer>>

FailLoad ==
  /\ loading # NoStore
  /\ loading' = NoStore
  /\ UNCHANGED <<stored, saving, answer, loaded>>

Crash ==
  /\ saving' = NoStore
  /\ answer' = "none"
  /\ loading' = NoStore
  /\ loaded' = NoStore
  /\ UNCHANGED stored

Next ==
  \/ \E v \in Values : Save(v)
  \/ Replace \/ Refuse
  \/ StartLoad \/ EndLoad \/ FailLoad
  \/ Crash

Spec == Init /\ [][Next]_vars

=============================================================================
