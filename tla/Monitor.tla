------------------------------ MODULE Monitor ------------------------------
(***************************************************************************)
(* The PING tile and the local address beside "Connected"                  *)
(* (startPingTicker, stopPingTicker and refreshLocalIP in                  *)
(* internal/ui/main_window.go).  Every connection starts a goroutine that  *)
(* pings the gateway every four seconds, and one that looks for the        *)
(* adapter's address for three seconds.  Both post closures to the window, *)
(* which runs them in the order they were posted, behind those of the      *)
(* operations; a pinger that was stopped in the middle of a ping, and a    *)
(* lookup that nobody stops, post theirs when the connection is gone.      *)
(*                                                                         *)
(* The session around them is Session, which Controller implements with a  *)
(* patient user.                                                           *)
(***************************************************************************)
EXTENDS Naturals, SequencesExt

CONSTANTS
  MaxConns,    \* bound: connections made
  MaxPosted,   \* bound: closures that wait for the window
  Addresses,   \* the addresses a tunnel may be given
  NoAddress

ASSUME BoundsAssumption == MaxConns \in Nat \ {0} /\ MaxPosted \in Nat \ {0}

ASSUME AddressesAssumption ==
  /\ NoAddress \notin Addresses
  /\ Addresses \cap {"off", "look", "gone", "measured", "not connected",
                     "up", "failed", "canceled", "closed", "stays"} = {}

VARIABLES
  state,     \* c.state
  asking,    \* the status query that has not reported: start-up's, a clean-up's
  calling,   \* the goroutine of a connect or disconnect has not reported
  listed,    \* c.profiles has the profile and its server's address
  started,   \* pingers started so far; they are 1 .. started
  running,   \* whose stop channel c.pingStop holds, or 0
  stopped,   \* pingers whose stop channel is closed
  pinger,    \* of each pinger: where it is
  lookup,    \* of the start-up's lookup (0) and each connection's: where it is
  posted,    \* the closures that wait for the window, oldest first
  tile,      \* the PING tile: an answer or a time-out, or "not connected"
  label,     \* the addresses that stand behind the status
  adapter    \* the tunnel's address, if it has one

session == <<state, asking, calling, listed>>
stop == <<started, running, stopped>>
vars == <<session, stop, pinger, lookup, posted, tile, label, adapter>>

Pingers == 1 .. MaxConns
Lookups == 0 .. MaxConns
Readings == {"measured", "not connected"}
Reports == {"up", "failed", "canceled", "closed", "stays"}

Seen == INSTANCE Session WITH ticking <- running # 0

(* Every variable has the values the code gives it, and at most one stop   *)
(* channel is open: the one c.pingStop holds.                              *)
TypeOK ==
  /\ Seen!SessionTypeOK
  /\ calling \in BOOLEAN
  /\ listed \in BOOLEAN
  /\ started \in 0 .. MaxConns
  /\ running \in 0 .. started
  /\ stopped = (1 .. started) \ {running}
  /\ pinger \in [Pingers -> {"wait", "ping", "skip", "gone"}]
  /\ lookup \in [Lookups -> Addresses \union {"off", "look", "gone"}]
  /\ posted \in Seq(Readings \union Reports \union Addresses)
  /\ Len(posted) <= MaxPosted
  /\ tile \in Readings
  /\ label \in Seq(Addresses)
  /\ adapter \in Addresses \union {NoAddress}

Init ==
  /\ calling = FALSE
  /\ listed = FALSE
  /\ started = 0
  /\ running = 0
  /\ Seen!SessionInit
  /\ stopped = {}
  /\ pinger = [i \in Pingers |-> "wait"]
  /\ lookup = [l \in Lookups |-> "off"]
  /\ posted = <<>>
  /\ tile = "not connected"
  /\ label = <<>>
  /\ adapter \in Addresses \union {NoAddress}

-----------------------------------------------------------------------------
(* Every status that is set writes the label anew, without an address.     *)
Relabel == label' = <<>>

Post(closure) ==
  /\ Len(posted) < MaxPosted
  /\ posted' = Append(posted, closure)

(* The session's handlers, on the window's thread, and its goroutines.     *)
ProfilesListed ==
  /\ ~listed
  /\ listed' = TRUE
  /\ UNCHANGED <<state, asking, calling, stop, pinger, lookup, posted, tile, label, adapter>>

(* A tunnel that is found up at the start is shown with its address but    *)
(* not pinged; one that a clean-up finds, with neither.                    *)
StatusReport ==
  /\ UNCHANGED <<calling, listed, stop, pinger, posted, tile, adapter>>
  /\ Seen!Reports
  /\ IF state' = "Connected"
     THEN /\ Relabel
          /\ lookup' = IF asking = "start-up" THEN [lookup EXCEPT ![0] = "look"] ELSE lookup
     ELSE UNCHANGED <<label, lookup>>

(* A connect that fails its validation, and saves, set the status too.     *)
Remark ==
  /\ UNCHANGED <<calling, listed, stop, pinger, lookup, posted, tile, adapter>>
  /\ Relabel
  /\ Seen!Remarks

OnConnect ==
  /\ started < MaxConns
  /\ calling' = TRUE
  /\ Relabel
  /\ UNCHANGED <<listed, stop, pinger, lookup, posted, tile, adapter>>
  /\ Seen!Connects

OnDisconnect ==
  /\ calling' = TRUE
  /\ Relabel
  /\ UNCHANGED <<listed, stop, pinger, lookup, posted, tile, adapter>>
  /\ Seen!Disconnects

Reported ==
  /\ calling
  /\ calling' = FALSE
  /\ \E r \in IF state = "Connecting" THEN {"up", "failed", "canceled"}
                                      ELSE {"closed", "stays"} : Post(r)
  /\ UNCHANGED <<state, asking, listed, stop, pinger, lookup, tile, label, adapter>>

-----------------------------------------------------------------------------
(* What the window does with the oldest closure.                           *)
Oldest(closures) == posted # <<>> /\ Head(posted) \in closures

StopPingOpen ==   \* slip: the channel is forgotten but not closed
  /\ running' = 0
  /\ UNCHANGED <<started, stopped>>

StopPing ==
  /\ running' = 0
  /\ stopped' = stopped \union ({running} \ {0})
  /\ UNCHANGED started

StartPing ==   \* a prior pinger is stopped first
  /\ started' = started + 1
  /\ running' = started + 1
  /\ stopped' = stopped \union ({running} \ {0})

(* Both reset the tile by a closure, behind those that wait already.       *)
Reset == posted' = Append(Tail(posted), "not connected")

ConnectDone ==
  /\ Oldest({"up"})
  /\ StartPing
  /\ Reset
  /\ Relabel
  /\ lookup' = [lookup EXCEPT ![started + 1] = "look"]
  /\ UNCHANGED <<calling, listed, pinger, tile, adapter>>
  /\ Seen!GoesUp

ConnectFails ==
  /\ Oldest({"failed", "canceled"})
  /\ posted' = Tail(posted)
  /\ Relabel
  /\ UNCHANGED <<calling, listed, stop, pinger, lookup, tile, adapter>>
  /\ IF Head(posted) = "failed" THEN Seen!Fails ELSE Seen!IsCancelled

DisconnectDone ==
  /\ Oldest({"closed"})
  /\ StopPing
  /\ Reset
  /\ Relabel
  /\ UNCHANGED <<calling, listed, pinger, lookup, tile, adapter>>
  /\ Seen!Closes

DisconnectFails ==
  /\ Oldest({"stays"})
  /\ posted' = Tail(posted)
  /\ Relabel
  /\ UNCHANGED <<calling, listed, stop, pinger, lookup, tile, adapter>>
  /\ Seen!StaysUp

ShowPing ==   \* whatever the state
  /\ Oldest(Readings)
  /\ tile' = Head(posted)
  /\ posted' = Tail(posted)
  /\ UNCHANGED <<session, stop, pinger, lookup, label, adapter>>

ShowAddressAgain ==   \* slip: the label is not searched for the address
  /\ Oldest(Addresses)
  /\ label' = IF state = "Connected" THEN Append(label, Head(posted)) ELSE label
  /\ posted' = Tail(posted)
  /\ UNCHANGED <<session, stop, pinger, lookup, tile, adapter>>

ShowAddress ==
  /\ Oldest(Addresses)
  /\ label' = IF state = "Connected" /\ ~Contains(label, Head(posted))
              THEN Append(label, Head(posted))
              ELSE label
  /\ posted' = Tail(posted)
  /\ UNCHANGED <<session, stop, pinger, lookup, tile, adapter>>

(* The closure of a connections poll sets the status again.                *)
ShowConns ==
  /\ state = "Connected"
  /\ running # 0
  /\ Relabel
  /\ UNCHANGED <<session, stop, pinger, lookup, posted, tile, adapter>>

-----------------------------------------------------------------------------
TickOrEnd(i) ==   \* slip: a pinger that finds nothing to ping is done
  /\ i <= started
  /\ pinger[i] = "wait"
  /\ pinger' = [pinger EXCEPT
       ![i] = IF state = "Connected" /\ listed THEN "ping" ELSE "gone"]
  /\ UNCHANGED <<session, stop, lookup, posted, tile, label, adapter>>

(* A pinger.  It reads c.state and c.profiles with no lock, and pings only *)
(* a gateway it knows of a connection; when the tick and the stop channel  *)
(* are both ready, select takes either.                                    *)
Tick(i) ==
  /\ i <= started
  /\ pinger[i] = "wait"
  /\ pinger' = [pinger EXCEPT
       ![i] = IF state = "Connected" /\ listed THEN "ping" ELSE "skip"]
  /\ UNCHANGED <<session, stop, lookup, posted, tile, label, adapter>>

Pinged(i) ==   \* within a second; the answer is posted as it is
  /\ pinger[i] \in {"ping", "skip"}
  /\ Post(IF pinger[i] = "ping" THEN "measured" ELSE "not connected")
  /\ pinger' = [pinger EXCEPT ![i] = "wait"]
  /\ UNCHANGED <<session, stop, lookup, tile, label, adapter>>

Exit(i) ==
  /\ i \in stopped
  /\ pinger[i] = "wait"
  /\ pinger' = [pinger EXCEPT ![i] = "gone"]
  /\ UNCHANGED <<session, stop, lookup, posted, tile, label, adapter>>

-----------------------------------------------------------------------------
(* A lookup finds the address the adapter has now, or gives up.            *)
Look(l) ==
  /\ lookup[l] = "look"
  /\ \E found \in {"gone"} \union ({adapter} \ {NoAddress}) :
       lookup' = [lookup EXCEPT ![l] = found]
  /\ UNCHANGED <<session, stop, pinger, posted, tile, label, adapter>>

Found(l) ==
  /\ lookup[l] \in Addresses
  /\ Post(lookup[l])
  /\ lookup' = [lookup EXCEPT ![l] = "gone"]
  /\ UNCHANGED <<session, stop, pinger, tile, label, adapter>>

(* The system gives a tunnel its address, and may take it down.            *)
Assign ==
  /\ state \in {"Connecting", "Connected"}
  /\ adapter = NoAddress
  /\ adapter' \in Addresses
  /\ UNCHANGED <<session, stop, pinger, lookup, posted, tile, label>>

TakeDown ==
  /\ adapter # NoAddress
  /\ adapter' = NoAddress
  /\ UNCHANGED <<session, stop, pinger, lookup, posted, tile, label>>

-----------------------------------------------------------------------------
Closure ==
  \/ ConnectDone \/ ConnectFails \/ DisconnectDone \/ DisconnectFails
  \/ ShowPing \/ ShowAddress

Next ==
  \/ ProfilesListed \/ StatusReport \/ Remark
  \/ OnConnect \/ OnDisconnect \/ Reported
  \/ Closure
  \/ ShowConns
  \/ \E i \in Pingers : Tick(i) \/ Pinged(i) \/ Exit(i)
  \/ \E l \in Lookups : Look(l) \/ Found(l)
  \/ Assign \/ TakeDown

(* The window runs its closures; pingers tick, a ping has its time-out,    *)
(* and select does not overlook a closed channel for ever.                 *)
Fairness ==
  /\ WF_vars(Closure)
  /\ \A i \in Pingers :
       WF_vars(Tick(i)) /\ SF_vars(Pinged(i)) /\ SF_vars(Exit(i))

Spec == Init /\ [][Next]_vars /\ Fairness

-----------------------------------------------------------------------------
(* However late a lookup reports and however many are under way, the label *)
(* shows an address only beside "Connected", and none twice.               *)
AddressShownOnce ==
  /\ label # <<>> => state = "Connected"
  /\ IsInjective(label)

(* A connection made here that stays, after failed disconnects or not, has *)
(* its ping on the tile in the end, for good: neither the resets nor the   *)
(* pingers of earlier connections write over it for ever.                  *)
PingCatchesUp ==
  <>[](state = "Connected" /\ running # 0 /\ listed) => <>[](tile = "measured")

=============================================================================
