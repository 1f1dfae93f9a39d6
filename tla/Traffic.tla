------------------------------ MODULE Traffic ------------------------------
(***************************************************************************)
(* The DOWN and UP tiles (startTraffic and stopTraffic in                  *)
(* internal/ui/main_window.go).  Every connection starts a ticker: a       *)
(* goroutine that samples the adapter's byte counters under one lock that  *)
(* all tickers share (tickBusy), posts the rate to the window, and then    *)
(* starts a poll of the open connections, whose reverse DNS may take for   *)
(* ever.  A ticker that was stopped, its poll and the closures it posted   *)
(* may all outlive the connection.                                         *)
(*                                                                         *)
(* The session around the tickers is Session, which Controller implements  *)
(* with a patient user.                                                    *)
(***************************************************************************)
EXTENDS Integers

CONSTANTS
  MaxTickers,   \* bound: connections made
  MaxCount      \* bound: the counters are of width MaxCount + 1

ASSUME BoundsAssumption == MaxTickers \in Nat \ {0} /\ MaxCount \in Nat \ {0}

VARIABLES
  state,     \* c.state
  asking,    \* the status query that has not reported: start-up's, a clean-up's
  started,   \* tickers started so far; they are 1 .. started
  running,   \* whose stop channel c.trafficStop holds, or 0
  stopped,   \* tickers whose stop channel is closed
  ticker,    \* of each ticker: where it is, and its baseline
  tickBusy,  \* c.tickBusy
  polling,   \* tickers whose connBusy is set
  posted,    \* kinds of closures posted to the window and not yet run
  shown,     \* the tiles show a rate, not a dash
  counters,  \* the adapter's octets, in and out
  carried    \* history: what it carried since the ticker's baseline

session == <<state, asking>>
stop == <<started, running, stopped>>
adapter == <<counters, carried>>
vars == <<session, stop, ticker, tickBusy, polling, posted, shown, adapter>>

Tickers == 1 .. MaxTickers
Octets == [rx : 0 .. MaxCount, tx : 0 .. MaxCount]
NoOctets == [rx |-> 0, tx |-> 0]
None == [none |-> TRUE]

Seen == INSTANCE Session WITH ticking <- running # 0

(* Every variable has the values the code gives it, and at most one stop   *)
(* channel is open: the one c.trafficStop holds.                           *)
TypeOK ==
  /\ Seen!SessionTypeOK
  /\ started \in 0 .. MaxTickers
  /\ running \in 0 .. started
  /\ stopped = (1 .. started) \ {running}
  /\ ticker \in [Tickers -> [pc : {"wait", "sample", "release", "gone"},
                             base : Octets \union {None}]]
  /\ tickBusy \in BOOLEAN
  /\ polling \in SUBSET Tickers
  /\ posted \in SUBSET {"rate", "conns"}
  /\ shown \in BOOLEAN
  /\ counters \in Octets
  /\ carried \in [Tickers -> Octets]

Init ==
  /\ started = 0
  /\ running = 0
  /\ Seen!SessionInit
  /\ stopped = {}
  /\ ticker = [i \in Tickers |-> [pc |-> "wait", base |-> None]]
  /\ tickBusy = FALSE
  /\ polling = {}
  /\ posted = {}
  /\ shown = FALSE
  /\ counters = NoOctets
  /\ carried = [i \in Tickers |-> NoOctets]

-----------------------------------------------------------------------------
(* The session: its handlers and closures, on the window's thread.         *)

StartTraffic ==   \* a prior ticker is stopped first
  /\ started' = started + 1
  /\ running' = started + 1
  /\ stopped' = stopped \union ({running} \ {0})
  /\ shown' = FALSE

StopTrafficOpen ==   \* slip: the channel is forgotten but not closed
  /\ running' = 0
  /\ shown' = FALSE
  /\ UNCHANGED <<started, stopped>>

StopTraffic ==
  /\ running' = 0
  /\ stopped' = stopped \union ({running} \ {0})
  /\ shown' = FALSE
  /\ UNCHANGED started

StatusReport ==
  /\ UNCHANGED <<stop, ticker, tickBusy, polling, posted, shown, adapter>>
  /\ Seen!Reports

(* A connect that fails its validation, and saves, set the status too.     *)
Remark ==
  /\ UNCHANGED <<stop, ticker, tickBusy, polling, posted, shown, adapter>>
  /\ Seen!Remarks

OnConnect ==
  /\ started < MaxTickers
  /\ UNCHANGED <<stop, ticker, tickBusy, polling, posted, shown, adapter>>
  /\ Seen!Connects

ConnectDone ==
  /\ UNCHANGED <<ticker, tickBusy, polling, posted, adapter>>
  /\ \/ StartTraffic /\ Seen!GoesUp
     \/ UNCHANGED <<stop, shown>> /\ (Seen!Fails \/ Seen!IsCancelled)

OnDisconnect ==
  /\ UNCHANGED <<stop, ticker, tickBusy, polling, posted, shown, adapter>>
  /\ Seen!Disconnects

DisconnectDone ==
  /\ UNCHANGED <<ticker, tickBusy, polling, posted, adapter>>
  /\ \/ StopTraffic /\ Seen!Closes
     \/ UNCHANGED <<stop, shown>> /\ Seen!StaysUp

-----------------------------------------------------------------------------
(* The ticker's goroutine.  When both channels are ready, select takes     *)
(* either; a tick that finds the lock taken is skipped.                    *)
Tick(i) ==
  /\ i <= started
  /\ ticker[i].pc = "wait"
  /\ ~tickBusy
  /\ tickBusy' = TRUE
  /\ ticker' = [ticker EXCEPT ![i].pc = "sample"]
  /\ UNCHANGED <<session, stop, polling, posted, shown, adapter>>

Exit(i) ==
  /\ i \in stopped
  /\ ticker[i].pc = "wait"
  /\ ticker' = [ticker EXCEPT ![i] = [pc |-> "gone", base |-> None]]
  /\ carried' = [carried EXCEPT ![i] = NoOctets]
  /\ UNCHANGED <<session, stop, tickBusy, polling, posted, shown, counters>>

(* The difference of two counters, in the counters' width.                 *)
Grown(now, before) ==
  [rx |-> (now.rx - before.rx) % (MaxCount + 1),
   tx |-> (now.tx - before.tx) % (MaxCount + 1)]

(* From a sample and the baseline before it: the new baseline and the      *)
(* rate to show, if any.                                                   *)
Regressed(now, base) == base # None /\ (now.rx < base.rx \/ now.tx < base.tx)

RatedNoZero(now, base) ==   \* slip: "no such adapter" is taken for a reset
  [base |-> now,
   rate |-> IF Regressed(now, base) THEN None
            ELSE IF base = None THEN NoOctets ELSE Grown(now, base)]

Rated(now, base) ==
  [base |-> IF now = NoOctets THEN None ELSE now,
   rate |-> IF now = NoOctets \/ Regressed(now, base) THEN None
            ELSE IF base = None THEN NoOctets ELSE Grown(now, base)]

(* TrafficCounters answers with the counters, or with zeros when it cannot *)
(* find or read the adapter; an error, or two samples too close to each    *)
(* other, change nothing.                                                  *)
Sample(i) ==
  /\ ticker[i].pc = "sample"
  /\ \/ \E now \in {counters, NoOctets} :
          LET r == Rated(now, ticker[i].base) IN
          /\ ticker' = [ticker EXCEPT
                ![i] = [pc |-> "release", base |-> r.base]]
          /\ posted' = posted \union (IF r.rate # None THEN {"rate"} ELSE {})
          /\ carried' = [carried EXCEPT ![i] = NoOctets]
     \/ /\ ticker' = [ticker EXCEPT ![i].pc = "release"]
        /\ UNCHANGED <<posted, carried>>
  /\ UNCHANGED <<session, stop, tickBusy, polling, shown, counters>>

ReleaseAfterPoll(i) ==   \* slip: the lock is kept while a poll is in flight
  /\ ticker[i].pc = "release"
  /\ i \notin polling
  /\ tickBusy' = FALSE
  /\ ticker' = [ticker EXCEPT ![i].pc = "wait"]
  /\ polling' = polling \union {i}
  /\ UNCHANGED <<session, stop, posted, shown, adapter>>

(* The lock is released first; then the connections are polled, unless the *)
(* ticker's last poll is still in flight.                                  *)
Release(i) ==
  /\ ticker[i].pc = "release"
  /\ tickBusy' = FALSE
  /\ ticker' = [ticker EXCEPT ![i].pc = "wait"]
  /\ polling' = polling \union {i}
  /\ UNCHANGED <<session, stop, posted, shown, adapter>>

(* A poll's answer is posted if it is news.                                *)
PollAnswers(i) ==
  /\ i \in polling
  /\ polling' = polling \ {i}
  /\ posted' \in {posted, posted \union {"conns"}}
  /\ UNCHANGED <<session, stop, ticker, tickBusy, shown, adapter>>

-----------------------------------------------------------------------------
(* The posted closures look at c.state, not at which ticker posted them.   *)
ShowRateAlways ==   \* slip: the state is not looked at again
  /\ "rate" \in posted
  /\ posted' = posted \ {"rate"}
  /\ shown' = TRUE
  /\ UNCHANGED <<session, stop, ticker, tickBusy, polling, adapter>>

ShowRate ==
  /\ "rate" \in posted
  /\ posted' = posted \ {"rate"}
  /\ shown' = (shown \/ state = "Connected")
  /\ UNCHANGED <<session, stop, ticker, tickBusy, polling, adapter>>

ShowConnsAlways ==   \* slip: the state is not looked at again
  /\ "conns" \in posted
  /\ posted' = posted \ {"conns"}
  /\ state' = "Connected"
  /\ UNCHANGED <<asking, stop, ticker, tickBusy, polling, shown, adapter>>

ShowConns ==   \* setStatus(Connected, ...), in that state only
  /\ "conns" \in posted
  /\ posted' = posted \ {"conns"}
  /\ state' = IF state = "Connected" THEN "Connected" ELSE state
  /\ UNCHANGED <<asking, stop, ticker, tickBusy, polling, shown, adapter>>

-----------------------------------------------------------------------------
(* The adapter: octets pass; a new tunnel starts counting from zero.       *)
Grow(o, f) == [o EXCEPT ![f] = IF @ < MaxCount THEN @ + 1 ELSE @]

Carry(f) ==
  /\ running # 0
  /\ counters[f] < MaxCount
  /\ counters' = Grow(counters, f)
  /\ carried' = [i \in Tickers |->
       IF ticker[i].base # None THEN Grow(carried[i], f) ELSE carried[i]]
  /\ UNCHANGED <<session, stop, ticker, tickBusy, polling, posted, shown>>

NewAdapter ==
  /\ counters # NoOctets
  /\ counters' = NoOctets
  /\ UNCHANGED <<session, stop, ticker, tickBusy, polling, posted, shown, carried>>

-----------------------------------------------------------------------------
Goes(i) == Tick(i) \/ Exit(i) \/ Sample(i) \/ Release(i)

Next ==
  \/ StatusReport \/ Remark
  \/ OnConnect \/ ConnectDone \/ OnDisconnect \/ DisconnectDone
  \/ \E i \in Tickers : Goes(i) \/ PollAnswers(i)
  \/ ShowRate \/ ShowConns
  \/ \E f \in {"rx", "tx"} : Carry(f)
  \/ NewAdapter

(* Tickers tick and read the counters; select does not overlook a closed   *)
(* stop channel for ever (it chooses at random).  A poll owes nothing.     *)
Fairness ==
  \A i \in Tickers :
    /\ WF_vars(Tick(i)) /\ SF_vars(Exit(i))
    /\ WF_vars(Sample(i)) /\ WF_vars(Release(i))

Spec == Init /\ [][Next]_vars /\ Fairness

-----------------------------------------------------------------------------
(* The tiles show a rate only while the window shows a connection, however *)
(* late a rate is posted by a ticker that was already stopped.             *)
RatesOnlyWhileConnected == shown => state \in {"Connected", "Disconnecting"}

(* A poll that answers after the connection is closed does not bring the   *)
(* window back to "Connected": only a status query does that.              *)
NoRevival == [][state' = "Connected" /\ state \in {"Disconnected", "Error"}
                  => asking # "no"]_vars

(* No spike: whatever the counters did -- a new adapter that starts at     *)
(* zero, samples that failed -- the rate a sample taken now would show     *)
(* stands for octets really carried since the baseline it is measured by.  *)
RateIsReal ==
  \A i \in Tickers :
    LET r == Rated(counters, ticker[i].base).rate IN
    ticker[i].base # None /\ r # None =>
      r.rx <= carried[i].rx /\ r.tx <= carried[i].tx

(* A connection poll that hangs does not stop the rates, nor does the      *)
(* ticker of an earlier connection: the running ticker keeps sampling.     *)
KeepsSampling ==
  \A i \in Tickers : <>[](running = i) => []<>(ticker[i].pc = "sample")

(* The ticker of a connection that was closed ends: goroutines do not pile *)
(* up over the connections of a day.                                       *)
OldTickersEnd ==
  \A i \in Tickers : i <= started /\ i # running ~> ticker[i].pc = "gone"

=============================================================================
