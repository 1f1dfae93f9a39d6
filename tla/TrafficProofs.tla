--------------------------- MODULE TrafficProofs ---------------------------
(***************************************************************************)
(* Proofs about Traffic: the rates shown are real and die with the         *)
(* connection, and one ticker samples at a time, for every number of       *)
(* connections and width of the counters.                                  *)
(***************************************************************************)
EXTENDS Traffic, TLAPS

USE BoundsAssumption

LEMMA RatedRange ==
  ASSUME NEW now \in Octets, NEW base \in Octets \union {None}
  PROVE  Rated(now, base).base \in Octets \union {None}
BY DEF Rated

LEMMA GrowRange ==
  ASSUME NEW o \in Octets, NEW f \in {"rx", "tx"}
  PROVE  Grow(o, f) \in Octets
BY DEF Grow, Octets

-----------------------------------------------------------------------------
(* The session *)

(* Every step is one of the session's, or leaves it alone.                 *)
LEMMA SessionStep == [Next]_vars => [Seen!SessionNext]_(Seen!sessionVars)
<1> SUFFICES ASSUME [Next]_vars PROVE [Seen!SessionNext]_(Seen!sessionVars)
  OBVIOUS
<1>1. CASE StatusReport \/ Remark \/ OnConnect \/ ConnectDone \/ OnDisconnect
             \/ DisconnectDone
  BY <1>1 DEF StatusReport, Remark, OnConnect, ConnectDone, OnDisconnect,
              DisconnectDone, Seen!SessionNext
<1>2. CASE UNCHANGED <<session, running>>
  BY <1>2 DEF session, Seen!sessionVars
<1>3. ASSUME NEW i \in Tickers, Goes(i) \/ PollAnswers(i)
      PROVE  UNCHANGED <<session, running>>
  BY <1>3 DEF Goes, Tick, Exit, Sample, Release, PollAnswers, stop
<1>4. CASE ShowRate \/ ShowConns \/ NewAdapter \/ UNCHANGED vars
  BY <1>2, <1>4 DEF ShowRate, ShowConns, NewAdapter, session, stop, vars
<1>5. ASSUME NEW f \in {"rx", "tx"}, Carry(f) PROVE UNCHANGED <<session, running>>
  BY <1>5 DEF Carry, stop
<1> QED
  BY <1>1, <1>2, <1>3, <1>4, <1>5 DEF Next

LEMMA SessionTypes ==
  ASSUME Seen!SessionTypeOK, [Seen!SessionNext]_(Seen!sessionVars)
  PROVE  Seen!SessionTypeOK'
<1> USE DEF Seen!SessionTypeOK, Seen!States, Seen!Queries, Seen!Idle
<1>1. CASE UNCHANGED Seen!sessionVars
  BY <1>1 DEF Seen!sessionVars
<1>2. CASE Seen!SessionNext
  BY <1>2 DEF Seen!SessionNext, Seen!Reports, Seen!Remarks, Seen!Connects, Seen!GoesUp,
     Seen!Fails, Seen!IsCancelled, Seen!Disconnects, Seen!Closes, Seen!StaysUp
<1> QED
  BY <1>1, <1>2

-----------------------------------------------------------------------------
(* Types *)

(* A connect is only started when there is room for one more ticker.       *)
Room == state = "Connecting" => started < MaxTickers

LEMMA TypeInit == Init => TypeOK
<1> SUFFICES ASSUME Init PROVE TypeOK
  OBVIOUS
<1>1. NoOctets \in Octets
  BY DEF NoOctets, Octets
<1>2. /\ ticker \in [Tickers -> [pc : {"wait", "sample", "release", "gone"},
                                base : Octets \union {None}]]
      /\ carried \in [Tickers -> Octets]
      /\ counters \in Octets
  BY <1>1 DEF Init
<1>3. stopped = (1 .. started) \ {running} /\ started \in 0 .. MaxTickers
  BY DEF Init
<1>4. /\ running \in 0 .. started
      /\ polling \in SUBSET Tickers /\ posted \in SUBSET {"rate", "conns"}
  BY <1>3 DEF Init
<1>5. tickBusy \in BOOLEAN /\ shown \in BOOLEAN
  BY DEF Init
<1>6. Seen!SessionTypeOK
  BY DEF Init, Seen!SessionInit, Seen!SessionTypeOK, Seen!States, Seen!Queries
<1> QED
  BY <1>2, <1>3, <1>4, <1>5, <1>6 DEF TypeOK

(* The stop channels, when the session starts a ticker or stops it.        *)
LEMMA StopStep ==
  ASSUME TypeOK, (StartTraffic /\ started < MaxTickers) \/ StopTraffic
  PROVE  /\ started' \in 0 .. MaxTickers
         /\ running' \in 0 .. started'
         /\ stopped' = (1 .. started') \ {running'}
         /\ shown' \in BOOLEAN
<1>1. shown' \in BOOLEAN
  BY DEF StartTraffic, StopTraffic
<1>2. CASE StartTraffic /\ started < MaxTickers
  BY <1>1, <1>2 DEF TypeOK, StartTraffic
<1>3. CASE StopTraffic
  BY <1>1, <1>3 DEF TypeOK, StopTraffic
<1> QED
  BY <1>2, <1>3

LEMMA TypeStep == TypeOK /\ Room /\ [Next]_vars => TypeOK'
<1> SUFFICES ASSUME TypeOK, Room, [Next]_vars PROVE TypeOK'
  OBVIOUS
<1>0. Seen!SessionTypeOK'
  BY SessionStep, SessionTypes DEF TypeOK
<1>1. CASE StatusReport \/ Remark \/ OnConnect \/ OnDisconnect
  BY <1>0, <1>1 DEF TypeOK, StatusReport, Remark, OnConnect, OnDisconnect, stop, adapter
<1>2. CASE ConnectDone
  <2>1. CASE StartTraffic /\ Seen!GoesUp
    <3>1. started < MaxTickers
      BY <2>1 DEF Room, Seen!GoesUp
    <3> QED
      BY <1>0, <1>2, <2>1, <3>1, StopStep DEF TypeOK, ConnectDone, adapter
  <2>2. CASE UNCHANGED <<stop, shown>>
    BY <1>0, <1>2, <2>2 DEF TypeOK, ConnectDone, stop, adapter
  <2> QED
    BY <1>2, <2>1, <2>2 DEF ConnectDone
<1>3. CASE DisconnectDone
  <2>1. CASE StopTraffic
    BY <1>0, <1>3, <2>1, StopStep DEF TypeOK, DisconnectDone, adapter
  <2>2. CASE UNCHANGED <<stop, shown>>
    BY <1>0, <1>3, <2>2 DEF TypeOK, DisconnectDone, stop, adapter
  <2> QED
    BY <1>3, <2>1, <2>2 DEF DisconnectDone
<1>4. ASSUME NEW i \in Tickers, Tick(i) PROVE TypeOK'
  BY <1>0, <1>4 DEF TypeOK, Tick, stop, adapter
<1>5. ASSUME NEW i \in Tickers, Exit(i) PROVE TypeOK'
  BY <1>0, <1>5 DEF TypeOK, Exit, stop, Octets, NoOctets
<1>6. ASSUME NEW i \in Tickers, Sample(i) PROVE TypeOK'
  <2>1. counters \in Octets /\ NoOctets \in Octets
    BY DEF TypeOK, Octets, NoOctets
  <2>2. PICK b \in Octets \union {None} :
          /\ ticker' = [ticker EXCEPT ![i] = [pc |-> "release", base |-> b]]
               \/ ticker' = [ticker EXCEPT ![i].pc = "release"]
          /\ posted' \in SUBSET {"rate", "conns"}
          /\ carried' = [carried EXCEPT ![i] = NoOctets] \/ carried' = carried
    BY <1>6, <2>1, RatedRange DEF TypeOK, Sample
  <2>3. ticker' \in [Tickers -> [pc : {"wait", "sample", "release", "gone"},
                                 base : Octets \union {None}]]
    BY <2>2 DEF TypeOK
  <2>4. carried' \in [Tickers -> Octets]
    BY <2>1, <2>2 DEF TypeOK
  <2> QED
    BY <1>0, <1>6, <2>2, <2>3, <2>4 DEF TypeOK, Sample, stop
<1>7. ASSUME NEW i \in Tickers, Release(i) PROVE TypeOK'
  BY <1>0, <1>7 DEF TypeOK, Release, stop, adapter
<1>8. CASE ShowRate
  BY <1>0, <1>8 DEF TypeOK, ShowRate, stop, adapter
<1>9. CASE ShowConns
  BY <1>0, <1>9 DEF TypeOK, ShowConns, stop, adapter
<1>10. ASSUME NEW f \in {"rx", "tx"}, Carry(f) PROVE TypeOK'
  <2>1. counters' \in Octets
    BY <1>10, GrowRange DEF TypeOK, Carry
  <2>2. carried' \in [Tickers -> Octets]
    BY <1>10, GrowRange DEF TypeOK, Carry
  <2> QED
    BY <1>0, <1>10, <2>1, <2>2 DEF TypeOK, Carry, stop
<1>11. CASE NewAdapter
  BY <1>0, <1>11 DEF TypeOK, NewAdapter, stop, Octets, NoOctets
<1>12. ASSUME NEW i \in Tickers, PollAnswers(i) PROVE TypeOK'
  BY <1>0, <1>12 DEF TypeOK, PollAnswers, stop, adapter
<1>13. CASE UNCHANGED vars
  BY <1>0, <1>13 DEF TypeOK, vars, stop, adapter
<1> QED
  BY <1>1, <1>2, <1>3, <1>4, <1>5, <1>6, <1>7, <1>8, <1>9, <1>10, <1>11, <1>12, <1>13
  DEF Next, Goes

LEMMA RoomStep == TypeOK /\ Room /\ [Next]_vars => Room'
<1> SUFFICES ASSUME TypeOK, Room, [Next]_vars PROVE Room'
  OBVIOUS
<1>1. CASE OnConnect
  BY <1>1 DEF Room, OnConnect, stop
<1>2. CASE state' # "Connecting"
  BY <1>2 DEF Room
<1>3. CASE UNCHANGED <<state, started>>
  BY <1>3 DEF Room
<1>4. CASE StatusReport \/ Remark \/ ConnectDone \/ OnDisconnect \/ DisconnectDone
  BY <1>2, <1>4 DEF TypeOK, StatusReport, Remark, ConnectDone, OnDisconnect,
     DisconnectDone, Seen!SessionTypeOK, Seen!Reports, Seen!Remarks, Seen!GoesUp,
     Seen!Fails, Seen!IsCancelled, Seen!Disconnects, Seen!Closes, Seen!StaysUp
<1> QED
  BY <1>1, <1>3, <1>4 DEF Next, Goes, Tick, Exit, Sample, Release, PollAnswers, ShowRate,
     ShowConns, Carry, NewAdapter, session, stop, vars

(* Every variable keeps the values the code gives it, and of all tickers   *)
(* started only the current one's stop channel is open.                    *)
THEOREM TrafficTypes == Spec => []TypeOK
<1>1. Init => Room
  BY DEF Init, Seen!SessionInit, Room
<1> QED
  BY <1>1, TypeInit, TypeStep, RoomStep, PTL DEF Spec

-----------------------------------------------------------------------------
(* The tiles never show a rate without a connection.                       *)
THEOREM RatesEndWithConnection == Spec => []RatesOnlyWhileConnected
<1>1. Init => RatesOnlyWhileConnected
  BY DEF Init, RatesOnlyWhileConnected
<1>2. RatesOnlyWhileConnected /\ [Next]_vars => RatesOnlyWhileConnected'
  <2> SUFFICES ASSUME RatesOnlyWhileConnected, [Next]_vars
               PROVE  RatesOnlyWhileConnected'
    OBVIOUS
  <2> USE DEF RatesOnlyWhileConnected, session, stop, adapter
  <2>1. CASE StatusReport
    BY <2>1 DEF StatusReport, Seen!Reports
  <2>2. CASE Remark \/ OnConnect
    BY <2>2 DEF Remark, OnConnect, Seen!Remarks, Seen!Connects, Seen!Idle
  <2>3. CASE ConnectDone
    BY <2>3 DEF ConnectDone, StartTraffic, Seen!GoesUp, Seen!Fails, Seen!IsCancelled
  <2>4. CASE OnDisconnect
    BY <2>4 DEF OnDisconnect, Seen!Disconnects
  <2>5. CASE DisconnectDone
    BY <2>5 DEF DisconnectDone, StopTraffic, Seen!Closes, Seen!StaysUp
  <2>6. ASSUME NEW i \in Tickers, Goes(i) \/ PollAnswers(i)
        PROVE  RatesOnlyWhileConnected'
    BY <2>6 DEF Goes, Tick, Exit, Sample, Release, PollAnswers
  <2>7. CASE ShowRate
    BY <2>7 DEF ShowRate
  <2>8. CASE ShowConns
    BY <2>8 DEF ShowConns
  <2>9. ASSUME NEW f \in {"rx", "tx"}, Carry(f) PROVE RatesOnlyWhileConnected'
    BY <2>9 DEF Carry
  <2>10. CASE NewAdapter
    BY <2>10 DEF NewAdapter
  <2>11. CASE UNCHANGED vars
    BY <2>11 DEF vars
  <2> QED
    BY <2>1, <2>2, <2>3, <2>4, <2>5, <2>6, <2>7, <2>8, <2>9, <2>10, <2>11 DEF Next
<1> QED
  BY <1>1, <1>2, PTL DEF Spec

-----------------------------------------------------------------------------
(* Why a rate is real: a baseline never trails the adapter by more than    *)
(* what it carried since.  A new adapter only makes the difference         *)
(* smaller; the code's comparison then keeps it from being shown as a      *)
(* wrapped, huge one.                                                      *)
BaselineIsReal ==
  \A i \in Tickers : ticker[i].base # None =>
    /\ counters.rx - ticker[i].base.rx <= carried[i].rx
    /\ counters.tx - ticker[i].base.tx <= carried[i].tx

LEMMA BaselineStep == TypeOK /\ BaselineIsReal /\ [Next]_vars => BaselineIsReal'
<1> SUFFICES ASSUME TypeOK, BaselineIsReal, [Next]_vars PROVE BaselineIsReal'
  OBVIOUS
<1>1. CASE UNCHANGED <<ticker, counters, carried>>
  BY <1>1 DEF BaselineIsReal
<1>2. ASSUME NEW i \in Tickers, Tick(i) \/ Release(i) PROVE BaselineIsReal'
  BY <1>2 DEF TypeOK, BaselineIsReal, Tick, Release, adapter
<1>3. ASSUME NEW i \in Tickers, Exit(i) PROVE BaselineIsReal'
  BY <1>3 DEF TypeOK, BaselineIsReal, Exit
<1>4. ASSUME NEW i \in Tickers, Sample(i) PROVE BaselineIsReal'
  <2> SUFFICES ASSUME NEW j \in Tickers, ticker'[j].base # None
               PROVE  /\ counters'.rx - ticker'[j].base.rx <= carried'[j].rx
                      /\ counters'.tx - ticker'[j].base.tx <= carried'[j].tx
    BY DEF BaselineIsReal
  <2>1. counters' = counters
    BY <1>4 DEF Sample
  <2>2. CASE j # i
    BY <1>4, <2>1, <2>2 DEF Sample, TypeOK, BaselineIsReal
  <2>3. CASE j = i /\ carried' = carried /\ ticker'[i].base = ticker[i].base
    BY <2>1, <2>3 DEF BaselineIsReal
  <2>4. CASE j = i /\ \E now \in {counters, NoOctets} :
               /\ ticker'[i].base = Rated(now, ticker[i].base).base
               /\ carried'[i] = NoOctets
    <3>1. PICK now \in {counters, NoOctets} :
               /\ ticker'[i].base = Rated(now, ticker[i].base).base
               /\ carried'[i] = NoOctets
      BY <2>4
    <3>2. ticker'[i].base \in {now, None} /\ now # NoOctets
      BY <2>4, <3>1 DEF Rated
    <3>3. ticker'[i].base = counters
      BY <2>4, <3>1, <3>2
    <3> QED
      BY <2>1, <2>4, <3>1, <3>3 DEF TypeOK, Octets, NoOctets
  <2> QED
    BY <1>4, <2>2, <2>3, <2>4 DEF Sample, TypeOK
<1>5. ASSUME NEW f \in {"rx", "tx"}, Carry(f) PROVE BaselineIsReal'
  BY <1>5 DEF TypeOK, BaselineIsReal, Carry, Grow, Octets
<1>6. CASE NewAdapter
  BY <1>6 DEF TypeOK, BaselineIsReal, NewAdapter, Octets, NoOctets
<1> QED
  BY <1>1, <1>2, <1>3, <1>4, <1>5, <1>6 DEF Next, Goes, StatusReport, Remark, OnConnect,
     ConnectDone, OnDisconnect, DisconnectDone, PollAnswers, ShowRate, ShowConns,
     adapter, vars

LEMMA RealFromBaseline == TypeOK /\ BaselineIsReal => RateIsReal
<1> SUFFICES ASSUME TypeOK, BaselineIsReal, NEW i \in Tickers,
                    ticker[i].base # None,
                    Rated(counters, ticker[i].base).rate # None
             PROVE  /\ Rated(counters, ticker[i].base).rate.rx <= carried[i].rx
                    /\ Rated(counters, ticker[i].base).rate.tx <= carried[i].tx
  BY DEF RateIsReal
<1> DEFINE b == ticker[i].base
<1>1. b \in Octets /\ counters \in Octets /\ carried[i] \in Octets
  BY DEF TypeOK
<1>2. /\ ~(counters.rx < b.rx) /\ ~(counters.tx < b.tx)
      /\ Rated(counters, b).rate = Grown(counters, b)
  <2>1. Rated(counters, b).rate =
          IF counters = NoOctets \/ Regressed(counters, b) THEN None
          ELSE IF b = None THEN NoOctets ELSE Grown(counters, b)
    BY DEF Rated
  <2>2. ~Regressed(counters, b) /\ Rated(counters, b).rate = Grown(counters, b)
    BY <2>1
  <2> QED
    BY <2>2 DEF Regressed
<1>3. \A x \in 0 .. MaxCount : x % (MaxCount + 1) = x
  OBVIOUS
<1>4. /\ counters.rx - b.rx \in 0 .. MaxCount
      /\ counters.tx - b.tx \in 0 .. MaxCount
  BY <1>1, <1>2 DEF Octets
<1>5. /\ Grown(counters, b).rx = counters.rx - b.rx
      /\ Grown(counters, b).tx = counters.tx - b.tx
  BY <1>3, <1>4 DEF Grown
<1> QED
  BY <1>2, <1>5 DEF BaselineIsReal

(* No spike: a rate is never more than what the adapter carried.           *)
THEOREM RatesAreReal == Spec => []RateIsReal
<1>1. Init => BaselineIsReal
  BY DEF Init, BaselineIsReal
<1> QED
  BY <1>1, TrafficTypes, BaselineStep, RealFromBaseline, PTL DEF Spec

-----------------------------------------------------------------------------
(* Nothing but a status query turns a closed window back to "Connected".   *)
THEOREM NoLateRevival == Spec => NoRevival
<1>1. [Seen!SessionNext]_(Seen!sessionVars) =>
        [state' = "Connected" /\ state \in {"Disconnected", "Error"}
           => asking # "no"]_vars
  BY DEF Seen!SessionNext, Seen!Reports, Seen!Remarks, Seen!Connects, Seen!GoesUp,
         Seen!Fails, Seen!IsCancelled, Seen!Disconnects, Seen!Closes, Seen!StaysUp,
         Seen!sessionVars
<1> QED
  BY <1>1, SessionStep, PTL DEF Spec, NoRevival

-----------------------------------------------------------------------------
(* The lock the tickers share, c.tickBusy, is held exactly from a ticker's *)
(* tick to its release, by that ticker alone.                              *)
Sampling(i) == ticker[i].pc \in {"sample", "release"}

SamplesOneByOne ==
  /\ tickBusy <=> \E i \in Tickers : Sampling(i)
  /\ \A i, j \in Tickers : Sampling(i) /\ Sampling(j) => i = j

LEMMA SamplingStep ==
  ASSUME TypeOK, SamplesOneByOne, [Next]_vars
  PROVE  SamplesOneByOne'
<1>0. /\ tickBusy \in BOOLEAN
      /\ ticker \in [Tickers -> [pc : {"wait", "sample", "release", "gone"},
                                 base : Octets \union {None}]]
  BY DEF TypeOK
<1>1. ASSUME NEW i \in Tickers, Tick(i) PROVE SamplesOneByOne'
  <2>1. ~tickBusy /\ tickBusy' = TRUE
    BY <1>1 DEF Tick
  <2>2. \A j \in Tickers : ~Sampling(j)
    BY <2>1 DEF SamplesOneByOne
  <2>3. \A j \in Tickers : Sampling(j)' <=> j = i
    BY <1>0, <1>1, <2>2 DEF Tick, Sampling
  <2> QED
    BY <2>1, <2>3 DEF SamplesOneByOne
<1>2. ASSUME NEW i \in Tickers, Exit(i) \/ Sample(i) PROVE SamplesOneByOne'
  <2>1. \A j \in Tickers : Sampling(j)' <=> Sampling(j)
    BY <1>0, <1>2 DEF Exit, Sample, Sampling
  <2>2. tickBusy' = tickBusy
    BY <1>2 DEF Exit, Sample
  <2> QED
    BY <1>0, <2>1, <2>2 DEF SamplesOneByOne
<1>3. ASSUME NEW i \in Tickers, Release(i) PROVE SamplesOneByOne'
  <2>1. \A j \in Tickers : Sampling(j) => j = i
    BY <1>3 DEF Release, Sampling, SamplesOneByOne
  <2>2. \A j \in Tickers : ~Sampling(j)'
    BY <1>0, <1>3, <2>1 DEF Release, Sampling
  <2>3. tickBusy' = FALSE
    BY <1>3 DEF Release
  <2> QED
    BY <2>2, <2>3 DEF SamplesOneByOne
<1>4. CASE UNCHANGED <<ticker, tickBusy>>
  BY <1>0, <1>4 DEF SamplesOneByOne, Sampling
<1> QED
  BY <1>1, <1>2, <1>3, <1>4
  DEF Next, Goes, StatusReport, Remark, OnConnect, ConnectDone, OnDisconnect,
      DisconnectDone, PollAnswers, ShowRate, ShowConns, Carry, NewAdapter, vars

(* However many tickers of closed connections are still about, one samples *)
(* at a time, and the lock is taken only while one does: no exit, no poll  *)
(* and no stop leaves it taken.  That the running ticker gets it again and *)
(* again is KeepsSampling.                                                 *)
THEOREM LockIsNotLeaked == Spec => []SamplesOneByOne
<1>1. Init => SamplesOneByOne
  BY DEF Init, SamplesOneByOne, Sampling
<1> QED
  BY <1>1, SamplingStep, TrafficTypes, PTL DEF Spec

=============================================================================
