--------------------------- MODULE MonitorProofs ---------------------------
(***************************************************************************)
(* Proofs about Monitor, for every number of connections, of closures that *)
(* wait and of addresses: the session's part is Session's, one report at a *)
(* time is awaited by the transition that is shown, and the label shows an *)
(* address once and beside a connection only.                              *)
(***************************************************************************)
EXTENDS Monitor, SequenceTheorems, TLAPS

Closures == Readings \union Reports \union Addresses

(* The kinds of closures are told apart.                                   *)
LEMMA KindsDiffer ==
  /\ Readings \cap Reports = {} /\ Addresses \cap Reports = {}
  /\ Readings \subseteq Closures /\ Reports \subseteq Closures
  /\ Addresses \subseteq Closures
  /\ "not connected" \in Readings /\ "measured" \in Readings
BY AddressesAssumption DEF Readings, Reports, Closures

-----------------------------------------------------------------------------
(* The session *)

(* Every step is one of the session's, or leaves it alone.                 *)
LEMMA SessionStep == [Next]_vars => [Seen!SessionNext]_(Seen!sessionVars)
<1> SUFFICES ASSUME [Next]_vars PROVE [Seen!SessionNext]_(Seen!sessionVars)
  OBVIOUS
<1>1. CASE StatusReport \/ Remark \/ OnConnect \/ OnDisconnect \/ ConnectDone
             \/ ConnectFails \/ DisconnectDone \/ DisconnectFails
  BY <1>1 DEF StatusReport, Remark, OnConnect, OnDisconnect, ConnectDone,
              ConnectFails, DisconnectDone, DisconnectFails, Seen!SessionNext
<1>2. CASE UNCHANGED <<state, asking, running>>
  BY <1>2 DEF Seen!sessionVars
<1>3. CASE ProfilesListed \/ Reported \/ ShowPing \/ ShowAddress \/ ShowConns
             \/ Assign \/ TakeDown \/ UNCHANGED vars
  BY <1>2, <1>3 DEF ProfilesListed, Reported, ShowPing, ShowAddress, ShowConns, Assign,
                    TakeDown, session, stop, vars
<1>4. ASSUME NEW i \in Pingers, Tick(i) \/ Pinged(i) \/ Exit(i)
      PROVE  UNCHANGED <<state, asking, running>>
  BY <1>4 DEF Tick, Pinged, Exit, session, stop
<1>5. ASSUME NEW l \in Lookups, Look(l) \/ Found(l)
      PROVE  UNCHANGED <<state, asking, running>>
  BY <1>5 DEF Look, Found, session, stop
<1> QED
  BY <1>1, <1>2, <1>3, <1>4, <1>5 DEF Next, Closure

LEMMA SessionTypes ==
  ASSUME Seen!SessionTypeOK, [Seen!SessionNext]_(Seen!sessionVars)
  PROVE  Seen!SessionTypeOK'
<1> USE DEF Seen!SessionTypeOK, Seen!States, Seen!Queries, Seen!Idle
<1>1. CASE UNCHANGED Seen!sessionVars
  BY <1>1 DEF Seen!sessionVars
<1>2. CASE Seen!SessionNext
  BY <1>2 DEF Seen!SessionNext, Seen!Reports, Seen!Remarks, Seen!Connects, Seen!GoesUp,
     Seen!Fails, Seen!IsCancelled, Seen!Disconnects, Seen!Closes, Seen!StaysUp
<1> QED
  BY <1>1, <1>2

-----------------------------------------------------------------------------
(* The queue *)

(* Where the reports stand in it.                                          *)
Waiting(q) == {i \in 1 .. Len(q) : q[i] \in Reports}

LEMMA Posting ==
  ASSUME NEW q \in Seq(Closures), NEW c \in Closures
  PROVE  /\ Append(q, c) \in Seq(Closures)
         /\ Len(Append(q, c)) = Len(q) + 1
         /\ c \notin Reports => Waiting(Append(q, c)) = Waiting(q)
         /\ c \in Reports => Waiting(Append(q, c)) = Waiting(q) \union {Len(q) + 1}
         /\ \A i \in Waiting(q) : Append(q, c)[i] = q[i]
         /\ Append(q, c)[Len(q) + 1] = c
<1>1. /\ Append(q, c) \in Seq(Closures)
      /\ Len(Append(q, c)) = Len(q) + 1
      /\ \A i \in 1 .. Len(q) : Append(q, c)[i] = q[i]
      /\ Append(q, c)[Len(q) + 1] = c
  BY AppendProperties
<1>2. Len(q) \in Nat
  BY LenProperties
<1>3. \A i : i \in 1 .. Len(q) + 1 <=> i \in 1 .. Len(q) \/ i = Len(q) + 1
  BY <1>2
<1> QED
  BY <1>1, <1>3 DEF Waiting

LEMMA Taking ==
  ASSUME NEW q \in Seq(Closures), q # <<>>
  PROVE  /\ Head(q) \in Closures /\ Head(q) = q[1]
         /\ Tail(q) \in Seq(Closures)
         /\ Len(q) \in Nat /\ Len(Tail(q)) = Len(q) - 1
         /\ \A i : i \in Waiting(Tail(q)) <=> i \in Nat \ {0} /\ i + 1 \in Waiting(q)
         /\ \A i \in Waiting(Tail(q)) : Tail(q)[i] = q[i + 1]
<1>1. /\ Head(q) \in Closures /\ Head(q) = q[1]
      /\ Tail(q) \in Seq(Closures)
      /\ Len(Tail(q)) = Len(q) - 1
      /\ \A i \in 1 .. Len(Tail(q)) : Tail(q)[i] = q[i + 1]
  BY HeadTailProperties
<1>2. Len(q) \in Nat
  BY LenProperties
<1> QED
  BY <1>1, <1>2 DEF Waiting

-----------------------------------------------------------------------------
(* Types *)

QueueOK == posted \in Seq(Closures) /\ Len(posted) <= MaxPosted

LEMMA PostTypes ==
  ASSUME QueueOK, NEW c \in Closures, Post(c)
  PROVE  QueueOK'
BY Posting, LenProperties, BoundsAssumption DEF QueueOK, Post

LEMMA TakeTypes ==
  ASSUME QueueOK, posted # <<>>, posted' = Tail(posted) \/ Reset
  PROVE  QueueOK'
<1>1. /\ Tail(posted) \in Seq(Closures)
      /\ Len(posted) \in Nat /\ Len(Tail(posted)) = Len(posted) - 1
  BY Taking DEF QueueOK
<1>2. "not connected" \in Closures
  BY KindsDiffer
<1>3. /\ Append(Tail(posted), "not connected") \in Seq(Closures)
      /\ Len(Append(Tail(posted), "not connected")) = Len(Tail(posted)) + 1
  BY <1>1, <1>2, Posting
<1>4. Len(posted) <= MaxPosted /\ MaxPosted \in Nat
  BY BoundsAssumption DEF QueueOK
<1>5. CASE posted' = Tail(posted)
  BY <1>1, <1>4, <1>5 DEF QueueOK
<1>6. CASE Reset
  <2> DEFINE t == Tail(posted)
  <2>1. posted' \in Seq(Closures) /\ Len(posted') = Len(t) + 1
    BY <1>3, <1>6, Zenon DEF Reset
  <2>2. Len(posted) \in Nat /\ Len(t) = Len(posted) - 1
    BY <1>1
  <2> HIDE DEF t
  <2> QED
    BY <1>4, <2>1, <2>2 DEF QueueOK
<1> QED
  BY <1>5, <1>6

(* The rest of the type invariant, in the parts that a step may disturb.   *)
StopOK ==
  /\ started \in 0 .. MaxConns
  /\ running \in 0 .. started
  /\ stopped = (1 .. started) \ {running}

GoroutinesOK ==
  /\ pinger \in [Pingers -> {"wait", "ping", "skip", "gone"}]
  /\ lookup \in [Lookups -> Addresses \union {"off", "look", "gone"}]
  /\ adapter \in Addresses \union {NoAddress}

WindowOK ==
  /\ calling \in BOOLEAN
  /\ listed \in BOOLEAN
  /\ tile \in Readings
  /\ label \in Seq(Addresses)

LEMMA TypeParts ==
  TypeOK <=> Seen!SessionTypeOK /\ QueueOK /\ StopOK /\ GoroutinesOK /\ WindowOK
BY DEF TypeOK, QueueOK, StopOK, GoroutinesOK, WindowOK, Closures

(* A connect is only started when there is room for one more pinger.       *)
Room == state = "Connecting" => started < MaxConns

LEMMA TypeInit == Init => TypeOK /\ Room
<1> SUFFICES ASSUME Init PROVE TypeOK /\ Room
  OBVIOUS
<1>1. Seen!SessionTypeOK /\ Room
  BY DEF Init, Seen!SessionInit, Seen!SessionTypeOK, Seen!States, Seen!Queries, Room
<1>2. QueueOK
  <2>1. posted = <<>> /\ <<>> \in Seq(Closures) /\ Len(<<>>) = 0 /\ MaxPosted \in Nat
    BY EmptySeq, BoundsAssumption DEF Init
  <2> QED
    BY <2>1 DEF QueueOK
<1>3. StopOK
  <2>1. started = 0 /\ running = 0 /\ stopped = {} /\ MaxConns \in Nat
    BY BoundsAssumption DEF Init
  <2> QED
    BY <2>1 DEF StopOK
<1>4. GoroutinesOK
  BY DEF Init, GoroutinesOK
<1>5. WindowOK
  BY EmptySeq DEF Init, WindowOK, Readings
<1> QED
  BY <1>1, <1>2, <1>3, <1>4, <1>5, TypeParts

LEMMA QueueStep == TypeOK /\ [Next]_vars => QueueOK'
<1> SUFFICES ASSUME TypeOK, [Next]_vars PROVE QueueOK'
  OBVIOUS
<1>0. QueueOK
  BY TypeParts
<1>1. CASE UNCHANGED posted
  BY <1>0, <1>1 DEF QueueOK
<1>2. CASE Closure
  BY <1>0, <1>2, TakeTypes DEF Closure, ConnectDone, ConnectFails, DisconnectDone,
     DisconnectFails, ShowPing, ShowAddress, Oldest
<1>3. CASE Reported
  <2>1. PICK r \in Reports : Post(r)
    BY <1>3 DEF Reported, Reports
  <2> QED
    BY <1>0, <2>1, PostTypes, KindsDiffer
<1>4. ASSUME NEW i \in Pingers, Pinged(i) PROVE QueueOK'
  BY <1>0, <1>4, PostTypes, KindsDiffer DEF Pinged
<1>5. ASSUME NEW l \in Lookups, Found(l) PROVE QueueOK'
  BY <1>0, <1>5, PostTypes, KindsDiffer DEF Found
<1> QED
  BY <1>1, <1>2, <1>3, <1>4, <1>5 DEF Next, ProfilesListed, StatusReport, Remark,
     OnConnect, OnDisconnect, ShowConns, Tick, Exit, Look, Assign, TakeDown, vars

LEMMA StopStep == TypeOK /\ Room /\ [Next]_vars => StopOK'
<1> SUFFICES ASSUME TypeOK, Room, [Next]_vars PROVE StopOK'
  OBVIOUS
<1>0. StopOK
  BY TypeParts
<1>1. CASE UNCHANGED stop
  BY <1>0, <1>1 DEF StopOK, stop
<1>2. CASE ConnectDone
  <2>1. started < MaxConns
    BY <1>2 DEF ConnectDone, Seen!GoesUp, Room
  <2>2. started' \in 0 .. MaxConns /\ running' \in 0 .. started'
    BY <1>0, <1>2, <2>1, BoundsAssumption DEF ConnectDone, StartPing, StopOK
  <2>3. stopped' = (1 .. started') \ {running'}
    BY <1>0, <1>2 DEF ConnectDone, StartPing, StopOK
  <2> QED
    BY <2>2, <2>3 DEF StopOK
<1>3. CASE DisconnectDone
  BY <1>0, <1>3 DEF DisconnectDone, StopPing, StopOK
<1> QED
  BY <1>1, <1>2, <1>3 DEF Next, Closure, ProfilesListed, StatusReport, Remark,
     OnConnect, OnDisconnect, Reported, ConnectFails, DisconnectFails, ShowPing,
     ShowAddress, ShowConns, Tick, Pinged, Exit, Look, Found, Assign, TakeDown, vars

LEMMA GoroutinesStep == TypeOK /\ Room /\ [Next]_vars => GoroutinesOK'
<1> SUFFICES ASSUME TypeOK, Room, [Next]_vars PROVE GoroutinesOK'
  OBVIOUS
<1>0. GoroutinesOK
  BY TypeParts
<1> USE DEF GoroutinesOK
<1>1. CASE UNCHANGED <<pinger, lookup, adapter>>
  BY <1>0, <1>1
<1>2. CASE StatusReport
  BY <1>0, <1>2 DEF StatusReport
<1>3. CASE ConnectDone
  BY <1>0, <1>3 DEF ConnectDone
<1>4. ASSUME NEW i \in Pingers, Tick(i) \/ Pinged(i) \/ Exit(i) PROVE GoroutinesOK'
  BY <1>0, <1>4 DEF Tick, Pinged, Exit
<1>5. ASSUME NEW l \in Lookups, Look(l) \/ Found(l) PROVE GoroutinesOK'
  <2>1. PICK to \in Addresses \union {"gone"} : lookup' = [lookup EXCEPT ![l] = to]
    BY <1>0, <1>5 DEF Look, Found
  <2> QED
    BY <1>0, <1>5, <2>1 DEF Look, Found
<1>6. CASE Assign \/ TakeDown
  BY <1>0, <1>6 DEF Assign, TakeDown
<1> QED
  BY <1>1, <1>2, <1>3, <1>4, <1>5, <1>6 DEF Next, Closure, ProfilesListed, Remark,
     OnConnect, OnDisconnect, Reported, ConnectFails, DisconnectDone, DisconnectFails,
     ShowPing, ShowAddress, ShowConns, vars

LEMMA WindowStep == TypeOK /\ [Next]_vars => WindowOK'
<1> SUFFICES ASSUME TypeOK, [Next]_vars PROVE WindowOK'
  OBVIOUS
<1>0. WindowOK
  BY TypeParts
<1> USE DEF WindowOK
<1>1. CASE UNCHANGED <<calling, listed, tile, label>>
  BY <1>0, <1>1
<1>2. CASE UNCHANGED <<listed, tile>> /\ calling' \in BOOLEAN /\ label' \in {label, <<>>}
  BY <1>0, <1>2, EmptySeq
<1>3. CASE ProfilesListed
  BY <1>0, <1>3 DEF ProfilesListed
<1>4. CASE StatusReport \/ Remark \/ ConnectDone \/ ConnectFails \/ DisconnectDone
             \/ DisconnectFails \/ ShowConns
  BY <1>0, <1>2, <1>4 DEF StatusReport, Remark, ConnectDone, ConnectFails,
     DisconnectDone, DisconnectFails, ShowConns, session, Relabel
<1>5. CASE OnConnect \/ OnDisconnect
  BY <1>2, <1>5 DEF OnConnect, OnDisconnect, Relabel
<1>6. CASE Reported
  BY <1>2, <1>6 DEF Reported
<1>7. CASE ShowPing
  BY <1>0, <1>7 DEF ShowPing, Oldest, session
<1>8. CASE ShowAddress
  <2>1. Head(posted) \in Addresses => Append(label, Head(posted)) \in Seq(Addresses)
    BY <1>0, AppendProperties
  <2> QED
    BY <1>0, <1>8, <2>1 DEF ShowAddress, Oldest, session
<1> QED
  BY <1>1, <1>3, <1>4, <1>5, <1>6, <1>7, <1>8 DEF Next, Closure, Tick, Pinged, Exit,
     Look, Found, Assign, TakeDown, session, vars

LEMMA RoomStep == TypeOK /\ Room /\ [Next]_vars => Room'
<1> SUFFICES ASSUME TypeOK, Room, [Next]_vars PROVE Room'
  OBVIOUS
<1>1. CASE OnConnect
  BY <1>1 DEF Room, OnConnect, stop
<1>2. CASE state' # "Connecting"
  BY <1>2 DEF Room
<1>3. CASE UNCHANGED <<state, started>>
  BY <1>3 DEF Room
<1>4. CASE StatusReport \/ Remark \/ OnDisconnect \/ ConnectDone \/ ConnectFails
             \/ DisconnectDone \/ DisconnectFails
  BY <1>2, <1>4 DEF TypeOK, StatusReport, Remark, OnDisconnect, ConnectDone,
     ConnectFails, DisconnectDone, DisconnectFails, Seen!SessionTypeOK, Seen!Reports,
     Seen!Remarks, Seen!GoesUp, Seen!Fails, Seen!IsCancelled, Seen!Disconnects,
     Seen!Closes, Seen!StaysUp
<1> QED
  BY <1>1, <1>3, <1>4 DEF Next, Closure, ProfilesListed, Reported, ShowPing, ShowAddress,
     ShowConns, Tick, Pinged, Exit, Look, Found, Assign, TakeDown, session, stop, vars

LEMMA TypeStep == TypeOK /\ Room /\ [Next]_vars => TypeOK' /\ Room'
<1>1. TypeOK /\ Room /\ [Next]_vars =>
        Seen!SessionTypeOK' /\ QueueOK' /\ StopOK' /\ GoroutinesOK' /\ WindowOK'
  BY SessionStep, SessionTypes, QueueStep, StopStep, GoroutinesStep, WindowStep
  DEF TypeOK
<1> QED
  BY <1>1, TypeParts, RoomStep, PTL

(* Every variable keeps the values the code gives it, and of all pingers   *)
(* started only the current one's stop channel is open.                    *)
THEOREM MonitorTypes == Spec => []TypeOK
BY TypeInit, TypeStep, PTL DEF Spec

-----------------------------------------------------------------------------
(* Reports *)

Transitions == {"Connecting", "Disconnecting"}

Outcomes(st) ==
  CASE st = "Connecting" -> {"up", "failed", "canceled"}
    [] st = "Disconnecting" -> {"closed", "stays"}
    [] OTHER -> {}

(* A queue that goes with what the window shows: a transition is owed one  *)
(* report, by a goroutine or by the queue, and the report is one of its    *)
(* own; no other state is owed any.                                        *)
Fits(q, st, busy) ==
  /\ \A i \in Waiting(q) : ~busy /\ q[i] \in Outcomes(st)
  /\ \A i, j \in Waiting(q) : i = j
  /\ st \in Transitions <=> busy \/ Waiting(q) # {}

ReportsFit == Fits(posted, state, calling)

LEMMA FitsPosting ==
  ASSUME NEW q \in Seq(Closures), NEW c \in Closures \ Reports, NEW st, NEW b,
         Fits(q, st, b)
  PROVE  Fits(Append(q, c), st, b)
<1> DEFINE a == Append(q, c)
<1>1. Waiting(a) = Waiting(q) /\ \A i \in Waiting(q) : a[i] = q[i]
  BY Posting
<1> HIDE DEF a
<1>2. Fits(a, st, b)
  BY <1>1 DEF Fits
<1> QED
  BY <1>2 DEF a

LEMMA FitsReporting ==
  ASSUME NEW q \in Seq(Closures), NEW st, NEW r \in Outcomes(st) \cap Reports,
         Fits(q, st, TRUE)
  PROVE  Fits(Append(q, r), st, FALSE)
<1>1. Waiting(q) = {} /\ st \in Transitions
  BY DEF Fits
<1>2. r \in Closures /\ r \in Reports
  BY KindsDiffer
<1>3. /\ Waiting(Append(q, r)) = {Len(q) + 1}
      /\ Append(q, r)[Len(q) + 1] = r
  BY <1>1, <1>2, Posting
<1> QED
  BY <1>1, <1>3 DEF Fits

LEMMA FitsTaking ==
  ASSUME NEW q \in Seq(Closures), q # <<>>, Head(q) \notin Reports, NEW st, NEW b,
         Fits(q, st, b)
  PROVE  Fits(Tail(q), st, b)
<1> DEFINE t == Tail(q)
<1>1. /\ \A i : i \in Waiting(t) <=> i \in Nat \ {0} /\ i + 1 \in Waiting(q)
      /\ \A i \in Waiting(t) : t[i] = q[i + 1]
      /\ 1 \notin Waiting(q) /\ Waiting(q) \subseteq Nat \ {0}
  BY Taking DEF Waiting
<1> HIDE DEF t
<1>2. Waiting(q) # {} => Waiting(t) # {}
  <2> SUFFICES ASSUME NEW i \in Waiting(q) PROVE Waiting(t) # {}
    OBVIOUS
  <2>1. i \in Nat /\ i # 0 /\ i # 1
    BY <1>1
  <2>2. i - 1 \in Nat \ {0} /\ (i - 1) + 1 = i
    BY <2>1
  <2> QED
    BY <1>1, <2>2
<1>3. \A i, j \in Waiting(t) : i = j
  <2> SUFFICES ASSUME NEW i \in Waiting(t), NEW j \in Waiting(t) PROVE i = j
    OBVIOUS
  <2>1. i \in Nat /\ j \in Nat /\ i + 1 \in Waiting(q) /\ j + 1 \in Waiting(q)
    BY <1>1
  <2>2. i + 1 = j + 1
    BY <2>1 DEF Fits
  <2> QED
    BY <2>1, <2>2
<1>4. \A i \in Waiting(t) : ~b /\ t[i] \in Outcomes(st)
  BY <1>1 DEF Fits
<1>5. Waiting(t) # {} => Waiting(q) # {}
  BY <1>1
<1>6. Fits(t, st, b)
  BY <1>2, <1>3, <1>4, <1>5 DEF Fits
<1> QED
  BY <1>6 DEF t

(* The report that is run was the only one.                                *)
LEMMA FitsRunning ==
  ASSUME NEW q \in Seq(Closures), q # <<>>, Head(q) \in Reports, NEW st, NEW b,
         Fits(q, st, b), NEW st2, st2 \notin Transitions
  PROVE  ~b /\ Fits(Tail(q), st2, b)
<1> DEFINE t == Tail(q)
<1>1. /\ \A i : i \in Waiting(t) <=> i \in Nat \ {0} /\ i + 1 \in Waiting(q)
      /\ 1 \in Waiting(q)
  <2>1. Len(q) \in Nat /\ Len(q) # 0
    BY EmptySeq
  <2> QED
    BY <2>1, Taking DEF Waiting
<1> HIDE DEF t
<1>2. ~b /\ \A i \in Waiting(q) : i = 1
  BY <1>1 DEF Fits
<1>3. Waiting(t) = {}
  <2> SUFFICES ASSUME NEW i \in Waiting(t) PROVE FALSE
    OBVIOUS
  <2>1. i \in Nat \ {0} /\ i + 1 = 1
    BY <1>1, <1>2
  <2> QED
    BY <2>1
<1>4. Fits(t, st2, b)
  BY <1>2, <1>3 DEF Fits
<1> QED
  BY <1>2, <1>4 DEF t

LEMMA FitsStep == TypeOK /\ ReportsFit /\ [Next]_vars => ReportsFit'
<1> SUFFICES ASSUME TypeOK, ReportsFit, [Next]_vars PROVE Fits(posted', state', calling')
  BY DEF ReportsFit
<1>0. /\ Fits(posted, state, calling)
      /\ posted \in Seq(Closures)
      /\ calling \in BOOLEAN
      /\ Seen!SessionTypeOK
  BY TypeParts DEF ReportsFit, QueueOK, WindowOK
<1>1. CASE UNCHANGED <<posted, state, calling>>
  BY <1>0, <1>1
<1>2. CASE UNCHANGED <<posted, calling>> /\ {state, state'} \cap Transitions = {}
  BY <1>0, <1>2 DEF Fits, Outcomes, Transitions
<1>3. CASE StatusReport \/ Remark
  BY <1>0, <1>2, <1>3 DEF StatusReport, Remark, Seen!Reports, Seen!Remarks, Seen!Idle,
     Seen!SessionTypeOK, Transitions
<1>4. CASE OnConnect \/ OnDisconnect
  <2>1. /\ state \notin Transitions /\ state' \in Transitions
        /\ posted' = posted /\ calling' = TRUE
    BY <1>4 DEF OnConnect, OnDisconnect, Seen!Connects, Seen!Disconnects, Seen!Idle,
       Transitions
  <2>2. Waiting(posted) = {}
    BY <1>0, <2>1 DEF Fits
  <2> QED
    BY <2>1, <2>2 DEF Fits
<1>5. CASE Reported
  <2>1. calling = TRUE /\ calling' = FALSE /\ state' = state
    BY <1>0, <1>5 DEF Reported
  <2>2. PICK r \in IF state = "Connecting" THEN {"up", "failed", "canceled"}
                                          ELSE {"closed", "stays"} :
          posted' = Append(posted, r)
    BY <1>5 DEF Reported, Post
  <2>3. r \in Outcomes(state) \cap Reports
    BY <1>0, <2>1, <2>2 DEF Fits, Transitions, Outcomes, Reports
  <2> QED
    BY <1>0, <2>1, <2>2, <2>3, FitsReporting
<1>6. CASE ConnectDone \/ ConnectFails \/ DisconnectDone \/ DisconnectFails
  <2>1. /\ posted # <<>> /\ Head(posted) \in Reports
        /\ state' \notin Transitions /\ calling' = calling
        /\ posted' = Tail(posted) \/ posted' = Append(Tail(posted), "not connected")
    BY <1>6 DEF ConnectDone, ConnectFails, DisconnectDone, DisconnectFails, Oldest,
       Reset, Reports, Transitions, Seen!GoesUp, Seen!Fails, Seen!IsCancelled,
       Seen!Closes, Seen!StaysUp
  <2>2. Tail(posted) \in Seq(Closures) /\ Fits(Tail(posted), state', calling)
    BY <1>0, <2>1, FitsRunning, Taking
  <2>3. Fits(Append(Tail(posted), "not connected"), state', calling)
    BY <2>2, FitsPosting, KindsDiffer
  <2> QED
    BY <2>1, <2>2, <2>3
<1>7. CASE ShowPing \/ ShowAddress
  <2>1. /\ posted # <<>> /\ Head(posted) \notin Reports
        /\ posted' = Tail(posted) /\ UNCHANGED <<state, calling>>
    BY <1>7, KindsDiffer DEF ShowPing, ShowAddress, Oldest, session
  <2> QED
    BY <1>0, <2>1, FitsTaking
<1>8. ASSUME NEW i \in Pingers, Pinged(i) PROVE Fits(posted', state', calling')
  <2>1. PICK c \in Closures \ Reports : posted' = Append(posted, c)
    BY <1>8, KindsDiffer DEF Pinged, Post
  <2> QED
    BY <1>0, <1>8, <2>1, FitsPosting DEF Pinged, session
<1>9. ASSUME NEW l \in Lookups, Found(l) PROVE Fits(posted', state', calling')
  <2>1. PICK c \in Closures \ Reports : posted' = Append(posted, c)
    BY <1>9, KindsDiffer DEF Found, Post
  <2> QED
    BY <1>0, <1>9, <2>1, FitsPosting DEF Found, session
<1> QED
  BY <1>1, <1>3, <1>4, <1>5, <1>6, <1>7, <1>8, <1>9 DEF Next, Closure, ProfilesListed,
     ShowConns, Tick, Exit, Look, Assign, TakeDown, session, vars

(* Behind a transition that is shown stands one report of its outcome, on  *)
(* its way or in the queue, however many pings, addresses and late reports *)
(* stand around it: no closure runs in a state it is not for, and no       *)
(* transition is shown to which none will come.                            *)
THEOREM ReportsMeetTheirState == Spec => []ReportsFit
<1>1. Init => ReportsFit
  <2> SUFFICES ASSUME Init PROVE ReportsFit
    OBVIOUS
  <2>1. posted = <<>> /\ calling = FALSE /\ state = "Disconnected"
    BY DEF Init, Seen!SessionInit
  <2>2. Waiting(posted) = {}
    BY <2>1 DEF Waiting
  <2> QED
    BY <2>1, <2>2 DEF ReportsFit, Fits, Transitions
<1> QED
  BY <1>1, MonitorTypes, FitsStep, PTL DEF Spec

-----------------------------------------------------------------------------
(* The label *)

LEMMA AddressStep == TypeOK /\ AddressShownOnce /\ [Next]_vars => AddressShownOnce'
<1> SUFFICES ASSUME TypeOK, AddressShownOnce, [Next]_vars PROVE AddressShownOnce'
  OBVIOUS
<1>0. label \in Seq(Addresses) /\ Seen!SessionTypeOK
  BY TypeParts DEF WindowOK
<1>1. CASE UNCHANGED <<label, state>>
  BY <1>1 DEF AddressShownOnce
<1>2. CASE Relabel
  BY <1>2 DEF Relabel, AddressShownOnce, IsInjective
<1>3. CASE StatusReport
  BY <1>1, <1>2, <1>3 DEF StatusReport, Seen!Reports
<1>4. CASE ShowAddress
  <2>1. CASE state = "Connected" /\ ~Contains(label, Head(posted))
    <3> DEFINE a == Head(posted)
    <3>1. label' = Append(label, a) /\ a \in Addresses /\ state' = state
      BY <1>4, <2>1 DEF ShowAddress, Oldest, session
    <3>2. \A i \in 1 .. Len(label) : label[i] # a
      BY <2>1 DEF Contains
    <3> HIDE DEF a
    <3>3. /\ Len(label) \in Nat
          /\ DOMAIN label = 1 .. Len(label)
          /\ DOMAIN label' = 1 .. Len(label) + 1
          /\ \A i \in 1 .. Len(label) : label'[i] = label[i]
          /\ label'[Len(label) + 1] = a
      <4>1. /\ Append(label, a) \in Seq(Addresses)
            /\ Len(Append(label, a)) = Len(label) + 1
            /\ \A i \in 1 .. Len(label) : Append(label, a)[i] = label[i]
            /\ Append(label, a)[Len(label) + 1] = a
        BY <1>0, <3>1, AppendProperties
      <4> QED
        BY <1>0, <3>1, <4>1, LenProperties
    <3>4. \A i, j \in 1 .. Len(label) : label[i] = label[j] => i = j
      BY <3>3 DEF AddressShownOnce, IsInjective
    <3>5. IsInjective(label')
      <4> SUFFICES ASSUME NEW i \in 1 .. Len(label) + 1, NEW j \in 1 .. Len(label) + 1,
                          label'[i] = label'[j]
                   PROVE  i = j
        BY <3>3 DEF IsInjective
      <4> QED
        BY <3>2, <3>3, <3>4
    <3> QED
      BY <2>1, <3>1, <3>5 DEF AddressShownOnce
  <2> QED
    BY <1>1, <1>4, <2>1 DEF ShowAddress, session
<1>5. CASE Remark \/ OnConnect \/ OnDisconnect \/ ConnectDone \/ ConnectFails
             \/ DisconnectDone \/ DisconnectFails \/ ShowConns
  BY <1>2, <1>5 DEF Remark, OnConnect, OnDisconnect, ConnectDone, ConnectFails,
     DisconnectDone, DisconnectFails, ShowConns
<1> QED
  BY <1>1, <1>3, <1>4, <1>5 DEF Next, Closure, ProfilesListed, Reported, ShowPing,
     Tick, Pinged, Exit, Look, Found, Assign, TakeDown, session, vars

(* However many lookups are under way and however late they report, the    *)
(* label shows an address only beside "Connected", and none twice.         *)
THEOREM AddressBesideConnected == Spec => []AddressShownOnce
<1>1. Init => AddressShownOnce
  <2>1. DOMAIN <<>> = {}
    OBVIOUS
  <2> QED
    BY <2>1 DEF Init, AddressShownOnce, IsInjective
<1> QED
  BY <1>1, MonitorTypes, AddressStep, PTL DEF Spec

=============================================================================
