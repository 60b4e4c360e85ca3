--------------------------- MODULE SessionProofs ----------------------------
(***************************************************************************)
(* Session windows for any events, keys, timeout and scan instants, and    *)
(* the keyed side of the pipeline as a composition of its two parts.       *)
(***************************************************************************)
EXTENDS Keyed, FiniteSetTheorems, TLAPS

SessionResult == [key : Key, start : Int, end : Int, values : SUBSET Event]

SessionTypeOK ==
  /\ sessions \in [Key -> SessionState \cup {NoSession}]
  /\ published \subseteq SessionResult
  /\ touched \subseteq Event
  /\ swallowed \subseteq touched \ Ping
  /\ scanned \in Int
  /\ tardy \subseteq Key

Open(k) == sessions[k] # NoSession

(***************************************************************************)
(* Where a data event is: with its key only, in one place only, and        *)
(* somewhere.  A result ends before the latest instant scanned, which is   *)
(* what separates it from every session opened ahead of the scans.         *)
(***************************************************************************)
Placed ==
  /\ \A k \in Key : Open(k) => \A e \in sessions[k].values :
       /\ e \in touched \ (Ping \cup swallowed) /\ KeyOf[e] = k
       /\ \A r \in published : e \notin r.values
  /\ \A r \in published : \A e \in r.values :
       e \in touched \ (Ping \cup swallowed) /\ KeyOf[e] = r.key
  /\ \A r, q \in published : \A e \in r.values : e \in q.values => r = q
  /\ \A e \in touched \ (Ping \cup swallowed) :
       \/ Open(KeyOf[e]) /\ e \in sessions[KeyOf[e]].values
       \/ \E r \in published : e \in r.values

EndsScanned == \A r \in published : r.end < scanned

(***************************************************************************)
(* A key touched in time order and ahead of every scan.  Its open session  *)
(* was last active at a touch, spans its values and starts after every     *)
(* published one; a published one ends a timeout after its last value, so  *)
(* a value out of its reach never belonged to it.                          *)
(***************************************************************************)
OrderlyOpen(k) ==
  /\ \E f \in touched : KeyOf[f] = k /\ Ts[f] = sessions[k].lastActive
  /\ sessions[k].start <= sessions[k].lastActive
  /\ \A e \in sessions[k].values :
       sessions[k].start <= Ts[e] /\ Ts[e] <= sessions[k].lastActive
  /\ \A r \in published : r.key = k => r.end < sessions[k].start

Spans(r) == \A e \in r.values : r.start <= Ts[e] /\ Ts[e] + Timeout <= r.end

Apart(k) == \A r, q \in published :
  r.key = k /\ q.key = k => r = q \/ r.end < q.start \/ q.end < r.start

Near(e, f) == Ts[e] <= Ts[f] /\ Ts[f] - Ts[e] <= Timeout

Unsplit(k) == \A e, f \in touched \ Ping :
  KeyOf[e] = k /\ KeyOf[f] = k /\ Near(e, f) =>
    \A r \in published : r.key = k => (e \in r.values <=> f \in r.values)

OrderlyKey(k) ==
  /\ Open(k) => OrderlyOpen(k)
  /\ \A r \in published : r.key = k => Spans(r)
  /\ Apart(k)
  /\ Unsplit(k)
  /\ \A e \in swallowed : KeyOf[e] # k

SessionInv ==
  /\ SessionTypeOK
  /\ Placed
  /\ PublishedOnce
  /\ EndsScanned
  /\ \A k \in Key \ tardy : OrderlyKey(k)
-----------------------------------------------------------------------------
LEMMA SessionStartInv == SessionInit => SessionInv
BY DEF SessionInit, SessionInv, SessionTypeOK, Placed, PublishedOnce,
   EndsScanned, OrderlyKey, Open, Apart, Unsplit

(* The session of e's key after SessionManager.Touch. *)
LEMMA TouchFacts ==
  ASSUME SessionTypeOK, NEW e \in Event, Touch(e)
  PROVE  LET k == KeyOf[e] IN
         /\ k \in Key /\ Ts[e] \in Int
         /\ sessions' \in [Key -> SessionState \cup {NoSession}]
         /\ sessions'[k] \in SessionState /\ sessions'[k] # NoSession
         /\ sessions'[k].lastActive = Ts[e]
         /\ sessions'[k].values = (IF Open(k) THEN sessions[k].values ELSE {})
                                    \cup ({e} \ Ping)
         /\ sessions'[k].start =
              IF Open(k) THEN Sooner(sessions[k].start, Ts[e]) ELSE Ts[e]
         /\ Open(k) => sessions[k] \in SessionState
         /\ \A j \in Key : j # k => sessions'[j] = sessions[j]
<1> DEFINE k == KeyOf[e]
           s == sessions[k]
           fresh == [start |-> Ts[e], lastActive |-> Ts[e], values |-> {e} \ Ping]
           new == IF s = NoSession THEN fresh ELSE Refresh(s, e)
<1>1. k \in Key /\ Ts[e] \in Int
  BY SessionAssumption
<1>2. sessions' = [sessions EXCEPT ![k] = new]
  BY DEF Touch
<1>3. sessions \in [Key -> SessionState \cup {NoSession}]
  BY DEF SessionTypeOK
<1>4. s \in SessionState \cup {NoSession}
  BY <1>1, <1>3
<1>5. /\ new \in SessionState /\ new.lastActive = Ts[e]
      /\ new.values = (IF s # NoSession THEN s.values ELSE {}) \cup ({e} \ Ping)
      /\ new.start = IF s # NoSession THEN Sooner(s.start, Ts[e]) ELSE Ts[e]
  <2> HIDE DEF s
  <2>1. CASE s = NoSession
    BY <1>1, <2>1 DEF SessionState
  <2>2. CASE s # NoSession
    <3> DEFINE low == Sooner(s.start, Ts[e])
               all == s.values \cup ({e} \ Ping)
    <3>1. s \in SessionState
      BY <1>4, <2>2
    <3>2. low \in Int /\ all \in SUBSET Event
      BY <1>1, <3>1 DEF Sooner, SessionState
    <3>3. new = [s EXCEPT !.start = low, !.lastActive = Ts[e], !.values = all]
      BY <2>2 DEF Refresh
    <3> HIDE DEF low, all, new
    <3>4. new = [start |-> low, lastActive |-> Ts[e], values |-> all]
      BY <3>1, <3>3 DEF SessionState
    <3>5. new \in SessionState /\ new.lastActive = Ts[e]
          /\ new.values = all /\ new.start = low
      BY <1>1, <3>2, <3>4 DEF SessionState
    <3> QED BY <2>2, <3>5 DEF low, all, new
  <2> QED BY <2>1, <2>2
<1> HIDE DEF new, s
<1>6. sessions'[k] = new /\ \A j \in Key : j # k => sessions'[j] = sessions[j]
  BY <1>1, <1>2, <1>3
<1>7. sessions' \in [Key -> SessionState \cup {NoSession}]
  BY <1>2, <1>3, <1>5
<1>8. new # NoSession
  BY <1>5, SessionAssumption
<1>9. Open(k) <=> s # NoSession
  BY DEF Open, s
<1>10. sessions[k] = s
  BY DEF s
<1> QED BY <1>1, <1>4, <1>5, <1>6, <1>7, <1>8, <1>9, <1>10

LEMMA TouchKeeps ==
  ASSUME SessionInv, NEW e \in Event, Touch(e)
  PROVE  SessionInv'
<1> DEFINE k == KeyOf[e]
           s == sessions[k]
           t == sessions'[k]
<1>0. /\ SessionTypeOK /\ Placed /\ PublishedOnce /\ EndsScanned
      /\ \A j \in Key \ tardy : OrderlyKey(j)
  BY DEF SessionInv
<1>1. /\ k \in Key /\ Ts[e] \in Int
      /\ sessions' \in [Key -> SessionState \cup {NoSession}]
      /\ t \in SessionState /\ t # NoSession
      /\ t.lastActive = Ts[e]
      /\ t.values = (IF Open(k) THEN s.values ELSE {}) \cup ({e} \ Ping)
      /\ t.start = IF Open(k) THEN Sooner(s.start, Ts[e]) ELSE Ts[e]
      /\ Open(k) => s \in SessionState
      /\ \A j \in Key : j # k => sessions'[j] = sessions[j]
  BY <1>0, TouchFacts
<1>2. /\ e \notin touched /\ touched' = touched \cup {e}
      /\ published' = published /\ swallowed' = swallowed /\ scanned' = scanned
      /\ tardy' = IF \/ Ts[e] <= scanned
                     \/ \E f \in touched : KeyOf[f] = k /\ Ts[f] > Ts[e]
                  THEN tardy \cup {k} ELSE tardy
  BY DEF Touch
<1>3. /\ Open(k)'
      /\ \A j \in Key : j # k => (Open(j)' <=> Open(j))
  BY <1>1 DEF Open
<1> HIDE DEF s, t
<1>4. SessionTypeOK'
  BY <1>0, <1>1, <1>2 DEF SessionTypeOK
<1>5. Placed'
  <2>1. ASSUME NEW j \in Key, Open(j)', NEW f \in sessions'[j].values
        PROVE  /\ f \in touched' \ (Ping \cup swallowed') /\ KeyOf[f] = j
               /\ \A r \in published' : f \notin r.values
    <3>1. CASE j = k /\ f = e
      <4>1. e \notin Ping
        <5>1. e \in t.values
          BY <3>1, <2>1 DEF t
        <5>2. Open(k) => e \notin s.values
          BY <1>0, <1>1, <1>2 DEF Placed, s
        <5> QED BY <1>1, <5>1, <5>2
      <4>2. e \notin swallowed /\ \A r \in published : e \notin r.values
        BY <1>0, <1>2 DEF SessionTypeOK, Placed
      <4> QED BY <1>2, <3>1, <4>1, <4>2
    <3>2. CASE ~(j = k /\ f = e)
      <4>1. Open(j) /\ f \in sessions[j].values
        BY <1>1, <1>3, <2>1, <3>2 DEF t, s
      <4> QED BY <1>0, <1>2, <4>1 DEF Placed
    <3> QED BY <3>1, <3>2
  <2>2. ASSUME NEW r \in published', NEW f \in r.values
        PROVE  f \in touched' \ (Ping \cup swallowed') /\ KeyOf[f] = r.key
    BY <1>0, <1>2 DEF Placed
  <2>3. ASSUME NEW r \in published', NEW q \in published',
               NEW f \in r.values, f \in q.values
        PROVE  r = q
    BY <1>0, <1>2, <2>3 DEF Placed
  <2>4. ASSUME NEW f \in touched' \ (Ping \cup swallowed')
        PROVE  \/ Open(KeyOf[f])' /\ f \in sessions'[KeyOf[f]].values
               \/ \E r \in published' : f \in r.values
    <3>1. CASE f = e
      BY <1>1, <1>3, <2>4, <3>1 DEF t
    <3>2. CASE f # e
      <4>1. f \in touched \ (Ping \cup swallowed)
        BY <1>2, <3>2
      <4>2. KeyOf[f] \in Key
        BY <1>0, <4>1, SessionAssumption DEF SessionTypeOK
      <4>3. CASE \E r \in published : f \in r.values
        BY <1>2, <4>3
      <4>4. CASE Open(KeyOf[f]) /\ f \in sessions[KeyOf[f]].values
        <5>1. CASE KeyOf[f] = k
          BY <1>1, <1>3, <4>4, <5>1 DEF s, t
        <5>2. CASE KeyOf[f] # k
          BY <1>1, <1>3, <4>2, <4>4, <5>2
        <5> QED BY <5>1, <5>2
      <4> QED BY <1>0, <4>1, <4>3, <4>4 DEF Placed
    <3> QED BY <3>1, <3>2
  <2> QED BY <2>1, <2>2, <2>3, <2>4 DEF Placed
<1>6. PublishedOnce' /\ EndsScanned'
  BY <1>0, <1>2 DEF PublishedOnce, EndsScanned
<1>7. ASSUME NEW j \in Key \ tardy' PROVE OrderlyKey(j)'
  <2>0. j \in Key \ tardy /\ OrderlyKey(j)
    BY <1>0, <1>2
  <2>1. CASE j # k
    <3>1. (Open(j) => OrderlyOpen(j))'
      BY <1>1, <1>2, <1>3, <2>0, <2>1 DEF OrderlyKey, OrderlyOpen
    <3>2. Unsplit(j)'
      <4>1. \A f \in touched' \ Ping : KeyOf[f] = j => f \in touched \ Ping
        BY <1>2, <2>1
      <4> QED BY <1>2, <2>0, <4>1 DEF OrderlyKey, Unsplit
    <3> QED BY <1>2, <2>0, <3>1, <3>2 DEF OrderlyKey, Apart
  <2>2. CASE j = k
    <3>1. /\ Ts[e] > scanned
          /\ \A f \in touched : KeyOf[f] = k => Ts[f] <= Ts[e]
      <4>1. scanned \in Int /\ \A f \in touched : Ts[f] \in Int
        BY <1>0, SessionAssumption DEF SessionTypeOK
      <4>2. /\ ~(Ts[e] <= scanned)
            /\ ~\E f \in touched : KeyOf[f] = k /\ Ts[f] > Ts[e]
        BY <1>2, <2>2
      <4> QED BY <1>1, <4>1, <4>2
    <3>2. \A r \in published : r.key = k => r.end < Ts[e] /\ Spans(r)
      <4>1. \A r \in published : r.end \in Int /\ r.end < scanned
        BY <1>0 DEF SessionTypeOK, SessionResult, EndsScanned
      <4>2. scanned \in Int
        BY <1>0 DEF SessionTypeOK
      <4>3. \A r \in published : r.end < Ts[e]
        BY <1>1, <3>1, <4>1, <4>2
      <4> QED BY <2>0, <2>2, <4>3 DEF OrderlyKey
    <3>3. OrderlyOpen(k)'
      <4>1. CASE Open(k)
        <5>1. OrderlyOpen(k) /\ s \in SessionState
          BY <1>1, <2>0, <2>2, <4>1 DEF OrderlyKey
        <5>2. s.start \in Int /\ s.lastActive \in Int
          BY <5>1 DEF SessionState
        <5>3. s.start <= s.lastActive /\ s.lastActive <= Ts[e]
          BY <3>1, <5>1 DEF OrderlyOpen, s
        <5>4. t.start = s.start /\ s.start <= Ts[e]
          BY <1>1, <4>1, <5>2, <5>3 DEF Sooner
        <5>5. \A f \in t.values : t.start <= Ts[f] /\ Ts[f] <= t.lastActive
          <6> TAKE f \in t.values
          <6>1. CASE f = e
            BY <1>1, <5>4, <6>1
          <6>2. CASE f # e
            <7>1. f \in s.values
              BY <1>1, <4>1, <6>2
            <7>2. s.start <= Ts[f] /\ Ts[f] <= s.lastActive
              BY <5>1, <7>1 DEF OrderlyOpen, s
            <7>3. Ts[f] \in Int
              BY <5>1, <7>1, SessionAssumption DEF SessionState
            <7> QED BY <1>1, <5>2, <5>3, <5>4, <7>2, <7>3
          <6> QED BY <6>1, <6>2
        <5>6. \A r \in published : r.key = k => r.end < t.start
          BY <5>1, <5>4 DEF OrderlyOpen, s
        <5>7. t.start <= t.lastActive
          BY <1>1, <5>4
        <5> QED BY <1>1, <1>2, <5>5, <5>6, <5>7 DEF OrderlyOpen, t
      <4>2. CASE ~Open(k)
        <5>1. t.start = Ts[e] /\ t.lastActive = Ts[e] /\ t.values \subseteq {e}
          BY <1>1, <4>2
        <5>2. \A f \in t.values : t.start <= Ts[f] /\ Ts[f] <= t.lastActive
          BY <1>1, <5>1
        <5>3. t.start <= t.lastActive
          BY <1>1, <5>1
        <5>4. \A r \in published : r.key = k => r.end < t.start
          BY <3>2, <5>1
        <5> QED BY <1>1, <1>2, <5>2, <5>3, <5>4 DEF OrderlyOpen, t
      <4> QED BY <4>1, <4>2
    <3>4. Unsplit(k)'
      <4> SUFFICES ASSUME NEW f \in touched' \ Ping, NEW g \in touched' \ Ping,
                          KeyOf[f] = k, KeyOf[g] = k, Near(f, g),
                          NEW r \in published, r.key = k
                   PROVE  f \in r.values <=> g \in r.values
        BY <1>2 DEF Unsplit, Near
      <4>1. e \notin r.values
        BY <1>0, <1>2 DEF Placed
      <4>2. r.end < Ts[e] /\ r.end \in Int /\ Timeout \in Int /\ Timeout >= 0
        BY <1>0, <3>2, SessionAssumption DEF SessionTypeOK, SessionResult
      <4>3. Ts[f] \in Int /\ Ts[g] \in Int
        BY <1>0, <1>2, SessionAssumption DEF SessionTypeOK
      <4>4. CASE f # e /\ g # e
        BY <1>2, <2>0, <2>2, <4>4 DEF OrderlyKey, Unsplit
      <4>5. CASE f = e
        <5>1. ASSUME g \in r.values PROVE FALSE
          <6>1. Ts[g] + Timeout <= r.end
            BY <3>2, <5>1 DEF Spans
          <6>2. Ts[e] <= Ts[g]
            BY <4>5 DEF Near
          <6> QED BY <1>1, <4>2, <4>3, <6>1, <6>2
        <5> QED BY <4>1, <4>5, <5>1
      <4>6. CASE g = e
        <5>1. ASSUME f \in r.values PROVE FALSE
          <6>1. Ts[f] + Timeout <= r.end
            BY <3>2, <5>1 DEF Spans
          <6>2. Ts[e] - Ts[f] <= Timeout
            BY <4>6 DEF Near
          <6> QED BY <1>1, <4>2, <4>3, <6>1, <6>2
        <5> QED BY <4>1, <4>6, <5>1
      <4> QED BY <4>4, <4>5, <4>6
    <3>5. /\ \A r \in published : r.key = k => Spans(r)
          /\ Apart(k) /\ \A f \in swallowed : KeyOf[f] # k
      BY <2>0, <2>2 DEF OrderlyKey
    <3>6. Apart(k)'
      BY <1>2, <3>5 DEF Apart
    <3>7. \A r \in published' : r.key = k => Spans(r)
      BY <1>2, <3>5
    <3>8. \A f \in swallowed' : KeyOf[f] # k
      BY <1>2, <3>5
    <3>9. OrderlyKey(k)'
      BY <3>3, <3>4, <3>6, <3>7, <3>8 DEF OrderlyKey, Spans
    <3> QED BY <2>2, <3>9
  <2> QED BY <2>1, <2>2
<1> QED BY <1>4, <1>5, <1>6, <1>7 DEF SessionInv
-----------------------------------------------------------------------------
(* What SessionManager.ScanTimeout closes, and what becomes of it. *)
LEMMA ScanFacts ==
  ASSUME SessionTypeOK, NEW now \in Instant, ScanTimeout(now)
  PROVE  /\ now \in Int /\ Expired(now) \subseteq Key
         /\ \A j \in Expired(now) :
              /\ Open(j) /\ sessions[j] \in SessionState
              /\ ResultOf(j) \in SessionResult
              /\ ResultOf(j).key = j
              /\ ResultOf(j).start = sessions[j].start
              /\ ResultOf(j).end = sessions[j].lastActive + Timeout
              /\ ResultOf(j).values = sessions[j].values
              /\ ResultOf(j).end < now
         /\ \A j \in Key : Open(j)' <=> Open(j) /\ j \notin Expired(now)
         /\ \A j \in Key \ Expired(now) : sessions'[j] = sessions[j]
         /\ \A r : r \in published' <=>
              r \in published \/ \E j \in Expired(now) : ~Emitted(j) /\ r = ResultOf(j)
         /\ \A e : e \in swallowed' <=>
              \/ e \in swallowed
              \/ \E j \in Expired(now) : Emitted(j) /\ e \in sessions[j].values
         /\ sessions' \in [Key -> SessionState \cup {NoSession}]
         /\ scanned' \in Int /\ scanned' >= scanned /\ scanned' >= now
         /\ touched' = touched /\ tardy' = tardy
<1> DEFINE due == Expired(now)
<1>1. now \in Int /\ Timeout \in Int /\ scanned \in Int
  BY SessionAssumption DEF SessionTypeOK
<1>2. due \subseteq Key
  BY DEF Expired
<1>3. ASSUME NEW j \in due
      PROVE  /\ Open(j) /\ sessions[j] \in SessionState
             /\ ResultOf(j) \in SessionResult
             /\ ResultOf(j).key = j
             /\ ResultOf(j).start = sessions[j].start
             /\ ResultOf(j).end = sessions[j].lastActive + Timeout
             /\ ResultOf(j).values = sessions[j].values
             /\ ResultOf(j).end < now
  <2> DEFINE s == sessions[j]
  <2>1. Open(j) /\ s \in SessionState /\ now - s.lastActive > Timeout
    BY <1>2 DEF Expired, Open, SessionTypeOK
  <2> HIDE DEF s
  <2>2. s.start \in Int /\ s.lastActive \in Int /\ s.values \in SUBSET Event
    BY <2>1 DEF SessionState
  <2>3. ResultOf(j) = [key |-> j, start |-> s.start,
                       end |-> s.lastActive + Timeout, values |-> s.values]
    BY DEF ResultOf, EndOf, s
  <2>4. s.lastActive + Timeout \in Int /\ s.lastActive + Timeout < now
    BY <1>1, <2>1, <2>2
  <2>5. ResultOf(j) \in SessionResult
    BY <1>2, <2>2, <2>3, <2>4 DEF SessionResult
  <2>6. /\ ResultOf(j).key = j
        /\ ResultOf(j).start = s.start
        /\ ResultOf(j).end = s.lastActive + Timeout
        /\ ResultOf(j).values = s.values
    BY <2>3
  <2> QED BY <2>1, <2>4, <2>5, <2>6 DEF s
<1>4. sessions' = [k \in Key |-> IF k \in due THEN NoSession ELSE sessions[k]]
  BY DEF ScanTimeout, Dropped
<1>5. /\ \A j \in Key : Open(j)' <=> Open(j) /\ j \notin due
      /\ \A j \in Key \ due : sessions'[j] = sessions[j]
  BY <1>2, <1>4 DEF Open
<1>6. sessions' \in [Key -> SessionState \cup {NoSession}]
  BY <1>4 DEF SessionTypeOK
<1>7. scanned' \in Int /\ scanned' >= scanned /\ scanned' >= now
  BY <1>1 DEF ScanTimeout, Later
<1>8. \A r : r \in published' <=>
        r \in published \/ \E j \in due : ~Emitted(j) /\ r = ResultOf(j)
  BY DEF ScanTimeout
<1>9. \A e : e \in swallowed' <=>
        \/ e \in swallowed
        \/ \E j \in due : Emitted(j) /\ e \in sessions[j].values
  BY DEF ScanTimeout
<1>10. touched' = touched /\ tardy' = tardy
  BY DEF ScanTimeout
<1> QED BY <1>1, <1>2, <1>3, <1>5, <1>6, <1>7, <1>8, <1>9, <1>10

LEMMA ScanKeeps ==
  ASSUME SessionInv, NEW now \in Instant, ScanTimeout(now)
  PROVE  SessionInv'
<1> DEFINE due == Expired(now)
<1>0. /\ SessionTypeOK /\ Placed /\ PublishedOnce /\ EndsScanned
      /\ \A j \in Key \ tardy : OrderlyKey(j)
  BY DEF SessionInv
<1>1. /\ now \in Int /\ due \subseteq Key
      /\ sessions' \in [Key -> SessionState \cup {NoSession}]
      /\ scanned' \in Int /\ scanned' >= scanned /\ scanned' >= now
      /\ touched' = touched /\ tardy' = tardy
  BY <1>0, ScanFacts
<1>2. \A j \in due :
        /\ Open(j) /\ sessions[j] \in SessionState
        /\ ResultOf(j) \in SessionResult
        /\ ResultOf(j).key = j
        /\ ResultOf(j).start = sessions[j].start
        /\ ResultOf(j).end = sessions[j].lastActive + Timeout
        /\ ResultOf(j).values = sessions[j].values
        /\ ResultOf(j).end < now
  BY <1>0, ScanFacts
<1>3. /\ \A j \in Key : Open(j)' <=> Open(j) /\ j \notin due
      /\ \A j \in Key \ due : sessions'[j] = sessions[j]
  BY <1>0, ScanFacts
<1>4. \A r : r \in published' <=>
        r \in published \/ \E j \in due : ~Emitted(j) /\ r = ResultOf(j)
  BY <1>0, ScanFacts
<1>5. \A e : e \in swallowed' <=>
        \/ e \in swallowed
        \/ \E j \in due : Emitted(j) /\ e \in sessions[j].values
  BY <1>0, ScanFacts
<1>6. \A j \in due : \A e \in sessions[j].values :
        /\ e \in touched \ (Ping \cup swallowed) /\ KeyOf[e] = j
        /\ \A r \in published : e \notin r.values
  BY <1>0, <1>1, <1>2 DEF Placed
<1> HIDE DEF due
<1>7. SessionTypeOK'
  <2>1. published' \subseteq SessionResult
    BY <1>0, <1>2, <1>4 DEF SessionTypeOK
  <2>2. swallowed' \subseteq touched \ Ping
    BY <1>0, <1>5, <1>6 DEF SessionTypeOK
  <2> QED BY <1>0, <1>1, <2>1, <2>2 DEF SessionTypeOK
<1>8. Placed'
  <2>1. ASSUME NEW k \in Key, Open(k)', NEW e \in sessions'[k].values
        PROVE  /\ e \in touched' \ (Ping \cup swallowed') /\ KeyOf[e] = k
               /\ \A r \in published' : e \notin r.values
    <3>1. Open(k) /\ k \notin due /\ e \in sessions[k].values
      BY <1>3, <2>1
    <3>2. /\ e \in touched \ (Ping \cup swallowed) /\ KeyOf[e] = k
          /\ \A r \in published : e \notin r.values
      BY <1>0, <3>1 DEF Placed
    <3>3. \A j \in due : e \notin sessions[j].values
      BY <1>6, <3>1, <3>2
    <3>4. e \notin swallowed'
      BY <1>5, <3>2, <3>3
    <3>5. \A r \in published' : e \notin r.values
      BY <1>2, <1>4, <3>2, <3>3
    <3> QED BY <1>1, <3>2, <3>4, <3>5
  <2>2. ASSUME NEW r \in published', NEW e \in r.values
        PROVE  e \in touched' \ (Ping \cup swallowed') /\ KeyOf[e] = r.key
    <3>1. CASE r \in published
      <4>1. e \in touched \ (Ping \cup swallowed) /\ KeyOf[e] = r.key
        BY <1>0, <3>1 DEF Placed
      <4>2. e \notin swallowed'
        BY <1>5, <1>6, <3>1, <4>1
      <4> QED BY <1>1, <4>1, <4>2
    <3>2. CASE r \notin published
      <4>1. PICK j \in due : ~Emitted(j) /\ r = ResultOf(j)
        BY <1>4, <3>2
      <4>2. e \in sessions[j].values /\ r.key = j
        BY <1>2, <4>1
      <4>3. e \in touched \ (Ping \cup swallowed) /\ KeyOf[e] = j
        BY <1>6, <4>2
      <4>4. e \notin swallowed'
        BY <1>5, <1>6, <4>1, <4>3
      <4> QED BY <1>1, <4>2, <4>3, <4>4
    <3> QED BY <3>1, <3>2
  <2>3. ASSUME NEW r \in published', NEW q \in published',
               NEW e \in r.values, e \in q.values
        PROVE  r = q
    <3>1. CASE r \in published /\ q \in published
      BY <1>0, <2>3, <3>1 DEF Placed
    <3>2. \A x \in published' : x \notin published /\ e \in x.values =>
            \E j \in due : x = ResultOf(j) /\ e \in sessions[j].values
      BY <1>2, <1>4
    <3> QED BY <1>6, <2>3, <3>1, <3>2
  <2>4. ASSUME NEW e \in touched' \ (Ping \cup swallowed')
        PROVE  \/ Open(KeyOf[e])' /\ e \in sessions'[KeyOf[e]].values
               \/ \E r \in published' : e \in r.values
    <3>1. e \in touched \ (Ping \cup swallowed)
      BY <1>1, <1>5
    <3>2. KeyOf[e] \in Key
      BY <1>0, <3>1, SessionAssumption DEF SessionTypeOK
    <3>3. CASE \E r \in published : e \in r.values
      BY <1>4, <3>3
    <3>4. CASE Open(KeyOf[e]) /\ e \in sessions[KeyOf[e]].values
      <4>1. CASE KeyOf[e] \notin due
        BY <1>3, <3>2, <3>4, <4>1
      <4>2. CASE KeyOf[e] \in due
        <5>1. ~Emitted(KeyOf[e])
          BY <1>5, <2>4, <3>4, <4>2
        <5>2. ResultOf(KeyOf[e]) \in published'
          BY <1>4, <4>2, <5>1
        <5> QED BY <1>2, <3>4, <4>2, <5>2
      <4> QED BY <4>1, <4>2
    <3> QED BY <1>0, <3>1, <3>3, <3>4 DEF Placed
  <2> QED BY <2>1, <2>2, <2>3, <2>4 DEF Placed
<1>9. PublishedOnce'
  <2> SUFFICES ASSUME NEW r \in published', NEW q \in published',
                      r.key = q.key, r.start = q.start, r.end = q.end
               PROVE  r = q
    BY DEF PublishedOnce
  <2>1. \A x \in published', y \in published :
          x \notin published =>
            ~(x.key = y.key /\ x.start = y.start /\ x.end = y.end)
    <3> TAKE x \in published', y \in published
    <3> SUFFICES ASSUME x \notin published, x.key = y.key,
                        x.start = y.start, x.end = y.end
                 PROVE  FALSE
      OBVIOUS
    <3>1. PICK j \in due : ~Emitted(j) /\ x = ResultOf(j)
      BY <1>4
    <3>2. /\ y.key = j /\ y.start = sessions[j].start
          /\ y.end = EndOf(sessions[j])
      BY <1>2, <3>1 DEF EndOf
    <3> QED BY <3>1, <3>2 DEF Emitted
  <2>2. CASE r \in published /\ q \in published
    BY <1>0, <2>2 DEF PublishedOnce
  <2>3. CASE r \notin published /\ q \notin published
    BY <1>2, <1>4, <2>3
  <2> QED BY <2>1, <2>2, <2>3
<1>10. EndsScanned'
  <2> SUFFICES ASSUME NEW r \in published' PROVE r.end < scanned'
    BY DEF EndsScanned
  <2>1. r.end \in Int /\ scanned \in Int
    BY <1>0, <1>7 DEF SessionTypeOK, SessionResult
  <2>2. r.end < scanned \/ r.end < now
    BY <1>0, <1>2, <1>4 DEF EndsScanned
  <2> QED BY <1>1, <2>1, <2>2
<1>11. ASSUME NEW k \in Key \ tardy' PROVE OrderlyKey(k)'
  <2>0. OrderlyKey(k) /\ k \in Key
    BY <1>0, <1>1, <1>11
  <2>1. CASE k \notin due
    <3>1. \A r \in published' : r.key = k => r \in published
      BY <1>2, <1>4, <2>1
    <3>2. \A e \in swallowed' : KeyOf[e] # k
      BY <1>5, <1>6, <2>0, <2>1 DEF OrderlyKey
    <3>3. (Open(k) => OrderlyOpen(k))'
      <4>1. Open(k)' => OrderlyOpen(k) /\ sessions'[k] = sessions[k]
        BY <1>3, <2>0, <2>1 DEF OrderlyKey
      <4> QED BY <1>1, <3>1, <4>1 DEF OrderlyOpen
    <3>4. \A r \in published' : r.key = k => Spans(r)
      BY <2>0, <3>1 DEF OrderlyKey
    <3>5. Apart(k)'
      BY <2>0, <3>1 DEF OrderlyKey, Apart
    <3>6. Unsplit(k)'
      BY <1>1, <2>0, <3>1 DEF OrderlyKey, Unsplit, Near
    <3> QED BY <3>2, <3>3, <3>4, <3>5, <3>6 DEF OrderlyKey, Spans
  <2>2. CASE k \in due
    <3> DEFINE s == sessions[k]
               x == ResultOf(k)
    <3>1. OrderlyOpen(k) /\ ~Open(k)'
      BY <1>2, <1>3, <2>0, <2>2 DEF OrderlyKey
    <3>2. s.start \in Int /\ s.lastActive \in Int /\ Timeout \in Nat
          /\ s.values \subseteq Event
      BY <1>2, <2>2, SessionAssumption DEF SessionState
    <3>3. /\ x.key = k /\ x.start = s.start
          /\ x.end = s.lastActive + Timeout /\ x.values = s.values
      BY <1>2, <2>2
    <3>4. s.start <= s.lastActive /\ \A r \in published : r.key = k => r.end < x.start
      BY <3>1, <3>3 DEF OrderlyOpen
    <3>5. ~Emitted(k)
      <4> SUFFICES ASSUME NEW r \in published, r.key = k, r.start = s.start,
                          r.end = s.lastActive + Timeout
                   PROVE  FALSE
        BY DEF Emitted, EndOf
      <4>1. r.end < s.start
        BY <3>3, <3>4
      <4> QED BY <3>2, <3>4, <4>1
    <3>6. \A r : r \in published' /\ r.key = k <=>
                 (r \in published /\ r.key = k) \/ r = x
      BY <1>2, <1>4, <2>2, <3>3, <3>5
    <3>7. \A e \in swallowed' : KeyOf[e] # k
      BY <1>5, <1>6, <2>0, <3>5 DEF OrderlyKey
    <3>8. Spans(x)
      <4> SUFFICES ASSUME NEW e \in s.values
                   PROVE  s.start <= Ts[e] /\ Ts[e] + Timeout <= s.lastActive + Timeout
        BY <3>3 DEF Spans
      <4>1. s.start <= Ts[e] /\ Ts[e] <= s.lastActive
        BY <3>1 DEF OrderlyOpen
      <4>2. Ts[e] \in Int
        BY <3>2, SessionAssumption
      <4> QED BY <3>2, <4>1, <4>2
    <3> HIDE DEF s, x
    <3>9. \A r \in published' : r.key = k => Spans(r)
      BY <2>0, <3>6, <3>8 DEF OrderlyKey
    <3>10. Apart(k)'
      <4>1. Apart(k)
        BY <2>0 DEF OrderlyKey
      <4> QED BY <3>4, <3>6, <4>1 DEF Apart
    <3>11. Unsplit(k)'
      <4> SUFFICES ASSUME NEW e \in touched \ Ping, NEW f \in touched \ Ping,
                          KeyOf[e] = k, KeyOf[f] = k, Near(e, f),
                          NEW r \in published', r.key = k
                   PROVE  e \in r.values <=> f \in r.values
        BY <1>1 DEF Unsplit, Near
      <4>1. \A q \in published : q.key = k => (e \in q.values <=> f \in q.values)
        BY <2>0 DEF OrderlyKey, Unsplit
      <4>2. \A g \in {e, f} :
              g \in s.values <=> \A q \in published : q.key = k => g \notin q.values
        <5> TAKE g \in {e, f}
        <5>1. g \in touched \ (Ping \cup swallowed) /\ KeyOf[g] = k
          BY <2>0 DEF OrderlyKey
        <5>2. g \in s.values => \A q \in published : g \notin q.values
          BY <1>6, <2>2 DEF s
        <5>3. g \in s.values \/ \E q \in published : g \in q.values
          BY <1>0, <5>1 DEF Placed, s
        <5>4. \A q \in published : g \in q.values => q.key = k
          BY <1>0, <5>1 DEF Placed
        <5> QED BY <5>2, <5>3, <5>4
      <4>3. e \in s.values <=> f \in s.values
        BY <4>1, <4>2
      <4> QED BY <3>3, <3>6, <4>1, <4>3
    <3> QED BY <3>1, <3>7, <3>9, <3>10, <3>11 DEF OrderlyKey, Spans
  <2> QED BY <2>1, <2>2
<1> QED BY <1>7, <1>8, <1>9, <1>10, <1>11 DEF SessionInv

LEMMA SessionStepInv == SessionInv /\ [SessionNext]_sessionVars => SessionInv'
<1> SUFFICES ASSUME SessionInv, [SessionNext]_sessionVars PROVE SessionInv'
  OBVIOUS
<1>1. CASE UNCHANGED sessionVars
  BY <1>1 DEF sessionVars, SessionInv, SessionTypeOK, Placed, PublishedOnce,
     EndsScanned, OrderlyKey, OrderlyOpen, Open, Spans, Apart, Unsplit, Near
<1>2. CASE \E e \in Event : Touch(e)
  BY <1>2, TouchKeeps
<1>3. CASE \E now \in Instant : ScanTimeout(now)
  BY <1>3, ScanKeeps
<1> QED BY <1>1, <1>2, <1>3 DEF SessionNext
-----------------------------------------------------------------------------
(* The invariant of every behaviour of the session windows (session.go).   *)
THEOREM SessionInvariant == SessionSpec => []SessionInv
BY SessionStartInv, SessionStepInv, PTL DEF SessionSpec

(* A window is published once, also when a closed session is opened again  *)
(* under the same identity (agg.go, EmitResult).                           *)
THEOREM PublishedOnceHolds == SessionSpec => []PublishedOnce
<1>1. SessionInv => PublishedOnce
  BY DEF SessionInv
<1> QED BY <1>1, SessionInvariant, PTL

(* Every data event is in exactly one place or was swallowed by a window   *)
(* already emitted (session.go, Touch and ScanTimeout).                    *)
THEOREM SessionCustodyHolds == SessionSpec => []SessionCustody
<1>1. ASSUME SessionInv PROVE SessionCustody
  <2>1. SessionTypeOK /\ Placed
    BY <1>1 DEF SessionInv
  <2> SUFFICES ASSUME NEW e \in Event
               PROVE  Cardinality(Holders(e)) =
                        IF e \in touched \ (Ping \cup swallowed) THEN 1 ELSE 0
    BY DEF SessionCustody
  <2>2. \A x : x \in Holders(e) <=>
          \/ x \in published /\ e \in x.values
          \/ \E k \in Key : Open(k) /\ e \in sessions[k].values /\ x = sessions[k]
    BY DEF Holders, Open
  <2>3. CASE e \notin touched \ (Ping \cup swallowed)
    <3>1. Holders(e) = {}
      BY <2>1, <2>2, <2>3 DEF Placed
    <3> QED BY <2>3, <3>1, FS_EmptySet
  <2>4. CASE e \in touched \ (Ping \cup swallowed)
    <3>1. KeyOf[e] \in Key
      BY SessionAssumption
    <3>2. \E x : Holders(e) = {x}
      <4>1. CASE \E r \in published : e \in r.values
        <5>1. PICK r \in published : e \in r.values
          BY <4>1
        <5>2. \A x : x \in Holders(e) => x = r
          BY <2>1, <2>2, <5>1 DEF Placed
        <5>3. r \in Holders(e)
          BY <2>2, <5>1
        <5>4. Holders(e) = {r}
          BY <5>2, <5>3
        <5> QED BY <5>4
      <4>2. CASE Open(KeyOf[e]) /\ e \in sessions[KeyOf[e]].values
        <5> DEFINE s == sessions[KeyOf[e]]
        <5>1. \A x : x \in Holders(e) => x = s
          BY <2>1, <2>2, <3>1, <4>2 DEF Placed
        <5>2. s \in Holders(e)
          BY <2>2, <3>1, <4>2
        <5>3. Holders(e) = {s}
          BY <5>1, <5>2
        <5> QED BY <5>3
      <4> QED BY <2>1, <2>4, <4>1, <4>2 DEF Placed
    <3> QED BY <2>4, <3>2, FS_Singleton
  <2> QED BY <2>3, <2>4
<1> QED BY <1>1, SessionInvariant, PTL

(* A scan never splits a live session of a key touched in order and ahead  *)
(* of the scans (session.go, ScanTimeout).                                 *)
THEOREM OrderlySessionsHolds == SessionSpec => []OrderlySessions
<1>1. ASSUME SessionInv PROVE OrderlySessions
  <2> SUFFICES ASSUME NEW k \in Key \ tardy
               PROVE  LET mine == {r \in published : r.key = k}
                          values == {e \in touched \ Ping : KeyOf[e] = k} IN
                      /\ \A e, f \in values :
                           Ts[e] <= Ts[f] /\ Ts[f] - Ts[e] <= Timeout =>
                             \A r \in mine : e \in r.values <=> f \in r.values
                      /\ \A r, q \in mine :
                           r = q \/ r.end < q.start \/ q.end < r.start
                      /\ \A r \in mine :
                           /\ \A e \in r.values : r.start <= Ts[e] /\ Ts[e] <= r.end
                           /\ sessions[k] # NoSession => r.end < sessions[k].start
                      /\ values \cap swallowed = {}
    BY DEF OrderlySessions
  <2>1. OrderlyKey(k) /\ SessionTypeOK
    BY <1>1 DEF SessionInv
  <2>2. \A r \in published : r.key = k =>
          \A e \in r.values : r.start <= Ts[e] /\ Ts[e] <= r.end
    <3> SUFFICES ASSUME NEW r \in published, r.key = k, NEW e \in r.values
                 PROVE  r.start <= Ts[e] /\ Ts[e] <= r.end
      OBVIOUS
    <3>1. r.start <= Ts[e] /\ Ts[e] + Timeout <= r.end
      BY <2>1 DEF OrderlyKey, Spans
    <3>2. Ts[e] \in Int /\ r.end \in Int /\ Timeout \in Nat
      BY <2>1, SessionAssumption DEF SessionTypeOK, SessionResult
    <3> QED BY <3>1, <3>2
  <2>3. Unsplit(k) /\ Apart(k) /\ \A e \in swallowed : KeyOf[e] # k
    BY <2>1 DEF OrderlyKey
  <2>4. \A r \in published :
          r.key = k /\ sessions[k] # NoSession => r.end < sessions[k].start
    BY <2>1 DEF OrderlyKey, OrderlyOpen, Open
  <2> QED BY <2>2, <2>3, <2>4 DEF Unsplit, Apart, Near
<1> QED BY <1>1, SessionInvariant, PTL
-----------------------------------------------------------------------------
(***************************************************************************)
(* The keyed side of the pipeline keeps what its parts promise: seen from  *)
(* the router and the partitioned store, and seen from the session         *)
(* windows, every step of Process, Resize or a scan is one of their own    *)
(* steps or none (pipeline.go, Process).                                   *)
(***************************************************************************)
THEOREM KeyedKeepsParts == KeyedSpec => RouterSpec /\ SessionSpec
<1>1. KeyedInit => RouterInit /\ SessionInit
  BY DEF KeyedInit
<1>2. [KeyedNext]_keyedVars => [RouterNext]_routerVars
  <2>1. SUFFICES ASSUME KeyedNext PROVE [RouterNext]_routerVars
    BY DEF keyedVars, routerVars
  <2>2. ASSUME NEW e \in Event, ProcessPing(e) PROVE UNCHANGED routerVars
    BY <2>2 DEF ProcessPing
  <2>3. ASSUME NEW e \in Event, ProcessData(e) PROVE RouterNext
    BY <2>3, SessionAssumption DEF ProcessData, RouterNext
  <2>4. AddToPartition => RouterNext
    BY DEF AddToPartition, RouterNext
  <2>5. TouchSession => UNCHANGED routerVars
    BY DEF TouchSession
  <2>6. ASSUME NEW n \in Counts, ResizePartitions(n) PROVE RouterNext
    BY <2>6 DEF ResizePartitions, RouterNext
  <2>7. ASSUME NEW now \in Instant, ScanSessions(now)
        PROVE  UNCHANGED routerVars
    BY <2>7 DEF ScanSessions
  <2> QED BY <2>1, <2>2, <2>3, <2>4, <2>5, <2>6, <2>7 DEF KeyedNext
<1>3. [KeyedNext]_keyedVars /\ (work = NoEvent \/ work \in Event)
        => [SessionNext]_sessionVars
  <2>1. SUFFICES ASSUME KeyedNext, work = NoEvent \/ work \in Event
                 PROVE  [SessionNext]_sessionVars
    BY DEF keyedVars, sessionVars
  <2>2. ASSUME NEW e \in Event, ProcessPing(e) PROVE SessionNext
    BY <2>2 DEF ProcessPing, SessionNext
  <2>3. ASSUME NEW e \in Event, ProcessData(e) PROVE UNCHANGED sessionVars
    BY <2>3 DEF ProcessData
  <2>4. AddToPartition => UNCHANGED sessionVars
    BY DEF AddToPartition
  <2>5. TouchSession => SessionNext
    BY <2>1 DEF TouchSession, SessionNext
  <2>6. ASSUME NEW n \in Counts, ResizePartitions(n)
        PROVE  UNCHANGED sessionVars
    BY <2>6 DEF ResizePartitions
  <2>7. ASSUME NEW now \in Instant, ScanSessions(now) PROVE SessionNext
    BY <2>7 DEF ScanSessions, SessionNext
  <2> QED BY <2>1, <2>2, <2>3, <2>4, <2>5, <2>6, <2>7 DEF KeyedNext
<1>4. KeyedInit => (work = NoEvent \/ work \in Event)
  BY DEF KeyedInit
<1>5. (work = NoEvent \/ work \in Event) /\ [KeyedNext]_keyedVars
        => (work = NoEvent \/ work \in Event)'
  BY DEF KeyedNext, keyedVars, ProcessPing, ProcessData, AddToPartition,
         TouchSession, ResizePartitions, ScanSessions
<1> QED
  BY <1>1, <1>2, <1>3, <1>4, <1>5, PTL DEF KeyedSpec, RouterSpec, SessionSpec
=============================================================================
