---------------------------- MODULE MainLoop_proofs ----------------------------
(***************************************************************************)
(* What loop() does: its timers keep their intervals, for every width of   *)
(* the clock; the calls deferred to it tell of every share, for any number *)
(* of miners; the page's identity is applied, whatever names there are.    *)
(***************************************************************************)
EXTENDS LoopTimers, ShareEvents, WebConfig, FiniteSetTheorems, TLAPS

-----------------------------------------------------------------------------
(* Division by an unknown number *)

LEMMA Division ==
    ASSUME NEW a \in Int, NEW d \in Nat \ {0}
    PROVE  a % d \in 0 .. d - 1 /\ a \div d \in Int /\ a = d * (a \div d) + (a % d)
OBVIOUS

LEMMA AtLeastOnce ==
    ASSUME NEW d \in Nat \ {0}, NEW k \in Int, k >= 1
    PROVE  d * k \in Int /\ d * k >= d
<1>1. d * k = d + d * (k - 1) /\ d * (k - 1) \in Int
  OBVIOUS
<1>2. d * (k - 1) >= 0
  OBVIOUS
<1> QED
  BY <1>1, <1>2

LEMMA UniqueRest ==
    ASSUME NEW d \in Nat \ {0}, NEW p \in Int, NEW q \in Int,
           NEW r \in 0 .. d - 1, NEW s \in 0 .. d - 1, d * p + r = d * q + s
    PROVE  r = s
<1>1. d * p \in Int /\ d * q \in Int /\ p - q \in Int /\ q - p \in Int
  OBVIOUS
<1>2. d * (p - q) = d * p - d * q /\ d * (q - p) = d * q - d * p
  OBVIOUS
<1>3. CASE p = q
  BY <1>3, <1>1
<1>4. CASE p > q
  <2>1. d * (p - q) >= d
    BY <1>4, <1>1, AtLeastOnce
  <2> QED
    BY <2>1, <1>1, <1>2
<1>5. CASE q > p
  <2>1. d * (q - p) >= d
    BY <1>5, <1>1, AtLeastOnce
  <2> QED
    BY <2>1, <1>1, <1>2
<1> QED
  BY <1>3, <1>4, <1>5

LEMMA RestIs ==
    ASSUME NEW d \in Nat \ {0}, NEW q \in Int, NEW r \in 0 .. d - 1
    PROVE  (d * q + r) % d = r
<1> DEFINE a == d * q + r
<1>1. a \in Int
  OBVIOUS
<1>2. a % d \in 0 .. d - 1 /\ a \div d \in Int /\ a = d * (a \div d) + (a % d)
  BY <1>1, Division
<1>3. d * (a \div d) + (a % d) = d * q + r
  BY <1>2
<1> QED
  BY <1>2, <1>3, UniqueRest

LEMMA RestSmall ==
    ASSUME NEW d \in Nat \ {0}, NEW x \in 0 .. d - 1
    PROVE  x % d = x
OBVIOUS

\* As long as it does not go round, a rest grows with the number.
LEMMA RestGrows ==
    ASSUME NEW d \in Nat \ {0}, NEW x \in Int, NEW e \in Nat, (x % d) + e < d
    PROVE  (x + e) % d = (x % d) + e
<1> DEFINE q == x \div d
           r == x % d
<1>1. r \in 0 .. d - 1 /\ q \in Int /\ x = d * q + r
  BY Division
<1>2. r + e \in 0 .. d - 1
  BY <1>1
<1>3. d * q \in Int
  BY <1>1
<1> HIDE DEF q, r
<1>4. x + e = d * q + (r + e)
  BY <1>1, <1>3
<1>5. (d * q + (r + e)) % d = r + e
  BY <1>1, <1>2, RestIs
<1> QED
  BY <1>4, <1>5 DEF r

LEMMA RestAtMost ==
    ASSUME NEW d \in Nat \ {0}, NEW x \in Nat
    PROVE  x % d <= x
<1>1. CASE x < d
  BY <1>1, RestSmall
<1>2. CASE x >= d
  BY <1>2, Division
<1> QED
  BY <1>1, <1>2

\* The difference of two stamps is that of the times, but for whole rounds of the clock.
LEMMA SinceIsRest ==
    ASSUME NEW t \in Nat, NEW c \in Nat
    PROVE  Since(t, millis(c)) = (t - c) % Millis
<1>0. Millis \in Nat \ {0}
  BY TimersAssumption
<1> DEFINE a == t \div Millis
           b == c \div Millis
           e == millis(t) - millis(c)
           q == e \div Millis
           r == e % Millis
<1>1. a \in Int /\ millis(t) \in 0 .. Millis - 1 /\ t = Millis * a + millis(t)
  BY <1>0, Division DEF millis
<1>2. b \in Int /\ millis(c) \in 0 .. Millis - 1 /\ c = Millis * b + millis(c)
  BY <1>0, Division DEF millis
<1>3. e \in Int
  BY <1>1, <1>2
<1>4. q \in Int /\ r \in 0 .. Millis - 1 /\ e = Millis * q + r
  BY <1>0, <1>3, Division
<1> HIDE DEF a, b, q, r
<1>5. (Millis * ((a - b) + q) + r) % Millis = r
  <2>1. (a - b) + q \in Int
    BY <1>1, <1>2, <1>4
  <2> QED
    BY <1>0, <1>4, <2>1, RestIs
<1>6. Millis * a \in Int /\ Millis * b \in Int /\ Millis * q \in Int
  BY <1>0, <1>1, <1>2, <1>4
<1>7. Millis * ((a - b) + q) = (Millis * a - Millis * b) + Millis * q
  BY <1>0, <1>1, <1>2, <1>4
<1>8. t - c = Millis * ((a - b) + q) + r
  BY <1>1, <1>2, <1>4, <1>6, <1>7
<1> QED
  BY <1>5, <1>8 DEF Since, r

-----------------------------------------------------------------------------
(* One timer *)

\* At p, something was last done at c, and is due every `every`; that has been seen to
\* since `since`.  Either it was done in time, or its stamp looks new and the time that
\* it seems old covers all the time it was seen to.
InTime(p, c, since, every) ==
    \/ p - c < every
    \/ (p - c) % Millis < every /\ p - since <= (p - c) % Millis

LEMMA TimerStarts ==
    ASSUME NEW t \in Nat, NEW c \in Nat, NEW every \in Nat, Since(t, millis(c)) < every
    PROVE  InTime(t, c, t, every)
<1>1. (t - c) % Millis < every
  BY SinceIsRest
<1>2. 0 <= (t - c) % Millis
  BY TimersAssumption, Division
<1> QED
  BY <1>1, <1>2 DEF InTime

LEMMA TimerGoesOn ==
    ASSUME NEW p \in Nat, NEW t \in Nat, NEW c \in Nat, NEW since \in Nat, NEW every \in Nat,
           c <= p, p <= t, every + (t - p) <= Millis,
           InTime(p, c, since, every), Since(t, millis(c)) < every
    PROVE  InTime(t, c, since, every)
<1>0. Millis \in Nat \ {0}
  BY TimersAssumption
<1>1. (t - c) % Millis < every
  BY SinceIsRest
<1>2. CASE p - c < every
  <2>1. t - c \in 0 .. Millis - 1
    BY <1>0, <1>2
  <2>2. (t - c) % Millis = t - c
    BY <1>0, <2>1, RestSmall
  <2> QED
    BY <1>1, <2>2 DEF InTime
<1>3. CASE (p - c) % Millis < every /\ p - since <= (p - c) % Millis
  <2> DEFINE r == (p - c) % Millis
  <2>1. r \in 0 .. Millis - 1
    BY <1>0, Division
  <2>2. r + (t - p) < Millis /\ t - p \in Nat /\ p - c \in Int
    BY <1>0, <1>3, <2>1
  <2>3. ((p - c) + (t - p)) % Millis = r + (t - p)
    BY <1>0, <2>2, RestGrows
  <2>4. (p - c) + (t - p) = t - c
    OBVIOUS
  <2>5. (t - c) % Millis = r + (t - p)
    BY <2>3, <2>4
  <2>6. p - since <= r
    BY <1>3
  <2> HIDE DEF r
  <2>7. t - since <= (t - c) % Millis
    BY <2>1, <2>5, <2>6
  <2> QED
    BY <1>1, <2>7 DEF InTime
<1> QED
  BY <1>2, <1>3 DEF InTime

\* What has been seen to for `every` was done in the last `every`.
LEMMA InTimeMeans ==
    ASSUME NEW p \in Nat, NEW c \in Nat, NEW since \in Nat, NEW every \in Nat,
           InTime(p, c, since, every), p - since >= every
    PROVE  p - c < every
<1>1. (p - c) % Millis \in Int
  BY TimersAssumption, Division
<1> QED
  BY <1>1 DEF InTime

-----------------------------------------------------------------------------
(* The three timers *)

ClockOK ==
    /\ pass \in Nat /\ now \in Nat
    /\ pass <= now /\ now <= pass + MineTime

CheckOK == checked \in Nat /\ checked <= pass /\ last_check_time_ = millis(checked)

FetchOK ==
    \/ fetched = Never /\ last_fetch_time_ = 0
    \/ /\ stamped \in Nat /\ stamped <= pass
       /\ fetched \in Nat /\ stamped <= fetched /\ fetched <= stamped + MineTime
       /\ last_fetch_time_ = millis(stamped)

UpdateOK ==
    \/ updated = Never /\ last_sensor_update_ = 0
    \/ /\ updated \in Nat /\ updated <= pass
       /\ last_sensor_update_ = millis(updated)
       /\ pass - updated < UPDATE_INTERVAL

OnlineOK ==
    \/ online = Never
    \/ online \in Nat /\ online <= pass /\ InTime(pass, checked, online, CHECK_INTERVAL)

NeedyOK ==
    \/ needy = Never
    \/ /\ needy \in Nat /\ needy <= pass
       /\ fetched # Never
       /\ InTime(pass, stamped, needy, CHECK_INTERVAL)

TimersInv == ClockOK /\ CheckOK /\ FetchOK /\ UpdateOK /\ OnlineOK /\ NeedyOK

LEMMA Constants ==
    /\ Millis \in Nat \ {0} /\ Gap \in Nat /\ MineTime \in Nat
    /\ UPDATE_INTERVAL \in Nat \ {0} /\ CHECK_INTERVAL \in Nat \ {0}
    /\ UPDATE_INTERVAL <= CHECK_INTERVAL
    /\ CHECK_INTERVAL + Gap + MineTime <= Millis
  BY TimersAssumption

\* A pass begins before a stamp of the pass before can look new again.
LEMMA PassFollows ==
    ASSUME ClockOK, NEW t \in now .. now + Gap, NEW end \in t .. t + MineTime, Lasts(t, end)
    PROVE  /\ t \in Nat /\ end \in Nat /\ pass <= t /\ t <= end /\ end <= t + MineTime
           /\ pass' = t /\ CHECK_INTERVAL + (t - pass) <= Millis
           /\ ClockOK'
  BY Constants DEF ClockOK, Lasts

LEMMA UpdateKeeps ==
    ASSUME ClockOK, UpdateOK, NEW t \in Nat, pass <= t, pass' = t,
           CHECK_INTERVAL + (t - pass) <= Millis, UpdateSensors(t)
    PROVE  UpdateOK'
<1>1. CASE last_sensor_update_' = millis(t) /\ updated' = t
  BY <1>1, Constants DEF UpdateOK
<1>2. CASE /\ ~(last_sensor_update_ = 0 \/ Since(t, last_sensor_update_) >= UPDATE_INTERVAL)
           /\ UNCHANGED <<last_sensor_update_, updated>>
  <2>1. /\ updated \in Nat /\ updated <= pass /\ pass - updated < UPDATE_INTERVAL
        /\ last_sensor_update_ = millis(updated)
    BY <1>2 DEF UpdateOK
  <2>2. pass \in Nat
    BY DEF ClockOK
  <2>3. t - updated \in 0 .. Millis - 1
    BY <2>1, <2>2, Constants
  <2>4. Since(t, last_sensor_update_) = t - updated
    BY <2>1, <2>3, SinceIsRest, RestSmall, Constants
  <2>5. t - updated < UPDATE_INTERVAL
    BY <1>2, <2>3, <2>4, Constants
  <2> QED
    BY <1>2, <2>1, <2>2, <2>5 DEF UpdateOK
<1> QED
  BY <1>1, <1>2 DEF UpdateSensors

LEMMA CheckKeeps ==
    ASSUME ClockOK, CheckOK, OnlineOK, NEW t \in Nat, pass <= t, pass' = t,
           CHECK_INTERVAL + (t - pass) <= Millis, Check(t), StaysOnline(t)
    PROVE  CheckOK' /\ OnlineOK'
<1>0. pass \in Nat /\ CHECK_INTERVAL \in Nat /\ CHECK_INTERVAL > 0
  BY Constants DEF ClockOK
<1>1. online' \in Nat /\ online' <= t /\ (online' = t \/ (online' = online /\ online \in Nat))
  <2>1. CASE online = Never
    <3>1. online' = t
      BY <2>1 DEF StaysOnline
    <3> QED
      BY <3>1
  <2>2. CASE online # Never
    <3>1. online' = online /\ online \in Nat /\ online <= pass
      BY <2>2 DEF StaysOnline, OnlineOK
    <3> QED
      BY <1>0, <3>1
  <2> QED
    BY <2>1, <2>2
<1>2. CASE last_check_time_' = millis(t) /\ checked' = t
  <2>1. InTime(t, t, online', CHECK_INTERVAL)
    BY <1>0 DEF InTime
  <2> QED
    BY <1>1, <1>2, <2>1 DEF CheckOK, OnlineOK
<1>3. CASE ~(Since(t, last_check_time_) >= CHECK_INTERVAL) /\ UNCHANGED <<last_check_time_, checked>>
  <2>1. checked \in Nat /\ checked <= pass /\ last_check_time_ = millis(checked)
    BY DEF CheckOK
  <2>2. Since(t, millis(checked)) < CHECK_INTERVAL
    <3>1. Since(t, millis(checked)) \in Int
      <4>1. t - checked \in Int
        BY <2>1
      <4>2. (t - checked) % Millis \in Int
        BY <4>1, Constants, Division
      <4> QED
        BY <2>1, <4>2, SinceIsRest
    <3> QED
      BY <1>0, <1>3, <2>1, <3>1
  <2>3. InTime(t, checked, online', CHECK_INTERVAL)
    <3>1. CASE online = Never
      <4>1. online' = t
        BY <3>1 DEF StaysOnline
      <4> QED
        BY <1>0, <2>1, <2>2, <4>1, TimerStarts
    <3>2. CASE online # Never
      <4>1. online' = online /\ online \in Nat /\ InTime(pass, checked, online, CHECK_INTERVAL)
        BY <3>2 DEF StaysOnline, OnlineOK
      <4> QED
        BY <1>0, <2>1, <2>2, <4>1, TimerGoesOn
    <3> QED
      BY <3>1, <3>2
  <2> QED
    BY <1>0, <1>1, <1>3, <2>1, <2>3 DEF CheckOK, OnlineOK
<1> QED
  BY <1>2, <1>3 DEF Check

\* Without a fetch: none was due, and the need is one that begins or goes on.
LEMMA NoFetchKeeps ==
    ASSUME ClockOK, FetchOK, NeedyOK, NEW t \in Nat, pass <= t, pass' = t,
           CHECK_INTERVAL + (t - pass) <= Millis, FetchNot(t),
           needy' = IF needy = Never THEN t ELSE needy
    PROVE  FetchOK' /\ NeedyOK'
<1>0. pass \in Nat /\ CHECK_INTERVAL \in Nat /\ CHECK_INTERVAL > 0
  BY Constants DEF ClockOK
<1>1. /\ last_fetch_time_ # 0 /\ ~(Since(t, last_fetch_time_) >= CHECK_INTERVAL)
      /\ UNCHANGED <<last_fetch_time_, fetched, stamped>>
  BY DEF FetchNot, FetchDue
<1>2. /\ stamped \in Nat /\ stamped <= pass
      /\ fetched \in Nat /\ stamped <= fetched /\ fetched <= stamped + MineTime
      /\ last_fetch_time_ = millis(stamped)
  BY <1>1 DEF FetchOK
<1>3. Since(t, millis(stamped)) < CHECK_INTERVAL
  <2>1. t - stamped \in Int
    BY <1>2
  <2>2. (t - stamped) % Millis \in Int
    BY <2>1, Constants, Division
  <2>3. Since(t, millis(stamped)) \in Int
    BY <1>2, <2>2, SinceIsRest
  <2> QED
    BY <1>0, <1>1, <1>2, <2>3
<1>4. needy' \in Nat /\ needy' <= t /\ InTime(t, stamped, needy', CHECK_INTERVAL)
  <2>1. CASE needy = Never
    <3>1. needy' = t
      BY <2>1
    <3> QED
      BY <1>0, <1>2, <1>3, <3>1, TimerStarts
  <2>2. CASE needy # Never
    <3>1. needy' = needy /\ needy \in Nat /\ needy <= pass /\ InTime(pass, stamped, needy, CHECK_INTERVAL)
      BY <2>2 DEF NeedyOK
    <3>2. InTime(t, stamped, needy, CHECK_INTERVAL)
      BY <1>0, <1>2, <1>3, <3>1, TimerGoesOn
    <3> QED
      BY <1>0, <3>1, <3>2
  <2> QED
    BY <2>1, <2>2
<1>5. FetchOK'
  BY <1>0, <1>1, <1>2 DEF FetchOK
<1>6. fetched' # Never
  BY <1>1, <1>2 DEF Never
<1> QED
  BY <1>1, <1>4, <1>5, <1>6 DEF NeedyOK

LEMMA FetchKeeps ==
    ASSUME NEW t \in Nat, NEW end \in Nat, t <= end, end <= t + MineTime, pass' = t,
           Fetch(t, end), needy' \in {Never, t} \/ needy' = needy, NeedyOK, ClockOK, pass <= t
    PROVE  FetchOK' /\ NeedyOK'
<1>0. pass \in Nat /\ CHECK_INTERVAL \in Nat /\ CHECK_INTERVAL > 0
  BY Constants DEF ClockOK
<1>1. last_fetch_time_' = millis(t) /\ fetched' = end /\ stamped' = t
  BY DEF Fetch
<1>2. FetchOK'
  BY <1>1 DEF FetchOK
<1>3. InTime(t, t, needy', CHECK_INTERVAL)
  BY <1>0 DEF InTime
<1>4. needy' = Never \/ (needy' \in Nat /\ needy' <= t)
  <2>1. CASE needy' = Never
    BY <2>1
  <2>2. CASE needy' = t
    BY <2>2
  <2>3. CASE needy' = needy /\ needy # Never
    <3>1. needy \in Nat /\ needy <= pass
      BY <2>3 DEF NeedyOK
    <3> QED
      BY <1>0, <2>3, <3>1
  <2> QED
    BY <2>1, <2>2, <2>3
<1>5. fetched' # Never
  BY <1>1 DEF Never
<1> QED
  BY <1>1, <1>2, <1>3, <1>4, <1>5 DEF NeedyOK

LEMMA TimersInductive == TimersSpec => []TimersInv
<1>1. TimersInit => TimersInv
  <2> SUFFICES ASSUME TimersInit PROVE TimersInv
    OBVIOUS
  <2>1. millis(0) = 0
    BY Constants DEF millis
  <2> QED
    BY <2>1, Constants DEF TimersInit, TimersInv, ClockOK, CheckOK, FetchOK, UpdateOK, OnlineOK, NeedyOK
<1>2. TimersInv /\ [TimersNext]_timersVars => TimersInv'
  <2> SUFFICES ASSUME TimersInv, [TimersNext]_timersVars PROVE TimersInv'
    OBVIOUS
  <2> USE DEF TimersInv
  <2>1. CASE Withdraw \/ UNCHANGED timersVars
    BY <2>1 DEF Withdraw, timersVars, stamps, ClockOK, CheckOK, FetchOK, UpdateOK, OnlineOK, NeedyOK, InTime
  <2>2. ASSUME NEW t \in now .. now + Gap, PassOffline(t) PROVE TimersInv'
    <3>1. Lasts(t, t) /\ t \in t .. t + MineTime
      BY <2>2, Constants DEF PassOffline, ClockOK
    <3>2. t \in Nat /\ pass <= t /\ pass' = t /\ CHECK_INTERVAL + (t - pass) <= Millis /\ ClockOK'
      BY <3>1, PassFollows
    <3>3. UpdateOK'
      BY <2>2, <3>2, UpdateKeeps DEF PassOffline
    <3>4. CheckOK' /\ FetchOK'
      BY <2>2, <3>2 DEF PassOffline, CheckOK, FetchOK, ClockOK
    <3>5. OnlineOK' /\ NeedyOK'
      BY <2>2 DEF PassOffline, OnlineOK, NeedyOK
    <3> QED
      BY <3>2, <3>3, <3>4, <3>5
  <2>3. ASSUME NEW t \in now .. now + Gap, NEW end \in t .. t + MineTime, PassReady(t, end)
        PROVE  TimersInv'
    <3>1. t \in Nat /\ pass <= t /\ pass' = t /\ CHECK_INTERVAL + (t - pass) <= Millis /\ ClockOK'
      BY <2>3, PassFollows DEF PassReady
    <3>2. UpdateOK'
      BY <2>3, <3>1, UpdateKeeps DEF PassReady
    <3>3. CheckOK' /\ OnlineOK'
      BY <2>3, <3>1, CheckKeeps DEF PassReady
    <3>4. FetchOK'
      BY <2>3, <3>1 DEF PassReady, FetchOK, ClockOK
    <3>5. NeedyOK'
      BY <2>3 DEF PassReady, NeedyOK
    <3> QED
      BY <3>1, <3>2, <3>3, <3>4, <3>5
  <2>4. ASSUME NEW t \in now .. now + Gap, NEW end \in t .. t + MineTime, PassUnready(t, end)
        PROVE  TimersInv'
    <3>1. /\ t \in Nat /\ end \in Nat /\ pass <= t /\ t <= end /\ end <= t + MineTime
          /\ pass' = t /\ CHECK_INTERVAL + (t - pass) <= Millis /\ ClockOK'
      BY <2>4, PassFollows DEF PassUnready
    <3>2. UpdateOK'
      BY <2>4, <3>1, UpdateKeeps DEF PassUnready
    <3>3. CheckOK' /\ OnlineOK'
      BY <2>4, <3>1, CheckKeeps DEF PassUnready
    <3>4. needy' = IF is_ready' THEN Never ELSE IF needy = Never THEN t ELSE needy
      BY <2>4 DEF PassUnready
    <3>5. CASE Fetch(t, end)
      <4>1. needy' \in {Never, t} \/ needy' = needy
        BY <3>4
      <4> QED
        BY <3>1, <3>2, <3>3, <3>5, <4>1, FetchKeeps
    <3>6. CASE FetchNot(t)
      <4>1. needy' = IF needy = Never THEN t ELSE needy
        BY <3>4, <3>6 DEF FetchNot
      <4> QED
        BY <3>1, <3>2, <3>3, <3>6, <4>1, NoFetchKeeps
    <3> QED
      BY <2>4, <3>5, <3>6 DEF PassUnready
  <2> QED
    BY <2>1, <2>2, <2>3, <2>4 DEF TimersNext
<1> QED
  BY <1>1, <1>2, PTL DEF TimersSpec

-----------------------------------------------------------------------------
(* What they promise *)

\* A miner's errors are looked at once in CHECK_INTERVAL of passes with a network, however
\* often the clock went round (duco_esp32.cpp:35-39).
THEOREM ChecksComeInTime == TimersSpec => []ChecksAreDue
<1>1. TimersInv => ChecksAreDue
  <2> SUFFICES ASSUME TimersInv, online # Never, pass - online >= CHECK_INTERVAL
               PROVE  pass - checked < CHECK_INTERVAL
    BY DEF ChecksAreDue
  <2>1. pass \in Nat /\ checked \in Nat /\ online \in Nat /\ InTime(pass, checked, online, CHECK_INTERVAL)
    BY DEF TimersInv, ClockOK, CheckOK, OnlineOK
  <2> QED
    BY <2>1, InTimeMeans, Constants
<1> QED
  BY <1>1, TimersInductive, PTL

\* A device without a node asks for one once in CHECK_INTERVAL (duco_esp32.cpp:41-48).
THEOREM FetchesComeInTime == TimersSpec => []FetchesAreDue
<1>1. TimersInv => FetchesAreDue
  <2> SUFFICES ASSUME TimersInv, needy # Never, pass - needy >= CHECK_INTERVAL
               PROVE  pass - fetched < CHECK_INTERVAL /\ fetched # Never
    BY DEF FetchesAreDue
  <2>1. /\ pass \in Nat /\ needy \in Nat /\ fetched # Never
        /\ InTime(pass, stamped, needy, CHECK_INTERVAL)
    BY DEF TimersInv, ClockOK, NeedyOK
  <2>2. stamped \in Nat /\ fetched \in Nat /\ stamped <= fetched
    BY <2>1 DEF TimersInv, FetchOK
  <2>3. pass - stamped < CHECK_INTERVAL
    BY <2>1, <2>2, InTimeMeans, Constants
  <2> QED
    BY <2>1, <2>2, <2>3, Constants
<1> QED
  BY <1>1, TimersInductive, PTL

\* The sensors are brought up to date in every UPDATE_INTERVAL (duco_esp32.cpp:296).
THEOREM SensorsComeInTime == TimersSpec => []SensorsAreFresh
<1>1. TimersInv => SensorsAreFresh
  BY DEF TimersInv, UpdateOK, SensorsAreFresh
<1> QED
  BY <1>1, TimersInductive, PTL

\* What loop() does by its stamps is done in time, for any clock, intervals and spacing of
\* passes that TimersAssumption allows (duco_esp32.cpp:19-49,296).
THEOREM TimersInTime == TimersSpec => []TimersAreDue
<1>1. ChecksAreDue /\ FetchesAreDue /\ SensorsAreFresh => TimersAreDue
  BY DEF TimersAreDue
<1> QED
  BY <1>1, ChecksComeInTime, FetchesComeInTime, SensorsComeInTime, PTL

\* The poolpicker is not asked again before its time (duco_esp32.cpp:44-48).
THEOREM FetchesKeepApart == TimersSpec => FetchesAreSpaced
<1>1. TimersInv /\ [TimersNext]_timersVars =>
         [fetched' # fetched =>
             \/ fetched = Never \/ millis(stamped) = 0
             \/ fetched' - fetched >= CHECK_INTERVAL - MineTime]_timersVars
  <2> SUFFICES ASSUME TimersInv, TimersNext, fetched' # fetched, fetched # Never, millis(stamped) # 0
               PROVE  fetched' - fetched >= CHECK_INTERVAL - MineTime
    OBVIOUS
  <2>1. PICK t \in now .. now + Gap : \E end \in t .. t + MineTime : PassUnready(t, end) /\ Fetch(t, end)
    BY DEF TimersNext, Withdraw, PassOffline, PassReady, PassUnready, FetchNot
  <2> PICK end \in t .. t + MineTime : PassUnready(t, end) /\ Fetch(t, end)
    BY <2>1
  <2>2. ClockOK /\ FetchOK
    BY DEF TimersInv
  <2>3. /\ stamped \in Nat /\ stamped <= pass /\ fetched \in Nat /\ fetched <= stamped + MineTime
        /\ last_fetch_time_ = millis(stamped)
    BY <2>2 DEF FetchOK
  <2>4. t \in Nat /\ end \in Nat /\ pass <= t /\ t <= end
    BY <2>2, PassFollows DEF PassUnready
  <2>5. Since(t, millis(stamped)) >= CHECK_INTERVAL /\ fetched' = end
    BY <2>3 DEF Fetch, FetchDue
  <2>6. t - stamped \in Nat
    BY <2>2, <2>3, <2>4 DEF ClockOK
  <2>7. (t - stamped) % Millis >= CHECK_INTERVAL /\ (t - stamped) % Millis <= t - stamped
    BY <2>3, <2>4, <2>5, <2>6, SinceIsRest, RestAtMost, Constants
  <2>8. (t - stamped) % Millis \in Int
    BY <2>6, Constants, Division
  <2>9. t - stamped >= CHECK_INTERVAL
    BY <2>6, <2>7, <2>8, Constants
  <2> QED
    BY <2>3, <2>4, <2>5, <2>9, Constants
<1> QED
  BY <1>1, TimersInductive, PTL DEF TimersSpec, FetchesAreSpaced

-----------------------------------------------------------------------------
(* The event of a found share *)

\* The miners between the count of a share and its event.
Busy == {c \in Cores : pc[c] # "mine"}

EventsInv ==
    /\ pc \in [Cores -> {"mine", "submit", "call"}]
    /\ found \in Nat /\ deferred \in Nat /\ events \in Nat
    /\ OneEventPerShare

LEMMA BusyIsFinite == IsFiniteSet(Busy) /\ Cardinality(Busy) \in Nat
<1>1. Busy \in SUBSET Cores
  BY DEF Busy
<1> QED
  BY <1>1, EventsAssumption, FS_Subset, FS_CardinalityType

LEMMA FindKeepsEvents ==
    ASSUME EventsInv, NEW c \in Cores, Find(c)
    PROVE  EventsInv'
<1>1. /\ pc[c] = "mine" /\ pc' = [pc EXCEPT ![c] = "submit"]
      /\ found' = found + 1 /\ deferred' = deferred /\ events' = events
  BY DEF Find, MinerGoto
<1>2. pc' \in [Cores -> {"mine", "submit", "call"}]
  BY <1>1 DEF EventsInv
<1>3. Busy' = Busy \cup {c} /\ c \notin Busy
  BY <1>1 DEF EventsInv, Busy
<1>4. Cardinality(Busy') = Cardinality(Busy) + 1
  BY <1>3, BusyIsFinite, FS_AddElement
<1>5. found = events + deferred + Cardinality(Busy)
  BY DEF EventsInv, OneEventPerShare, Busy
<1>6. found' = events' + deferred' + Cardinality(Busy')
  BY <1>1, <1>4, <1>5, BusyIsFinite DEF EventsInv
<1>7. OneEventPerShare'
  BY <1>6 DEF OneEventPerShare, Busy
<1> QED
  BY <1>1, <1>2, <1>7 DEF EventsInv

LEMMA SubmitKeepsEvents ==
    ASSUME EventsInv, NEW c \in Cores, Submit(c)
    PROVE  EventsInv'
<1>1. /\ pc[c] = "submit" /\ pc' = [pc EXCEPT ![c] = "call"]
      /\ UNCHANGED <<found, deferred, events>>
  BY DEF Submit, MinerGoto
<1>2. pc' \in [Cores -> {"mine", "submit", "call"}]
  BY <1>1 DEF EventsInv
<1>3. Busy' = Busy
  BY <1>1 DEF EventsInv, Busy
<1>4. OneEventPerShare'
  BY <1>1, <1>3 DEF EventsInv, OneEventPerShare, Busy
<1> QED
  BY <1>1, <1>2, <1>4 DEF EventsInv

LEMMA CallbackKeepsEvents ==
    ASSUME EventsInv, NEW c \in Cores, Callback(c)
    PROVE  EventsInv'
<1>1. /\ pc[c] = "call" /\ pc' = [pc EXCEPT ![c] = "mine"]
      /\ found' = found /\ deferred' = deferred + 1 /\ events' = events
  BY DEF Callback, MinerGoto
<1>2. pc' \in [Cores -> {"mine", "submit", "call"}]
  BY <1>1 DEF EventsInv
<1>3. Busy' = Busy \ {c} /\ c \in Busy
  BY <1>1 DEF EventsInv, Busy
<1>4. Cardinality(Busy') = Cardinality(Busy) - 1
  BY <1>3, BusyIsFinite, FS_RemoveElement
<1>5. found = events + deferred + Cardinality(Busy)
  BY DEF EventsInv, OneEventPerShare, Busy
<1>6. found' = events' + deferred' + Cardinality(Busy')
  BY <1>1, <1>4, <1>5, BusyIsFinite DEF EventsInv
<1>7. OneEventPerShare'
  BY <1>6 DEF OneEventPerShare, Busy
<1> QED
  BY <1>1, <1>2, <1>7 DEF EventsInv

\* With any number of miners a share that was counted has one event, told, queued or to
\* come, whoever of them finds, waits for a verdict or is deleted meanwhile
\* (mining.cpp:61-79, duco.cpp:138-143).
THEOREM EventsAreOfShares == EventsSpec => []OneEventPerShare
<1>1. EventsInit => EventsInv
  <2> SUFFICES ASSUME EventsInit PROVE EventsInv
    OBVIOUS
  <2>1. Busy = {}
    BY DEF EventsInit, Busy
  <2>2. Cardinality(Busy) = 0
    BY <2>1, FS_EmptySet
  <2>3. OneEventPerShare
    BY <2>2 DEF EventsInit, OneEventPerShare, Busy
  <2> QED
    BY <2>3 DEF EventsInit, EventsInv
<1>2. EventsInv /\ [EventsNext]_eventsVars => EventsInv'
  <2> SUFFICES ASSUME EventsInv, [EventsNext]_eventsVars PROVE EventsInv'
    OBVIOUS
  <2>1. ASSUME NEW c \in Cores, Miner(c) PROVE EventsInv'
    BY <2>1, FindKeepsEvents, SubmitKeepsEvents, CallbackKeepsEvents DEF Miner
  <2>2. CASE RunDeferred
    BY <2>2, BusyIsFinite DEF RunDeferred, EventsInv, OneEventPerShare, Busy
  <2>3. ASSUME NEW c \in Cores, Delete(c) PROVE EventsInv'
    BY <2>3 DEF Delete, EventsInv, OneEventPerShare
  <2>4. CASE UNCHANGED eventsVars
    BY <2>4 DEF eventsVars, EventsInv, OneEventPerShare
  <2> QED
    BY <2>1, <2>2, <2>3, <2>4 DEF EventsNext
<1>3. EventsInv => OneEventPerShare
  BY DEF EventsInv
<1> QED
  BY <1>1, <1>2, <1>3, PTL DEF EventsSpec

-----------------------------------------------------------------------------
(* The identity and the node *)

Places == {"idle", "user", "key", "worker", "identify", "withdraw"}

\* What a sync has assigned by the place it is at.
SyncedSoFar ==
    /\ sync \notin {"idle", "user"} => page.user = Blank \/ configuration.user = page.user
    /\ sync \in {"worker", "identify", "withdraw"} => configuration.key = page.key
    /\ sync = "identify" => changed /\ (page.worker = Blank \/ configuration.worker = page.worker)
    /\ sync = "withdraw" =>
        changed /\ (page.worker = Blank \/ configuration.worker = Identified(page).worker)

ConfigInv ==
    /\ yaml \in Names /\ page \in Names
    /\ sync \in Places /\ changed \in BOOLEAN /\ applied \in BOOLEAN
    /\ IF configuration = None THEN sync = "idle" /\ ~applied /\ ~node_ready
       ELSE /\ configuration \in Identities
            /\ configuration.worker = AutoName => sync = "identify"
    /\ SyncedSoFar
    /\ sync = "user" => ~changed
    /\ node_ready => HasIdentity /\ (leased = configuration \/ (sync # "idle" /\ changed))
    /\ PageIsApplied

LEMMA IdentifiedNames ==
    ASSUME NEW c \in [user : Users, key : Keys, worker : Workers \cup {ChipName}]
    PROVE  /\ Identified(c) \in Identities
           /\ Identified(c).user = c.user /\ Identified(c).key = c.key
           /\ Identified(c).worker = IF c.worker = AutoName THEN ChipName ELSE c.worker
           /\ Identified(c).worker # AutoName
<1>1. CASE c.worker = AutoName
  <2>1. Identified(c) = [c EXCEPT !.worker = ChipName]
    BY <1>1 DEF Identified
  <2> QED
    BY <1>1, <2>1, NamesAssumption DEF Identities
<1>2. CASE c.worker # AutoName
  <2>1. Identified(c) = c
    BY <1>2 DEF Identified
  <2> QED
    BY <1>2, <2>1 DEF Identities
<1> QED
  BY <1>1, <1>2

\* A name of the page or of the YAML configuration can be in use.
LEMMA NamesAreIdentities == Names \subseteq Identities
  BY DEF Names, Identities

\* An assignment of one field leaves an identity.
LEMMA AssignedIdentity ==
    ASSUME NEW c \in Identities, NEW u \in Users, NEW k \in Keys, NEW w \in Workers \cup {ChipName}
    PROVE  /\ [c EXCEPT !.user = u] \in Identities /\ [c EXCEPT !.user = u].user = u
           /\ [c EXCEPT !.user = u].key = c.key /\ [c EXCEPT !.user = u].worker = c.worker
           /\ [c EXCEPT !.key = k] \in Identities /\ [c EXCEPT !.key = k].key = k
           /\ [c EXCEPT !.key = k].user = c.user /\ [c EXCEPT !.key = k].worker = c.worker
           /\ [c EXCEPT !.worker = w] \in Identities /\ [c EXCEPT !.worker = w].worker = w
           /\ [c EXCEPT !.worker = w].user = c.user /\ [c EXCEPT !.worker = w].key = c.key
  BY DEF Identities

LEMMA InUse ==
    ConfigInv /\ sync # "idle" => configuration # None /\ configuration \in Identities
  BY DEF ConfigInv

LEMMA SyncBeginsKeeps ==
    ASSUME ConfigInv, SyncBegins, page' \in Names,
           UNCHANGED <<yaml, configuration, applied, node_ready, leased>>
    PROVE  ConfigInv'
<1>1. CASE configuration = None
  BY <1>1 DEF SyncBegins, ConfigInv, SyncedSoFar, PageIsApplied, HasIdentity
<1>2. CASE configuration # None
  <2>1. sync = "idle" /\ sync' = "user" /\ changed' = FALSE
    BY <1>2 DEF SyncBegins
  <2>2. SyncedSoFar' /\ PageIsApplied'
    BY <2>1 DEF SyncedSoFar, PageIsApplied
  <2>3. (node_ready => HasIdentity /\ (leased = configuration \/ (sync # "idle" /\ changed)))'
    BY <2>1 DEF ConfigInv, HasIdentity
  <2> QED
    BY <1>2, <2>1, <2>2, <2>3 DEF ConfigInv, Places
<1> QED
  BY <1>1, <1>2

LEMMA SyncUserKeeps == ConfigInv /\ SyncUser => ConfigInv'
<1> SUFFICES ASSUME ConfigInv, SyncUser PROVE ConfigInv'
  OBVIOUS
<1> DEFINE u == IF page.user # Blank THEN page.user ELSE configuration.user
<1>1. sync = "user" /\ sync' = "key" /\ configuration # None /\ configuration \in Identities
  BY InUse DEF SyncUser
<1>2. configuration' = [configuration EXCEPT !.user = u]
  BY <1>1 DEF SyncUser
<1>3. u \in Users /\ (page.user = Blank \/ u = page.user) /\ (u = Blank => configuration.user = Blank)
  BY <1>1 DEF ConfigInv, Names, Identities
<1> HIDE DEF u
<1>4. /\ configuration' \in Identities /\ configuration'.user = u
      /\ configuration'.key = configuration.key /\ configuration'.worker = configuration.worker
  BY <1>1, <1>2, <1>3, NamesAssumption, AssignedIdentity DEF Identities, ConfigInv, Names
<1>5. configuration' # None
  BY <1>4, NamesAssumption
<1>6. changed' \in BOOLEAN /\ (changed' \/ configuration' = configuration)
  BY DEF SyncUser
<1>7. (node_ready => HasIdentity /\ (leased = configuration \/ (sync # "idle" /\ changed)))'
  BY <1>1, <1>3, <1>4, <1>5, <1>6 DEF SyncUser, ConfigInv, HasIdentity
<1>8. SyncedSoFar' /\ PageIsApplied'
  BY <1>1, <1>3, <1>4 DEF SyncUser, SyncedSoFar, PageIsApplied
<1> QED
  BY <1>1, <1>4, <1>5, <1>6, <1>7, <1>8 DEF SyncUser, ConfigInv, Places

LEMMA SyncKeyKeeps == ConfigInv /\ SyncKey => ConfigInv'
<1> SUFFICES ASSUME ConfigInv, SyncKey PROVE ConfigInv'
  OBVIOUS
<1>1. sync = "key" /\ sync' = "worker" /\ configuration # None /\ configuration \in Identities
  BY InUse DEF SyncKey
<1>2. configuration' = [configuration EXCEPT !.key = page.key] /\ page.key \in Keys
  BY <1>1 DEF SyncKey, ConfigInv, Names
<1>3. /\ configuration' \in Identities /\ configuration'.key = page.key
      /\ configuration'.user = configuration.user /\ configuration'.worker = configuration.worker
  BY <1>1, <1>2, NamesAssumption, AssignedIdentity DEF Identities
<1>4. configuration' # None
  BY <1>3, NamesAssumption
<1>5. changed' \in BOOLEAN /\ (changed => changed') /\ (changed' \/ configuration' = configuration)
  BY DEF SyncKey, ConfigInv
<1>6. (node_ready => HasIdentity /\ (leased = configuration \/ (sync # "idle" /\ changed)))'
  BY <1>1, <1>3, <1>4, <1>5 DEF SyncKey, ConfigInv, HasIdentity
<1>7. SyncedSoFar' /\ PageIsApplied'
  BY <1>1, <1>3 DEF SyncKey, ConfigInv, SyncedSoFar, PageIsApplied
<1> QED
  BY <1>1, <1>3, <1>4, <1>5, <1>6, <1>7 DEF SyncKey, ConfigInv, Places

\* A sync without a change ends with the page's name in use, which is then not "Auto".
LEMMA SyncWorkerKeeps == ConfigInv /\ SyncWorker => ConfigInv'
<1> SUFFICES ASSUME ConfigInv, SyncWorker PROVE ConfigInv'
  OBVIOUS
<1> DEFINE w == IF page.worker # Blank THEN page.worker ELSE configuration.worker
<1>1. sync = "worker" /\ configuration # None /\ configuration \in Identities
  BY InUse DEF SyncWorker
<1>2. configuration' = [configuration EXCEPT !.worker = w]
  BY <1>1 DEF SyncWorker
<1>3. /\ w \in Workers \cup {ChipName} /\ (page.worker = Blank \/ w = page.worker)
      /\ w = Blank => configuration.worker = Blank
  BY <1>1 DEF ConfigInv, Names, Identities
<1> HIDE DEF w
<1>4. /\ configuration' \in Identities /\ configuration'.worker = w
      /\ configuration'.user = configuration.user /\ configuration'.key = configuration.key
  BY <1>1, <1>2, <1>3, NamesAssumption, AssignedIdentity DEF Identities, ConfigInv, Names
<1>5. configuration' # None
  BY <1>4, NamesAssumption
<1>6. changed' \in BOOLEAN /\ (changed => changed') /\ (changed' \/ configuration' = configuration)
  BY DEF SyncWorker, ConfigInv
<1>7. /\ page.user = Blank \/ configuration'.user = page.user
      /\ configuration'.key = page.key
      /\ page.worker = Blank \/ configuration'.worker = page.worker
  BY <1>1, <1>3, <1>4 DEF ConfigInv, SyncedSoFar
<1>8. CASE changed'
  <2>1. sync' = "identify" /\ applied' = applied
    BY <1>8 DEF SyncWorker, ConfigInv
  <2>2. (node_ready => HasIdentity /\ (leased = configuration \/ (sync # "idle" /\ changed)))'
    BY <1>3, <1>4, <1>5, <1>8, <2>1 DEF SyncWorker, ConfigInv, HasIdentity
  <2>3. SyncedSoFar' /\ PageIsApplied'
    BY <1>7, <1>8, <2>1 DEF SyncWorker, SyncedSoFar, PageIsApplied
  <2> QED
    BY <1>4, <1>5, <1>6, <2>1, <2>2, <2>3 DEF SyncWorker, ConfigInv, Places
<1>9. CASE ~changed'
  <2>1. sync' = "idle" /\ configuration' = configuration /\ ~changed
    BY <1>6, <1>9 DEF SyncWorker
  <2>2. configuration'.worker # AutoName
    BY <1>1, <2>1 DEF ConfigInv
  <2>3. (node_ready => HasIdentity /\ (leased = configuration \/ (sync # "idle" /\ changed)))'
    BY <2>1 DEF SyncWorker, ConfigInv, HasIdentity
  <2>4. page.worker = Blank \/ (page.worker # AutoName /\ Identified(page).worker = page.worker)
    BY <1>7, <2>2 DEF Identified
  <2>5. SyncedSoFar' /\ PageIsApplied'
    <3>1. page' = page
      BY DEF SyncWorker
    <3>2. Identified(page)' = Identified(page)
      BY <3>1 DEF Identified
    <3> QED
      BY <1>7, <2>1, <2>4, <3>1, <3>2 DEF SyncedSoFar, PageIsApplied
  <2> QED
    BY <1>4, <1>5, <1>6, <1>9, <2>1, <2>2, <2>3, <2>5 DEF SyncWorker, ConfigInv, Places
<1> QED
  BY <1>8, <1>9

LEMMA SyncIdentifiesKeeps == ConfigInv /\ SyncIdentifies => ConfigInv'
<1> SUFFICES ASSUME ConfigInv, SyncIdentifies PROVE ConfigInv'
  OBVIOUS
<1>1. /\ sync = "identify" /\ sync' = "withdraw" /\ configuration' = Identified(configuration)
      /\ UNCHANGED <<yaml, page, changed, applied, booted, node_ready, leased>>
  BY DEF SyncIdentifies
<1>2. configuration # None /\ configuration \in Identities
  BY <1>1, InUse
<1>3. /\ configuration' \in Identities
      /\ configuration'.user = configuration.user /\ configuration'.key = configuration.key
      /\ configuration'.worker = IF configuration.worker = AutoName THEN ChipName ELSE configuration.worker
      /\ configuration'.worker # AutoName
  BY <1>1, <1>2, IdentifiedNames DEF Identities
<1>4. configuration' # None
  BY <1>3, NamesAssumption
<1>5. Identified(page).worker = IF page.worker = AutoName THEN ChipName ELSE page.worker
  BY IdentifiedNames, NamesAreIdentities DEF ConfigInv, Identities
<1>6. changed /\ (page.worker = Blank \/ configuration.worker = page.worker)
  BY <1>1 DEF ConfigInv, SyncedSoFar
<1>7. page.worker = Blank \/ configuration'.worker = Identified(page).worker
  BY <1>3, <1>5, <1>6
<1>8. Identified(page)' = Identified(page)
  BY <1>1 DEF Identified
<1>9. SyncedSoFar' /\ PageIsApplied'
  BY <1>1, <1>3, <1>6, <1>7, <1>8 DEF ConfigInv, SyncedSoFar, PageIsApplied
<1>10. (node_ready => HasIdentity /\ (leased = configuration \/ (sync # "idle" /\ changed)))'
  BY <1>1, <1>3, <1>4, <1>6, NamesAssumption DEF ConfigInv, HasIdentity
<1> QED
  BY <1>1, <1>3, <1>4, <1>9, <1>10 DEF ConfigInv, Places

LEMMA SyncWithdrawsKeeps == ConfigInv /\ SyncWithdraws => ConfigInv'
<1> SUFFICES ASSUME ConfigInv, SyncWithdraws PROVE ConfigInv'
  OBVIOUS
<1>1. /\ sync = "withdraw" /\ sync' = "idle" /\ applied' = TRUE /\ node_ready' = FALSE
      /\ UNCHANGED <<yaml, page, configuration, changed, booted, leased>>
  BY DEF SyncWithdraws
<1>2. configuration # None
  BY <1>1, InUse
<1>3. Identified(page)' = Identified(page)
  BY <1>1 DEF Identified
<1>4. SyncedSoFar' /\ PageIsApplied'
  BY <1>1, <1>3 DEF ConfigInv, SyncedSoFar, PageIsApplied
<1> QED
  BY <1>1, <1>2, <1>4 DEF ConfigInv, Places

LEMMA ConfigInductive == WebSpec => []ConfigInv
<1>1. WebInit => ConfigInv
  <2> SUFFICES ASSUME WebInit PROVE ConfigInv
    OBVIOUS
  <2>1. page \in Names
    BY NamesAssumption DEF WebInit, Empty, Names
  <2> QED
    BY <2>1 DEF WebInit, ConfigInv, SyncedSoFar, PageIsApplied, Places
<1>2. ConfigInv /\ [WebNext]_webVars => ConfigInv'
  <2> SUFFICES ASSUME ConfigInv, [WebNext]_webVars PROVE ConfigInv'
    OBVIOUS
  <2>1. CASE Setup
    <3>1. configuration' = Identified(yaml)
      BY <2>1 DEF Setup
    <3>2. configuration' \in Identities /\ configuration'.worker # AutoName
      BY <3>1, IdentifiedNames, NamesAreIdentities DEF ConfigInv, Identities
    <3>3. sync = "idle" /\ ~node_ready /\ ~applied
      BY <2>1 DEF Setup, ConfigInv
    <3> QED
      BY <2>1, <3>2, <3>3, NamesAssumption
      DEF Setup, syncVars, ConfigInv, SyncedSoFar, PageIsApplied
  <2>2. CASE BootSync
    <3>1. page' \in Names
      BY <2>2 DEF BootSync, ConfigInv
    <3> QED
      BY <2>2, <3>1, SyncBeginsKeeps DEF BootSync
  <2>3. ASSUME NEW p \in Names, Edit(p) PROVE ConfigInv'
    BY <2>3, SyncBeginsKeeps DEF Edit
  <2>4. CASE FetchNode
    <3>1. Identified(page)' = Identified(page)
      BY <2>4 DEF FetchNode, Identified
    <3> QED
      BY <2>4, <3>1
      DEF FetchNode, syncVars, ConfigInv, SyncedSoFar, PageIsApplied, HasIdentity
  <2>5. CASE WithdrawNode
    <3>1. Identified(page)' = Identified(page)
      BY <2>5 DEF WithdrawNode, Identified
    <3> QED
      BY <2>5, <3>1
      DEF WithdrawNode, syncVars, ConfigInv, SyncedSoFar, PageIsApplied, HasIdentity
  <2>6. CASE Reboot
    BY <2>6 DEF Reboot, ConfigInv, SyncedSoFar, PageIsApplied, Places
  <2>7. CASE UNCHANGED webVars
    <3>1. Identified(page)' = Identified(page)
      BY <2>7 DEF webVars, Identified
    <3> QED
      BY <2>7, <3>1
      DEF webVars, syncVars, ConfigInv, SyncedSoFar, PageIsApplied, HasIdentity
  <2> QED
    BY <2>1, <2>2, <2>3, <2>4, <2>5, <2>6, <2>7, SyncUserKeeps, SyncKeyKeeps, SyncWorkerKeeps,
       SyncIdentifiesKeeps, SyncWithdrawsKeeps DEF WebNext
<1> QED
  BY <1>1, <1>2, PTL DEF WebSpec

\* Once a sync has been carried out, every field the page fills is in use outside of a
\* sync, whatever is edited later.  Nothing is said of a page whose only sync came before
\* setup(): it was dropped (duco.cpp:68-103).
THEOREM PageReachesPool == WebSpec => []PageIsApplied
  BY ConfigInductive, PTL DEF ConfigInv

\* A node on offer is of the identity in use, except between the first change of a sync
\* and its end, when the node is withdrawn; and the name "Auto" is in use only there
\* (duco.cpp:75-103).
THEOREM NodeFollowsIdentity == WebSpec => []NodeIsForIdentity
<1>1. ConfigInv => NodeIsForIdentity
  BY DEF ConfigInv, NodeIsForIdentity
<1> QED
  BY <1>1, ConfigInductive, PTL

================================================================================
