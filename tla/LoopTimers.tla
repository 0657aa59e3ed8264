------------------------------ MODULE LoopTimers ------------------------------
(***************************************************************************)
(* The timers of loop() (duco_esp32.cpp:19-49, duco_esp8266.cpp:17-51):    *)
(* what is due every UPDATE_INTERVAL or CHECK_INTERVAL is told by stamps   *)
(* of millis(), which goes round after 49 days, and two of the three       *)
(* stamps take 0 for "never".  Time is true time; millis() is its rest.    *)
(*                                                                         *)
(* The ESP8266 mines inside of loop(), between the reading of the clock    *)
(* and the fetch that is stamped with it; the ESP32 takes no time there.   *)
(***************************************************************************)
EXTENDS Integers

CONSTANTS
    Millis,            \* the values of millis(): 2^32
    CHECK_INTERVAL,    \* 60000
    UPDATE_INTERVAL,   \* 15000
    Gap,               \* the longest time from one pass of loop() to the next
    MineTime,          \* the longest time mine() takes in a pass; 0 on the ESP32
    Horizon            \* bound: time is followed no further

ASSUME TimersAssumption ==
    /\ Millis \in Nat \ {0} /\ Gap \in Nat /\ MineTime \in Nat /\ Horizon \in Nat
    /\ UPDATE_INTERVAL \in Nat \ {0} /\ CHECK_INTERVAL \in Nat \ {0}
    /\ UPDATE_INTERVAL <= CHECK_INTERVAL
    /\ CHECK_INTERVAL + Gap + MineTime <= Millis

VARIABLES
    pass, now,              \* when the last pass began, and ended
    is_ready,               \* of the config
    last_fetch_time_, last_check_time_, last_sensor_update_,
    checked, fetched, updated,   \* when it was last done, in true time; a check at boot
    stamped,                \* when the pass of the last fetch began
    online,                 \* since when every pass found a network and an identity
    needy                   \* since when every pass also found no node

Never == -1

stamps == <<last_fetch_time_, last_check_time_, last_sensor_update_>>
timersVars == <<pass, now, is_ready, stamps, checked, fetched, updated, stamped, online, needy>>

TimersInit ==
    /\ pass = 0 /\ now = 0
    /\ is_ready = FALSE
    /\ last_fetch_time_ = 0 /\ last_check_time_ = 0 /\ last_sensor_update_ = 0
    /\ checked = 0 /\ fetched = Never /\ updated = Never /\ stamped = Never
    /\ online = Never /\ needy = Never

millis(t) == t % Millis

\* The difference of two stamps, in 32 bits.
Since(t, stamp) == (millis(t) - stamp) % Millis

-----------------------------------------------------------------------------
(* The parts of a pass that begins at t *)

UpdateSensors(t) ==
    IF last_sensor_update_ = 0 \/ Since(t, last_sensor_update_) >= UPDATE_INTERVAL
    THEN last_sensor_update_' = millis(t) /\ updated' = t
    ELSE UNCHANGED <<last_sensor_update_, updated>>

\* Seeded fault: stamps are compared where their difference should be.
CheckSum(t) ==
    IF millis(t) >= last_check_time_ + CHECK_INTERVAL
    THEN last_check_time_' = millis(t) /\ checked' = t
    ELSE UNCHANGED <<last_check_time_, checked>>

\* check_for_problem()
Check(t) ==
    IF Since(t, last_check_time_) >= CHECK_INTERVAL
    THEN last_check_time_' = millis(t) /\ checked' = t
    ELSE UNCHANGED <<last_check_time_, checked>>

FetchDue(t) == last_fetch_time_ = 0 \/ Since(t, last_fetch_time_) >= CHECK_INTERVAL

\* Seeded fault: a fetch that fails is not stamped.
FetchStampsSuccess(t, at) ==
    /\ FetchDue(t)
    /\ is_ready' \in BOOLEAN
    /\ last_fetch_time_' = IF is_ready' THEN millis(t) ELSE last_fetch_time_
    /\ fetched' = at /\ stamped' = t

\* A node is fetched at `at`, with the stamp of t.
Fetch(t, at) ==
    /\ FetchDue(t)
    /\ last_fetch_time_' = millis(t) /\ fetched' = at /\ stamped' = t
    /\ is_ready' \in BOOLEAN

\* There is no node, and the last fetch is not long ago.
FetchNot(t) ==
    /\ ~FetchDue(t)
    /\ is_ready' = FALSE
    /\ UNCHANGED <<last_fetch_time_, fetched, stamped>>

-----------------------------------------------------------------------------
(* loop() *)

Lasts(t, end) == t \in now .. now + Gap /\ end <= Horizon /\ pass' = t /\ now' = end

\* No network, or no identity: the node is withdrawn, and nothing else looked at.
PassOffline(t) ==
    /\ Lasts(t, t)
    /\ UpdateSensors(t)
    /\ is_ready' = FALSE
    /\ online' = Never /\ needy' = Never
    /\ UNCHANGED <<last_check_time_, checked, last_fetch_time_, fetched, stamped>>

StaysOnline(t) == online' = IF online = Never THEN t ELSE online

\* A node is there, and there after mine() too.
PassReady(t, end) ==
    /\ Lasts(t, end)
    /\ UpdateSensors(t) /\ Check(t)
    /\ is_ready
    /\ StaysOnline(t) /\ needy' = Never
    /\ UNCHANGED <<is_ready, last_fetch_time_, fetched, stamped>>

\* Without a node, or mine() has withdrawn it (ESP8266).
PassUnready(t, end) ==
    /\ Lasts(t, end)
    /\ UpdateSensors(t) /\ Check(t)
    /\ is_ready \/ end = t
    /\ Fetch(t, end) \/ FetchNot(t)
    /\ StaysOnline(t)
    /\ needy' = IF is_ready' THEN Never ELSE IF needy = Never THEN t ELSE needy

\* The web page, and the ESP32's tasks.
Withdraw == is_ready' = FALSE /\ UNCHANGED <<pass, now, stamps, checked, fetched, updated, stamped, online, needy>>

TimersNext ==
    \/ Withdraw
    \/ \E t \in now .. now + Gap :
          \/ PassOffline(t)
          \/ \E end \in t .. t + MineTime : PassReady(t, end) \/ PassUnready(t, end)

TimersSpec == TimersInit /\ [][TimersNext]_timersVars

-----------------------------------------------------------------------------
(* Properties *)

\* The poolpicker is asked at most once in CHECK_INTERVAL, but for the time mine()
\* takes with the clock already read on the ESP8266 (duco_esp8266.cpp:33-49), and for
\* a fetch in the one millisecond whose stamp says "never" (duco_esp32.cpp:44).
FetchesAreSpaced ==
    [][fetched' # fetched =>
          \/ fetched = Never \/ millis(stamped) = 0
          \/ fetched' - fetched >= CHECK_INTERVAL - MineTime]_timersVars

\* Miners are looked at for problems at least once in CHECK_INTERVAL of passes with a
\* network, also when the clock goes round, and also after an outage so long that
\* the stamp of the last check looks new (duco_esp32.cpp:35-39).
ChecksAreDue ==
    online # Never /\ pass - online >= CHECK_INTERVAL => pass - checked < CHECK_INTERVAL

\* As long as there is no node, one is asked for once in CHECK_INTERVAL, also when the
\* last fetch is so long ago that its stamp looks new (duco_esp32.cpp:41-48).
FetchesAreDue ==
    needy # Never /\ pass - needy >= CHECK_INTERVAL =>
        pass - fetched < CHECK_INTERVAL /\ fetched # Never

\* The sensors are never older than UPDATE_INTERVAL after a pass (duco_esp32.cpp:296).
SensorsAreFresh == updated # Never => pass - updated < UPDATE_INTERVAL

\* What loop() does by its stamps is done in time, whatever the clock shows
\* (duco_esp32.cpp:19-49,296).
TimersAreDue == ChecksAreDue /\ FetchesAreDue /\ SensorsAreFresh

===============================================================================
