------------------------------ MODULE JobRequest ------------------------------
(***************************************************************************)
(* The request for a job, with the readings it carries for the Duino IoT   *)
(* (mining_esp32.cpp:197-235, mining_esp8266.cpp:141-179,                  *)
(* duco.cpp:107-128).  A text is a sequence of words and separators; how a *)
(* reading is formatted is left out.                                       *)
(***************************************************************************)
EXTENDS Naturals, Sequences, FiniteSets, SequencesExt

CONSTANTS
    UseSensor,       \* USE_SENSOR: the readings are compiled in
    AddVersion       \* DUCO_ADD_ESPHOME_VERSION: the option `esphome` is on

VARIABLES
    reading,    \* of each kind of sensor: has_state()
    known,      \* DUCO_USER and MINER_KEY, blank or not
    request     \* the request sent last

requestVars == <<reading, known, request>>

Kinds == <<"Temp", "Hum", "CPU">>
KindSet == Range(Kinds)

SEP_TOKEN == ","
IOT_TOKEN == "@"
END_TOKEN == "newline"

-----------------------------------------------------------------------------
(* askForJob() *)

Head4 ==
    <<"JOB", SEP_TOKEN>> \o (IF known.user THEN <<"user">> ELSE <<>>)
    \o <<SEP_TOKEN, "diff", SEP_TOKEN>> \o (IF known.key THEN <<"key">> ELSE <<>>)

\* The separator before something that follows the readings ks.
Before(ks) == IF \E k \in ks : reading[k] THEN <<IOT_TOKEN>> ELSE <<SEP_TOKEN>>

\* Seeded fault: only the reading just before is looked at.
WithReadingsLast(text) ==
    FoldLeftDomain(LAMBDA job_req, n :
                       IF ~reading[Kinds[n]] THEN job_req
                       ELSE job_req \o Before(IF n = 1 THEN {} ELSE {Kinds[n - 1]}) \o <<Kinds[n]>>,
                   text, Kinds)

\* get_temperature_string(), get_humidity_string() and get_cputemp_string(), in order.
WithReadings(text) ==
    FoldLeftDomain(LAMBDA job_req, n :
                       IF ~reading[Kinds[n]] THEN job_req
                       ELSE job_req \o Before({Kinds[m] : m \in 1 .. n - 1}) \o <<Kinds[n]>>,
                   text, Kinds)

\* job_req += job_req += separator: the inner one is done first, and its result is added
\* to itself.
WithVersion(text) ==
    LET job_req == text \o Before(KindSet) IN job_req \o job_req \o <<"ESPHome">>

Request ==
    (IF UseSensor
     THEN IF AddVersion THEN WithVersion(WithReadings(Head4)) ELSE WithReadings(Head4)
     ELSE IF AddVersion THEN Head4 \o <<SEP_TOKEN, "ESPHome">> ELSE Head4)
    \o <<END_TOKEN>>

RequestInit ==
    /\ reading = [k \in KindSet |-> FALSE]
    /\ known \in [user : BOOLEAN, key : BOOLEAN]
    /\ request = <<>>

\* A sensor publishes its first state.
Publish(k) == reading' = [reading EXCEPT ![k] = TRUE] /\ UNCHANGED <<known, request>>

\* The web page is synced; it clears a key, but no user.
PageSync(key) ==
    /\ known' = [user |-> TRUE, key |-> key]
    /\ UNCHANGED <<reading, request>>

Ask == request' = Request /\ UNCHANGED <<reading, known>>

RequestNext == Ask \/ (\E k \in KindSet : Publish(k)) \/ (\E key \in BOOLEAN : PageSync(key))

RequestSpec == RequestInit /\ [][RequestNext]_requestVars

-----------------------------------------------------------------------------
(* Properties *)

\* Where text has the separator sep, from 0 to the place after its end.
Cuts(text, sep) ==
    LET places == {0, Len(text) + 1} \cup {n \in 1 .. Len(text) : text[n] = sep}
    IN  [n \in 1 .. Cardinality(places) |->
            CHOOSE place \in places : Cardinality({p \in places : p < place}) = n - 1]

\* The parts of text between the separators.
Split(text, sep) ==
    LET cuts == Cuts(text, sep)
    IN  [n \in 1 .. Len(cuts) - 1 |-> SubSeq(text, cuts[n] + 1, cuts[n + 1] - 1)]

\* What the pool is to find in the fifth field: the readings there are, in their order,
\* and the version.
Iot ==
    (IF UseSensor THEN SelectSeq(Kinds, LAMBDA k : reading[k]) ELSE <<>>)
    \o (IF AddVersion THEN <<"ESPHome">> ELSE <<>>)

\* Asked at its separators, a request is one command of four fields, and of a fifth only
\* if there is something to tell, whichever sensors have no state
\* (mining_esp32.cpp:206-222).
AskedFor(text) ==
    LET fields == Split(Front(text), SEP_TOKEN)
    IN  /\ Last(text) = END_TOKEN
        /\ SubSeq(fields, 1, 4) = <<<<"JOB">>, IF known.user THEN <<"user">> ELSE <<>>,
                                    <<"diff">>, IF known.key THEN <<"key">> ELSE <<>>>>
        /\ Len(fields) = IF Iot = <<>> THEN 4 ELSE 5
        /\ Iot # <<>> => Split(fields[5], IOT_TOKEN) = [n \in 1 .. Len(Iot) |-> <<Iot[n]>>]

ReadingsReadBack == [][request' # request => AskedFor(request')]_requestVars

\* docs/duco-component.md:66: the option adds the version to what is transmitted; the
\* request stays one that the pool can take apart (mining_esp32.cpp:223-226).
VersionIsAdded == [][request' # request /\ AddVersion => AskedFor(request')]_requestVars

===============================================================================
