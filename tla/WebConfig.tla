------------------------------ MODULE WebConfig ------------------------------
(***************************************************************************)
(* Where the miner's identity comes from: the YAML configuration, the text *)
(* fields of the web page (packages/configuration.yaml), which outlive a   *)
(* reboot, and the chip (duco.cpp:16-28,67-104,131-136).  All of it runs   *)
(* in the main loop, one call at a time; but the tasks of the ESP32 go on  *)
(* meanwhile, so that a sync is as many steps as it has assignments.       *)
(***************************************************************************)
CONSTANTS
    Blank, AutoName, ChipName,   \* "", "Auto", and DUCO_CHIP-chip_id
    Users, Keys, Workers,    \* what may be typed or configured, Blank included
    None

Names == [user : Users, key : Keys, worker : Workers]
Identities == [user : Users, key : Keys, worker : Workers \cup {ChipName}]

ASSUME NamesAssumption ==
    /\ Blank # AutoName /\ ChipName \notin {Blank, AutoName}
    /\ Blank \in Users \cap Keys \cap Workers
    /\ None \notin Identities

VARIABLES
    yaml,              \* username, key and name of the configuration
    page,              \* the states of the three text fields
    configuration,     \* DUCO_USER, MINER_KEY and RIG_IDENTIFIER; None: not yet created
    sync,              \* the place in sync_web_config(); "idle": outside of it
    changed,           \* its local variable
    booted,            \* on_boot's call, after 5 s, is made
    applied,           \* since setup(), a sync has been carried out
    node_ready,        \* is_ready of the config
    leased             \* the configuration when the node was fetched

syncVars == <<sync, changed, applied>>
webVars == <<yaml, page, configuration, syncVars, booted, node_ready, leased>>

Empty == [user |-> Blank, key |-> Blank, worker |-> Blank]

WebInit ==
    /\ yaml \in Names
    /\ page = Empty
    /\ sync = "idle" /\ changed = FALSE /\ applied = FALSE /\ booted = FALSE
    /\ configuration = None /\ node_ready = FALSE /\ leased = None

-----------------------------------------------------------------------------
(* sync_web_config() *)

\* generate_identifier()
Identified(c) == IF c.worker = AutoName THEN [c EXCEPT !.worker = ChipName] ELSE c

\* A call before setup() is without effect.
SyncBegins ==
    /\ sync = "idle"
    /\ IF configuration = None THEN UNCHANGED <<sync, changed>>
       ELSE sync' = "user" /\ changed' = FALSE

\* A blank user or worker is no change; a blank key is.
SyncUser ==
    /\ sync = "user"
    /\ sync' = "key"
    /\ configuration' = [configuration EXCEPT !.user = IF page.user # Blank THEN page.user ELSE @]
    /\ changed' = (configuration' # configuration)
    /\ UNCHANGED <<yaml, page, applied, booted, node_ready, leased>>

\* Seeded fault: a new key does not count as a change.
SyncKeyKeepsNode ==
    /\ sync = "key"
    /\ sync' = "worker"
    /\ configuration' = [configuration EXCEPT !.key = page.key]
    /\ UNCHANGED <<changed, yaml, page, applied, booted, node_ready, leased>>

SyncKey ==
    /\ sync = "key"
    /\ sync' = "worker"
    /\ configuration' = [configuration EXCEPT !.key = page.key]
    /\ changed' = (changed \/ configuration' # configuration)
    /\ UNCHANGED <<yaml, page, applied, booted, node_ready, leased>>

\* The last field; without a change the sync ends here.
SyncWorker ==
    /\ sync = "worker"
    /\ configuration' = [configuration EXCEPT !.worker = IF page.worker # Blank THEN page.worker ELSE @]
    /\ changed' = (changed \/ configuration' # configuration)
    /\ sync' = IF changed' THEN "identify" ELSE "idle"
    /\ applied' = (applied \/ ~changed')
    /\ UNCHANGED <<yaml, page, booted, node_ready, leased>>

\* Seeded fault: the name "Auto" of the page is not replaced.
SyncKeepsAuto ==
    /\ sync = "identify"
    /\ sync' = "withdraw"
    /\ UNCHANGED <<configuration, yaml, page, changed, applied, booted, node_ready, leased>>

SyncIdentifies ==
    /\ sync = "identify"
    /\ sync' = "withdraw"
    /\ configuration' = Identified(configuration)
    /\ UNCHANGED <<yaml, page, changed, applied, booted, node_ready, leased>>

SyncWithdraws ==
    /\ sync = "withdraw"
    /\ sync' = "idle" /\ applied' = TRUE /\ node_ready' = FALSE
    /\ UNCHANGED <<yaml, page, configuration, changed, booted, leased>>

-----------------------------------------------------------------------------
(* The main loop *)

\* setup()
Setup ==
    /\ configuration = None
    /\ configuration' = Identified(yaml)
    /\ UNCHANGED <<yaml, page, syncVars, booted, node_ready, leased>>

\* packages/configuration.yaml, on_boot: once, after a delay, whether setup(), which comes
\* last of all components, has run by then or not.
BootSync ==
    /\ ~booted
    /\ booted' = TRUE
    /\ SyncBegins
    /\ UNCHANGED <<yaml, page, configuration, applied, node_ready, leased>>

\* on_value of a text field, all three states being handed over.  (A field that is
\* restored at boot is so before setup().)
Edit(p) ==
    /\ \/ p.user \in Users /\ p.key = page.key /\ p.worker = page.worker
       \/ p.user = page.user /\ p.key \in Keys /\ p.worker = page.worker
       \/ p.user = page.user /\ p.key = page.key /\ p.worker \in Workers
    /\ page' = p
    /\ SyncBegins
    /\ UNCHANGED <<yaml, configuration, applied, booted, node_ready, leased>>

HasIdentity == configuration # None /\ configuration.user # Blank /\ configuration.worker # Blank

\* loop(): a node is fetched.
FetchNode ==
    /\ sync = "idle" /\ HasIdentity /\ ~node_ready
    /\ node_ready' = TRUE /\ leased' = configuration
    /\ UNCHANGED <<yaml, page, configuration, syncVars, booted>>

\* loop() without a network, and at any time a miner whose link fails.
WithdrawNode ==
    /\ node_ready
    /\ node_ready' = FALSE
    /\ UNCHANGED <<yaml, page, configuration, syncVars, booted, leased>>

\* The page keeps its fields, for they are saved.
Reboot ==
    /\ sync' = "idle" /\ changed' = FALSE /\ applied' = FALSE /\ booted' = FALSE
    /\ configuration' = None /\ node_ready' = FALSE /\ leased' = None
    /\ UNCHANGED <<yaml, page>>

WebNext ==
    \/ Setup \/ BootSync \/ (\E p \in Names : Edit(p))
    \/ SyncUser \/ SyncKey \/ SyncWorker \/ SyncIdentifies \/ SyncWithdraws
    \/ FetchNode \/ WithdrawNode \/ Reboot

WebSpec == WebInit /\ [][WebNext]_webVars

-----------------------------------------------------------------------------
(* Properties *)

\* After a sync the fields of the page that are not blank are in use, "Auto" as the chip's
\* name, and stay so through whatever is edited later (duco.cpp:75-103).  A sync before
\* setup() leaves no trace; from then to the next edit the page may show what is not in
\* use (duco.cpp:69-72).
PageIsApplied ==
    applied /\ sync = "idle" =>
        /\ page.user # Blank => configuration.user = page.user
        /\ page.key # Blank => configuration.key = page.key
        /\ page.worker # Blank => configuration.worker = Identified(page).worker

\* A node on offer was fetched for the identity in use, or the main loop is in the sync
\* that exchanges the identity and will withdraw the node at its end.  Until it does, a
\* miner may take the node with the new identity, or with parts of it, and with the name
\* "Auto" (duco.cpp:75-102; duco_esp32.cpp:27-33).
NodeIsForIdentity ==
    /\ node_ready => HasIdentity /\ (leased = configuration \/ (sync # "idle" /\ changed))
    /\ configuration # None /\ configuration.worker = AutoName => sync = "identify"

\* docs/duco-component.md:56: the key of the configuration is the mining key; here, of a
\* device whose page nobody has touched.
ConfiguredKeyIsUsed ==
    configuration # None /\ page = Empty => configuration.key = yaml.key

===============================================================================
