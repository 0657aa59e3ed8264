----------------------------- MODULE MCWebConfig -----------------------------
(* WebConfig for TLC: two users, a key, and a name besides "Auto". *)
EXTENDS WebConfig
CONSTANTS userA, userB, keyA, nameA

SomeUsers == {Blank, userA, userB}
SomeKeys == {Blank, keyA}
SomeWorkers == {Blank, AutoName, nameA}

==============================================================================
