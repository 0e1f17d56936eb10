------------------------------ MODULE KeyStore ------------------------------
(***************************************************************************)
(* What the EEPROM database promises its callers: a map from keys to at    *)
(* most one value each, changed by one request at a time.  EepromDb is     *)
(* shown to implement this specification.                                  *)
(***************************************************************************)
EXTENDS Integers, Sequences

CONSTANTS Keys, Values, Protected, AddCommands, Garbage

VARIABLES
    store,   \* [Keys -> sets with at most one value]
    busy,    \* a request is being served
    cmd, key, data,  \* the request served last
    was,     \* "clear": the protected values it found
    rc, out  \* the answer, and the value it carries

vars == <<store, busy, cmd, key, data, was, rc, out>>

Nothing == [k \in Protected |-> {}]

Init ==
    /\ store = [k \in Keys |-> {}] /\ was = Nothing
    /\ busy = FALSE /\ rc = "none" /\ out = {}
    /\ cmd = "none" /\ key = 0 /\ data = <<>>

Ask ==
    /\ ~busy /\ busy' = TRUE
    /\ cmd' \in AddCommands \cup {"del", "clear", "toenv", "dump"}
    /\ key' \in Keys /\ data' \in Values \cup {<<>>}
    /\ rc' = "none" /\ out' = {}
    /\ was' = IF cmd' = "clear" THEN [k \in Protected |-> store[k]] ELSE Nothing
    /\ UNCHANGED store

\* What a request does to the store, one step at a time: the old value goes
\* before the new one comes, so a replacement is two steps.
Forget  == cmd \in AddCommands \cup {"del"} /\ store' = [store EXCEPT ![key] = {}]
Put     == cmd \in AddCommands /\ store' = [store EXCEPT ![key] = {data}]
Wipe    == cmd = "clear" /\ store' = [k \in Keys |-> {}]

\* A protected key that was not there comes back with an empty value.
Restored(k) == IF was[k] = {} THEN {<<>>} ELSE was[k]
Restore == cmd = "clear" /\ \E k \in Protected : store' = [store EXCEPT ![k] = Restored(k)]

Change == Forget \/ Put \/ Wipe \/ Restore

Work == busy /\ Change /\ UNCHANGED <<busy, cmd, key, data, was, rc, out>>

\* A request that succeeded has done what it was asked for.
Done ==
    /\ cmd \in AddCommands => store'[key] = {data}
    /\ cmd = "del"         => store'[key] = {}
    /\ cmd = "toenv"       => out' = IF store[key] = {<<>>} THEN {Garbage} ELSE store[key]
    /\ cmd # "toenv"       => out' = {}
    /\ cmd = "clear"       => store' = [k \in Keys |-> IF k \in Protected
                                                       THEN Restored(k) ELSE {}]

\* The answer, which may come with the last change.
Answer ==
    /\ busy /\ busy' = FALSE
    /\ Change \/ UNCHANGED store
    /\ \/ rc' = "ok" /\ Done
       \/ rc' = "failed" /\ out' = {}
       \/ rc' = "no such key" /\ out' = {} /\ store[key] = {}
    /\ UNCHANGED <<cmd, key, data, was>>

\* The request is lost; what it has done so far, and its current step, may stay.
PowerLoss ==
    /\ busy /\ busy' = FALSE
    /\ cmd' = "none" /\ key' = 0 /\ data' = <<>> /\ was' = Nothing
    /\ rc' = "none" /\ out' = {}
    /\ Change \/ UNCHANGED store

Next == Ask \/ Work \/ Answer \/ PowerLoss

Spec == Init /\ [][Next]_vars
=============================================================================
