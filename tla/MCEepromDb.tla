----------------------------- MODULE MCEepromDb -----------------------------
(* Small instances of EepromDb. *)
EXTENDS EepromDb

TwoKeys  == {2, 3}             \* ethaddr, prodnum
MCValues == {<<100>>, <<101, 100>>}

\* Where a loss of power does no harm, except that cut short in the first
\* write of the initialisation it leaves an end item without a magic, which
\* eeprom_add takes for a database, and in del_item's write two free items
\* next to each other.
SafePlaces == {"magic", "delWalk", "delNext", "addSearch", "addData", "fitHead",
               "appData", "clrWalk", "envWalk", "dumpWalk"}
NoPlaces == {}

\* For the run with device errors.
OneValue == {<<100>>}
=============================================================================
