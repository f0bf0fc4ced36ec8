---------------------------- MODULE MCGroupCache ----------------------------
(* Small instances of GroupCache for TLC. *)
EXTENDS GroupCache, TLC

CONSTANTS daemon, adhoc, g, a, b, v, db, nogroup, badgroup

Db == [name |-> db, engine |-> "server", hostname |-> FALSE, volume |-> v, escapes |-> FALSE]
MCDatabases == {Db}
MCVolStates == {[local |-> TRUE, options |-> FALSE, mounted |-> FALSE, empty |-> FALSE, readable |-> r] :
                  r \in BOOLEAN}

Labels(enable, dbs) ==
  [helper |-> FALSE, spec |-> "none", group |-> g, enable |-> enable, filter |-> {}, dbs |-> dbs,
   dbsBroken |-> FALSE, period |-> 0, periodBroken |-> FALSE, config |-> FALSE]
MCBox(enable, dbs) == [said |-> Labels(enable, dbs), mounts |-> {v}, exec |-> TRUE]

\* Two containers that share a volume, each with its own database of one name;
\* either may be recreated without its claim and its database.
MCBoxes == [c \in {a, b} |-> {MCBox(TRUE, {Db}), MCBox(FALSE, {})}]

MCSymmetry == Permutations({daemon, adhoc}) \cup Permutations({a, b})
=============================================================================
