---------------------------------- MODULE FDB ----------------------------------
(***************************************************************************)
(* The forwarding database of src/src/fdb.cpp and fdb_entry.cpp: where a   *)
(* MAC address was seen first, and when it was seen last.                  *)
(*                                                                         *)
(* A table is a function from the known addresses to entries.  The mutex   *)
(* is with the callers: each operator is what happens under it.            *)
(***************************************************************************)
EXTENDS Naturals

CONSTANTS
  ExpireTime  \* seconds without traffic that an entry survives (300)

ASSUME ExpireAssumption == ExpireTime \in Nat

(* The destination of an address that is behind the own tap interface. *)
Local == 0

EmptyTable == <<>>

Knows(table, mac) == mac \in DOMAIN table

(* add(): an entry that is there already stays as it is. *)
Add(table, mac, dest, now) ==
  [x \in DOMAIN table \union {mac} |->
     IF Knows(table, x) THEN table[x] ELSE [dest |-> dest, last_seen |-> now]]

(* Mutant: the time is not taken. *)
UpdateLastSeen_Not(table, mac, now) == table

(* updateLastSeen() of the entry that get() found *)
UpdateLastSeen(table, mac, now) == [table EXCEPT ![mac].last_seen = now]

(* Mutant: entries of the own tap interface do not expire. *)
Expire_RemoteOnly(table, now) ==
  [mac \in {x \in DOMAIN table : \/ table[x].dest = Local
                                 \/ now - table[x].last_seen <= ExpireTime} |-> table[mac]]

(* expireEntries(): whatever is older than the expire time goes. *)
Expire(table, now) ==
  [mac \in {x \in DOMAIN table : now - table[x].last_seen <= ExpireTime} |-> table[mac]]
=============================================================================
