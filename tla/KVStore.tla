------------------------------ MODULE KVStore -------------------------------
(***************************************************************************)
(* What the store promises its clients, whatever it does inside: a map     *)
(* from keys to values that survives crashes.                              *)
(*                                                                         *)
(*   kv       the map clients read; Absent is "no such key"                *)
(*   allowed  per key, the values a recovery may show: the last value      *)
(*            known to be durable and every value written to the key since *)
(*   up       "up" while the store is open, "exited" after the process     *)
(*            ended, "lost" after a power loss                             *)
(*                                                                         *)
(* The end of the process loses nothing.  A power loss may take an         *)
(* unsynced write, never one acknowledged as synced (wal.h).  Nothing is   *)
(* promised about the order in which the unsynced writes of different keys *)
(* survive.                                                                *)
(***************************************************************************)
CONSTANTS Keys, Values, Absent

VARIABLES kv, allowed, up

kvvars == <<kv, allowed, up>>

Settled(m) == [k \in Keys |-> {m[k]}]

KVInit ==
  /\ kv = [k \in Keys |-> Absent]
  /\ allowed = Settled(kv)
  /\ up = "exited"

\* put and del (v = Absent); everything written so far may become durable at
\* the same time.
Write(k, v) ==
  /\ up = "up"
  /\ kv' = [kv EXCEPT ![k] = v]
  /\ allowed' \in {[allowed EXCEPT ![k] = @ \cup {v}], Settled(kv')}
  /\ UNCHANGED up

\* sync, flush, or a flush the store decides on.
MakeDurable ==
  /\ up = "up"
  /\ allowed' = Settled(kv)
  /\ UNCHANGED <<kv, up>>

KVExit ==
  /\ up = "up"
  /\ up' = "exited"
  /\ UNCHANGED <<kv, allowed>>

KVPowerLoss ==
  /\ up' = "lost"
  /\ UNCHANGED <<kv, allowed>>

\* What is recovered is durable, unless it was not before the process ended.
Recover ==
  /\ up # "up"
  /\ up' = "up"
  /\ kv' \in [Keys -> Values \cup {Absent}]
  /\ \A k \in Keys : kv'[k] \in IF up = "lost" THEN allowed[k] ELSE {kv[k]}
  /\ allowed' \in {allowed, Settled(kv')}

KVNext ==
  \/ \E k \in Keys, v \in Values \cup {Absent} : Write(k, v)
  \/ MakeDurable
  \/ KVExit
  \/ KVPowerLoss
  \/ Recover

KVSpec == KVInit /\ [][KVNext]_kvvars
=============================================================================
