--------------------------- MODULE SchemaHistory ---------------------------
(***************************************************************************)
(* What the migration runner (server/src/migrate.ts) promises, without      *)
(* runners, locks or crashes: a database is brought forward one migration   *)
(* at a time, by a release whose migrations begin with everything that was   *)
(* ever applied to it.                                                      *)
(***************************************************************************)
EXTENDS Naturals, Sequences

CONSTANTS
    Releases,
    Ship        \* the migration each release ships under each version

VARIABLE history    \* the migrations that took effect, in order

\* Release r ships everything applied so far.
Follows(r) ==
    \A v \in DOMAIN history : v \in DOMAIN Ship[r] /\ Ship[r][v] = history[v]

Init == history = <<>>

Migrate(r) ==
    /\ Follows(r)
    /\ Len(history) + 1 \in DOMAIN Ship[r]
    /\ history' = Append(history, Ship[r][Len(history) + 1])

Next == \E r \in Releases : Migrate(r)

Spec == Init /\ [][Next]_history
=============================================================================
