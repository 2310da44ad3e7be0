------------------------------ MODULE ResourceLocks ------------------------------
(***************************************************************************)
(* The table of resource locks (resource-lock-service.ts) as its users see *)
(* it: rows with status 'held'.  Rows that were released or expired play   *)
(* no part in any query and are left out.  A row whose time to live has    *)
(* passed stays 'held' until somebody asks for a lock; only then the       *)
(* overdue rows of all resources expire.                                   *)
(*                                                                         *)
(* A worker asks for all it needs in one go.  The calls in between wait    *)
(* for the synchronous database driver only, so no other worker gets in.   *)
(***************************************************************************)
EXTENDS Integers, FiniteSets

CONSTANTS Worker,      \* whoever executes under locks
          Resource,    \* desktop, browser profile, workspace path, software instance
          Nobody       \* the owner of a row whose worker was lost in a restart

ASSUME WorkerAssumption == Nobody \notin Worker

VARIABLE held

Row == [res : Resource, by : Worker \cup {Nobody}, due : BOOLEAN]

LockInit == held = {}

Live == {l \in held : ~l.due}
TakenAll(need) ==                        \* mutant: the first free resource is enough
  need # {} /\ \A r \in need : \E l \in Live : l.res = r
Taken(need) == \E l \in Live : l.res \in need

RowsOf(w, need) == {[res |-> r, by |-> w, due |-> FALSE] : r \in need}

(* A worker that needs nothing does not go near the table.                 *)
AcquireBesides(w, need) ==               \* mutant: overdue rows are not expired
  ~Taken(need) /\ held' = held \cup RowsOf(w, need)
Acquire(w, need) ==
  /\ ~Taken(need)
  /\ held' = IF need = {} THEN held ELSE Live \cup RowsOf(w, need)

(* The first lock that is taken makes the whole request fail; the rows it  *)
(* got before are released, the expiry stays done.                         *)
KeepsPart(w, need) ==                    \* mutant: without the release
  /\ Taken(need)
  /\ held' = Live \cup RowsOf(w, need \ {l.res : l \in Live})
Refuse(w, need) == Taken(need) /\ held' = Live

(* Release is by id, and an id is of one request: a row that expired and   *)
(* was taken by somebody else is not touched.                              *)
Release(w) == held' = {l \in held : l.by # w}

Elapse(l) ==
  /\ l \in held /\ ~l.due
  /\ held' = (held \ {l}) \cup {[l EXCEPT !.due = TRUE]}

Lose == held' = {[l EXCEPT !.by = Nobody] : l \in held}
-------------------------------------------------------------------------------
(* acquireResourceLock: no resource has two rows that are held, however    *)
(* requests, releases, expiry and restarts follow one another.             *)
LockExclusive == \A l, m \in held : l.res = m.res => l = m
===============================================================================
