------------------------------ MODULE MenuCache ------------------------------
(***************************************************************************)
(* The menu (GET /api/v1/menu) comes from a cache of the process, behind   *)
(* it from Redis, and only then from the database (app/services/menu.py).  *)
(* Setting a status of a product or of an option clears the cache of the   *)
(* process at once and starts a task that deletes the payload in Redis and *)
(* raises a version there (app/models/catalog.py) - before the change is   *)
(* committed.  Any error of Redis makes a process do without it for good.  *)
(* One action for each call of Redis or of the database.                   *)
(***************************************************************************)
EXTENDS Integers, Sequences

CONSTANTS
  Worker,     \* processes
  Reader,     \* requests for the menu that can be under way at once
  Home,       \* the process that serves each of them
  Editor,     \* processes that change statuses
  TTL,        \* settings.menu_cache_ttl_seconds, in ticks
  BuildTime,  \* ticks that reading and storing a menu takes at most
  MaxNow, MaxEdits, \* bounds of TLC's instances
  NoEntry

ASSUME MenuAssumption ==
  /\ Home \in [Reader -> Worker] /\ Editor \subseteq Worker
  /\ TTL \in Nat /\ BuildTime \in Nat /\ MaxNow \in Nat /\ MaxEdits \in Nat

VARIABLES
  now,
  changed,    \* when each change of the menu was committed; a menu is how many it shows
  version,    \* menu:version in Redis
  remote,     \* menu:payload in Redis
  cache,      \* _MENU_CACHE of each process
  disabled,   \* processes that do without Redis
  reader,     \* requests under way
  editor      \* an edit in each process and the task it has started

menuVars == <<now, changed, version, remote, cache, disabled, reader, editor>>

Current == Len(changed)

IdleReader == [at |-> "idle", menu |-> 0, since |-> 0, version |-> NoEntry]

MenuTypeOK ==
  /\ now \in Nat /\ version \in Nat
  /\ changed \in Seq(Nat)
  /\ remote # NoEntry => /\ remote.menu \in 0..Current /\ remote.until \in Nat
                         /\ remote.version \in 0..version
  /\ \A p \in Worker :
       cache[p] # NoEntry => /\ cache[p].menu \in 0..Current /\ cache[p].until \in Nat
                             /\ cache[p].version \in 0..version \cup {NoEntry}
  /\ disabled \subseteq Worker
  /\ \A r \in Reader :
       /\ reader[r].at \in {"idle", "check", "hydrate", "build", "built", "stored", "answer"}
       /\ reader[r].menu \in 0..Current /\ reader[r].since \in 0..now
       /\ reader[r].version \in 0..version \cup {NoEntry}
  /\ \A p \in Editor : /\ editor[p].edit \in {"none", "set"}
                        /\ editor[p].task \in {"none", "delete", "bump"}

MenuInit ==
  /\ now = 0 /\ changed = <<>> /\ version = 0
  /\ remote = NoEntry
  /\ cache = [p \in Worker |-> NoEntry]
  /\ disabled = {}
  /\ reader = [r \in Reader |-> IdleReader]
  /\ editor = [p \in Editor |-> [edit |-> "none", task |-> "none"]]

-----------------------------------------------------------------------------
(* get_menu_payload()                                                      *)

MenuStep(r, step) == reader' = [reader EXCEPT ![r].at = step]

Serve(r, m) == reader' = [reader EXCEPT ![r] = [IdleReader EXCEPT !.at = "answer", !.menu = m]]

LookUpForever(r) ==
  LET p == Home[r] IN
  /\ reader[r].at = "idle"
  /\ IF cache[p] = NoEntry
     THEN MenuStep(r, "hydrate")
     ELSE reader' = [reader EXCEPT ![r].at = "check", ![r].menu = cache[p].menu,
                                   ![r].version = cache[p].version]
  /\ UNCHANGED <<now, changed, version, remote, cache, disabled, editor>>

\* An entry that is there and has not expired is checked against the version.
LookUp(r) ==
  LET p == Home[r] IN
  /\ reader[r].at = "idle"
  /\ IF cache[p] = NoEntry \/ cache[p].until < now
     THEN /\ cache' = [cache EXCEPT ![p] = NoEntry]
          /\ MenuStep(r, "hydrate")
     ELSE /\ reader' = [reader EXCEPT ![r].at = "check", ![r].menu = cache[p].menu,
                                      ![r].version = cache[p].version]
          /\ UNCHANGED cache
  /\ UNCHANGED <<now, changed, version, remote, disabled, editor>>

\* The version read here is the one a menu built later is stored with.
CheckVersion(r) ==
  LET p == Home[r] IN
  /\ reader[r].at = "check"
  /\ IF p \in disabled \/ reader[r].version = version
     THEN Serve(r, reader[r].menu) /\ UNCHANGED cache
     ELSE /\ cache' = [cache EXCEPT ![p] = NoEntry]
          /\ reader' = [reader EXCEPT ![r] =
                          [IdleReader EXCEPT !.at = "hydrate", !.version = version]]
  /\ UNCHANGED <<now, changed, version, remote, disabled, editor>>

\* The payload of Redis is taken whatever its version, and lives for another TTL here.
Hydrate(r) ==
  LET p == Home[r] IN
  /\ reader[r].at = "hydrate"
  /\ IF p \in disabled \/ remote = NoEntry
     THEN MenuStep(r, "build") /\ UNCHANGED cache
     ELSE /\ cache' = [cache EXCEPT ![p] = [remote EXCEPT !.until = now + TTL]]
          /\ Serve(r, remote.menu)
  /\ UNCHANGED <<now, changed, version, remote, disabled, editor>>

Build(r) ==
  /\ reader[r].at = "build"
  /\ reader' = [reader EXCEPT ![r].at = "built", ![r].menu = Current, ![r].since = now]
  /\ UNCHANGED <<now, changed, version, remote, cache, disabled, editor>>

\* Without a version from before, the one of now, which may be newer than the menu.
StoredVersion(r) ==
  IF reader[r].version # NoEntry THEN reader[r].version
  ELSE IF Home[r] \in disabled THEN NoEntry ELSE version

Store(r) ==
  /\ reader[r].at = "built"
  /\ cache' = [cache EXCEPT ![Home[r]] = [menu |-> reader[r].menu, until |-> now + TTL,
                                          version |-> StoredVersion(r)]]
  /\ reader' = [reader EXCEPT ![r].at = "stored", ![r].version = StoredVersion(r)]
  /\ UNCHANGED <<now, changed, version, remote, disabled, editor>>

WriteRemote(r) ==
  /\ reader[r].at = "stored"
  /\ remote' = IF Home[r] \in disabled THEN remote
               ELSE [menu |-> reader[r].menu, until |-> now + TTL,
                     version |-> IF reader[r].version = NoEntry THEN 0 ELSE reader[r].version]
  /\ Serve(r, reader[r].menu)
  /\ UNCHANGED <<now, changed, version, cache, disabled, editor>>

\* The answer is sent.
AnswerMenu(r) ==
  /\ reader[r].at = "answer"
  /\ reader' = [reader EXCEPT ![r] = IdleReader]
  /\ UNCHANGED <<now, changed, version, remote, cache, disabled, editor>>

-----------------------------------------------------------------------------
(* Edits, errors and time                                                  *)

\* A status is set: invalidate_menu_cache() runs before the transaction commits.
SetStatus(p) ==
  /\ editor[p] = [edit |-> "none", task |-> "none"] /\ Current < MaxEdits /\ version < MaxEdits
  /\ editor' = [editor EXCEPT ![p] = [edit |-> "set", task |-> "delete"]]
  /\ cache' = [cache EXCEPT ![p] = NoEntry]
  /\ UNCHANGED <<now, changed, version, remote, disabled, reader>>

\* The transaction commits or is rolled back.
EndEdit(p) ==
  /\ editor[p].edit = "set"
  /\ editor' = [editor EXCEPT ![p].edit = "none"]
  /\ \/ Current < MaxEdits /\ changed' = Append(changed, now)
     \/ UNCHANGED changed
  /\ UNCHANGED <<now, version, remote, cache, disabled, reader>>

DeleteRemote(p) ==
  /\ editor[p].task = "delete"
  /\ remote' = IF p \in disabled THEN remote ELSE NoEntry
  /\ editor' = [editor EXCEPT ![p].task = "bump"]
  /\ UNCHANGED <<now, changed, version, cache, disabled, reader>>

BumpVersion(p) ==
  /\ editor[p].task = "bump"
  /\ version' = IF p \in disabled THEN version ELSE version + 1
  /\ editor' = [editor EXCEPT ![p].task = "none"]
  /\ UNCHANGED <<now, changed, remote, cache, disabled, reader>>

\* The event loop of a Celery task ends and cancels the task that was started.
LoseTask(p) ==
  /\ editor[p].task # "none"
  /\ editor' = [editor EXCEPT ![p].task = "none"]
  /\ UNCHANGED <<now, changed, version, remote, cache, disabled, reader>>

\* An error of Redis: _disable_menu_version_tracking().
Disable(p) ==
  /\ disabled' = disabled \cup {p}
  /\ UNCHANGED <<now, changed, version, remote, cache, reader, editor>>

\* Calls of Redis have a time-out of a second and take no time here; Redis drops a payload
\* when its time is over.
MenuTick ==
  /\ now < MaxNow
  /\ \A r \in Reader :
       /\ reader[r].at \in {"idle", "build", "built", "stored"}
       /\ reader[r].at \in {"built", "stored"} => now - reader[r].since < BuildTime
  /\ now' = now + 1
  /\ remote' = IF remote # NoEntry /\ remote.until <= now' THEN NoEntry ELSE remote
  /\ UNCHANGED <<changed, version, cache, disabled, reader, editor>>

MenuNext ==
  \/ \E r \in Reader : \/ LookUp(r) \/ CheckVersion(r) \/ Hydrate(r) \/ Build(r)
                       \/ Store(r) \/ WriteRemote(r) \/ AnswerMenu(r)
  \/ \E p \in Editor : \/ SetStatus(p) \/ EndEdit(p) \/ DeleteRemote(p) \/ BumpVersion(p)
                       \/ LoseTask(p)
  \/ \E p \in Worker : Disable(p)
  \/ MenuTick

MenuSpec == MenuInit /\ [][MenuNext]_menuVars

-----------------------------------------------------------------------------
(* Properties                                                              *)

\* However edits, fills, errors and lost tasks interleave, a change that a served menu does
\* not show was committed at most two TTLs and the time of a build ago: the TTL in Redis and
\* the one in the process add up.
ChangeIsServed ==
  \A r \in Reader :
    reader[r].at = "answer" /\ reader[r].menu < Current =>
      now <= changed[reader[r].menu + 1] + 2 * TTL + BuildTime
=============================================================================
