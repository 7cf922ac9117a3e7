--------------------------- MODULE Advertisements ---------------------------
(***************************************************************************)
(* The advertisements of a slot (GET /api/v1/ads/config and the service    *)
(* behind it).  A client sends the version it has; with the same version   *)
(* it is answered that nothing has changed.  The version is the second of  *)
(* the latest update, start or end; a process caches the answer for some   *)
(* minutes, at most until the next start or end.  A placement is part of   *)
(* its creative here, and there is one slot.                               *)
(***************************************************************************)
EXTENDS Integers, FiniteSets, FiniteSetsExt

CONSTANTS
  Ad, Client, Server,  \* creatives, mini programs, processes
  Schedules,           \* start and end times of creatives: 0 without a start, Never without an end
  Commits,             \* whether an edit is committed: a route of the administration,
                       \* whose session is in a transaction by then, leaves it uncommitted
  Second,              \* ticks of a second
  AdTTL,               \* _CACHE_TTL_SECONDS, in ticks
  MaxClock, MaxAdEdits,\* bounds
  Never,               \* later than the bound of the clock
  NoAd, NoAnswer

ASSUME AdAssumption ==
  /\ Second \in Nat \ {0} /\ AdTTL \in Nat /\ MaxClock \in Nat /\ MaxAdEdits \in Nat
  /\ Commits \subseteq BOOLEAN
  /\ Never \in Nat /\ Never > MaxClock
  /\ \A s \in Schedules : s.start \in Nat /\ s.end \in Nat

VARIABLES
  clock,
  ad,       \* rows of ad_creatives: when updated, and their schedule
  answers,  \* _CONFIG_CACHE of each process
  client,   \* what each client has and where its request is
  adEdits,  \* committed edits so far
  top,      \* history: the highest version there has been
  reused    \* history: a row, or what is to be shown, changed and the version did not rise

adVars == <<clock, ad, answers, client, adEdits, top, reused>>

Fresh == [at |-> "idle", version |-> 0, shows |-> {}, owed |-> {}, server |-> NoAnswer,
          since |-> 0, read |-> 0, newVersion |-> 0, next |-> Never, table |-> NoAnswer]

AdTypeOK ==
  /\ clock \in Nat /\ adEdits \in 0..MaxAdEdits /\ top \in Nat /\ reused \in BOOLEAN
  /\ \A a \in Ad : ad[a] # NoAd => ad[a].updated \in 0..clock /\ ad[a].schedule \in Schedules
  /\ \A s \in Server : answers[s] # NoAnswer =>
       /\ answers[s].at \in 0..clock /\ answers[s].version \in 0..top
       /\ answers[s].next \in Nat
  /\ \A c \in Client : /\ client[c].at \in {"idle", "version", "load"}
                       /\ client[c].version \in 0..top
                       /\ client[c].since \in 0..clock

-----------------------------------------------------------------------------
(* What is shown, and its version                                          *)

Rows(t) == {a \in Ad : t[a] # NoAd}

\* An end lies just before its tick: `end_time < now` here and `end_time <= now` in the
\* version differ in one instant only.
Running(s, now) == s.start <= now /\ now < s.end

\* _load_active_creatives(): an advertisement is told apart by its last update.
Active(t, now) ==
  {<<a, t[a].updated>> : a \in {b \in Rows(t) : Running(t[b].schedule, now)}}

Times(t) == UNION {{t[a].schedule.start, t[a].schedule.end} : a \in Rows(t)}

\* _determine_version(): updates, and starts and ends that have passed.
VersionOf(t, now) ==
  Max({0} \cup {t[a].updated : a \in Rows(t)} \cup {s \in Times(t) : s <= now}) \div Second

NextStart(t, now) ==
  Min({Never} \cup {s \in {t[a].schedule.start : a \in Rows(t)} : s > now})

NextChange(t, now) ==
  Min({Never} \cup {s \in Times(t) : s > now})

\* History of the versions, after a step that may change the rows or what is to be shown.
Recorded ==
  /\ top' = Max({top, VersionOf(ad', clock')})
  /\ reused' = (reused \/ (/\ ad' # ad \/ Active(ad', clock') # Active(ad, clock)
                           /\ VersionOf(ad', clock') <= top))

AdInit ==
  /\ clock = Second
  /\ \E s \in Schedules, there \in SUBSET Ad :
       ad = [a \in Ad |-> IF a \in there THEN [updated |-> Second, schedule |-> s] ELSE NoAd]
  /\ answers = [s \in Server |-> NoAnswer]
  /\ client = [c \in Client |-> Fresh]
  /\ adEdits = 0
  /\ top = VersionOf(ad, clock)
  /\ reused = FALSE

-----------------------------------------------------------------------------
(* get_config()                                                            *)

\* A client that is told its own version keeps what it shows.  owed: what it may show, as of
\* the moment the version was read, m, or as of now.
Answered(c, e, m) ==
  client' = [client EXCEPT ![c] =
    [Fresh EXCEPT !.version = e.version,
                  !.shows = IF client[c].version # 0 /\ client[c].version = e.version
                            THEN client[c].shows ELSE e.payload,
                  !.owed = {Active(e.table, m), Active(e.table, clock)}]]

Valid(e) ==
  /\ e # NoAnswer
  /\ clock - e.at < AdTTL
  /\ clock < e.next

AskCached(c, s) ==
  /\ client[c].at = "idle" /\ Valid(answers[s])
  /\ Answered(c, answers[s], clock)
  /\ UNCHANGED <<clock, ad, answers, adEdits, top, reused>>

AskUncached(c, s) ==
  /\ client[c].at = "idle" /\ ~ Valid(answers[s])
  /\ client' = [client EXCEPT ![c].at = "version", ![c].server = s, ![c].since = clock]
  /\ UNCHANGED <<clock, ad, answers, adEdits, top, reused>>

CacheAndAnswer(c, e, m) ==
  /\ answers' = [answers EXCEPT ![client[c].server] = e]
  /\ Answered(c, e, m)

\* Version 0: there is nothing to load.
ReadVersion(c) ==
  LET v == VersionOf(ad, clock)
      next == NextChange(ad, clock)
  IN /\ client[c].at = "version"
     /\ IF v = 0
        THEN CacheAndAnswer(c, [at |-> client[c].since, version |-> 0, payload |-> {},
                                next |-> next, table |-> ad], clock)
        ELSE /\ client' = [client EXCEPT ![c].at = "load", ![c].read = clock,
                                         ![c].newVersion = v, ![c].next = next, ![c].table = ad]
             /\ UNCHANGED answers
     /\ UNCHANGED <<clock, ad, adEdits, top, reused>>

\* The clock has moved on since the version was read.  Rows that changed in between are left
\* out of the history: such an answer is owed as it is.
LoadCreatives(c) ==
  LET e == [at |-> client[c].since, version |-> client[c].newVersion,
            payload |-> Active(ad, clock), next |-> client[c].next, table |-> ad]
  IN /\ client[c].at = "load" /\ clock > client[c].read
     /\ CacheAndAnswer(c, e, client[c].read)
     /\ UNCHANGED <<clock, ad, adEdits, top>>
     /\ reused' = (reused \/ client[c].table # ad)

-----------------------------------------------------------------------------
(* Edits and time                                                          *)

\* Create, update or delete; _invalidate_cache() clears the cache of the own process, before
\* the transaction ends.
EditAd(a, s) ==
  /\ adEdits < MaxAdEdits
  /\ adEdits' = adEdits + 1
  /\ answers' = [answers EXCEPT ![s] = NoAnswer]
  /\ \E commit \in Commits,
        row \in {NoAd} \cup {[updated |-> clock, schedule |-> w] : w \in Schedules} :
       ad' = IF commit THEN [ad EXCEPT ![a] = row] ELSE ad
  /\ UNCHANGED <<clock, client>>
  /\ Recorded

AdTick ==
  /\ clock < MaxClock
  /\ clock' = clock + 1
  /\ UNCHANGED <<ad, answers, client, adEdits>>
  /\ Recorded

AdNext ==
  \/ \E c \in Client : \/ \E s \in Server : AskCached(c, s) \/ AskUncached(c, s)
                       \/ ReadVersion(c) \/ LoadCreatives(c)
  \/ \E a \in Ad, s \in Server : EditAd(a, s)
  \/ AdTick

AdSpec == AdInit /\ [][AdNext]_adVars

-----------------------------------------------------------------------------
(* Properties                                                              *)

\* A client that has just been answered, "nothing has changed" or from a cache included, shows
\* what is active at that moment of the rows the answer was made from: no advertisement before
\* its start or after its end, none missing.  It can be wrong only after an edit or a start
\* that did not raise the version - a deletion, two changes in one second - or an edit while
\* the answer was being read.
ShownIsActive ==
  [][\A c \in Client : client'[c].at = "idle" /\ client' # client
       => reused' \/ client'[c].shows \in client'[c].owed \/ client'[c] = client[c]]_adVars
=============================================================================
