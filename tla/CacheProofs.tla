---------------------------- MODULE CacheProofs ----------------------------
(***************************************************************************)
(* What the caches of the shop may still show, for any number of processes *)
(* and requests, any times to live and any history: the configuration, the *)
(* menu and the dashboard.                                                 *)
(***************************************************************************)
EXTENDS PublicConfig, MenuCache, Dashboard, TLAPS

-----------------------------------------------------------------------------
(* The public configuration                                                *)

ConfigClock ==
  /\ time \in Nat /\ flag \in Nat /\ deployed \in Seq(Nat)
  /\ \A i \in 1..Len(deployed) : deployed[i] <= time

\* What is stored was read at most AnswerTime before it was stored.
StoredIsRecent ==
  stored # NoConfig =>
    /\ stored \in [file : Nat, flag : Nat, until : Nat]
    /\ time <= stored.until /\ stored.until <= time + ConfigTTL
    /\ stored.file \in 0..Len(deployed)
    /\ stored.file < Len(deployed) =>
         stored.until <= deployed[stored.file + 1] + ConfigTTL + AnswerTime

AskingIsRecent(r) ==
  LET a == asking[r] IN
  /\ a \in [at : {"idle", "file", "merge", "write", "answer"}, file : Nat, since : Nat,
            oldFlag : Nat, flag : Nat, hit : BOOLEAN]
  /\ a.file \in 0..Len(deployed)
  /\ a.at # "idle" => a.since <= time /\ time <= a.since + AnswerTime /\ a.oldFlag <= flag
  /\ a.at \in {"write", "answer"} => a.flag >= a.oldFlag
  /\ a.at = "write" => ~ a.hit
  /\ a.at \in {"merge", "write", "answer"} /\ a.file < Len(deployed) =>
       a.since <= deployed[a.file + 1] + (IF a.hit THEN ConfigTTL + AnswerTime ELSE 0)

ConfigInv ==
  /\ ConfigClock /\ StoredIsRecent
  /\ DOMAIN asking = ConfigReader /\ \A r \in ConfigReader : AskingIsRecent(r)

(* Lemma: at the start nothing is stored or asked for.                     *)
LEMMA ConfigStart == ConfigInit => ConfigInv
  BY ConfigAssumption
  DEF ConfigInit, ConfigInv, ConfigClock, StoredIsRecent, AskingIsRecent, NotAsking

(* Lemma: a step of one request leaves the others as they are.             *)
LEMMA OthersAsk ==
  ASSUME ConfigInv, NEW r \in ConfigReader, UNCHANGED <<time, flag, deployed>>,
         DOMAIN asking' = DOMAIN asking,
         \A q \in ConfigReader : q # r => asking'[q] = asking[q],
         StoredIsRecent', AskingIsRecent(r)'
  PROVE  ConfigInv'
  <1>1. ASSUME NEW q \in ConfigReader, q # r
        PROVE  AskingIsRecent(q)'
    <2>1. asking'[q] = asking[q]
      BY <1>1 DEF ConfigInv
    <2> QED
      BY <2>1 DEF ConfigInv, AskingIsRecent
  <1>2. ConfigClock'
    BY DEF ConfigInv, ConfigClock
  <1> QED
    BY <1>1, <1>2 DEF ConfigInv

(* Lemma: a request keeps the invariant, whatever it finds and stores.     *)
LEMMA AskKeeps ==
  ASSUME ConfigInv, NEW r \in ConfigReader,
         ReadCache(r) \/ ReadFile(r) \/ MergeFlags(r) \/ WriteCache(r) \/ AnswerConfig(r)
  PROVE  ConfigInv'
  <1> USE ConfigAssumption
  <1> DEFINE a == asking[r]
             Now(s, f, t, o, g, h) ==
               asking'[r] = [at |-> s, file |-> f, since |-> t, oldFlag |-> o, flag |-> g,
                             hit |-> h]
  <1>1. /\ AskingIsRecent(r) /\ ConfigClock /\ StoredIsRecent
        /\ UNCHANGED <<time, flag, deployed>> /\ r \in DOMAIN asking
    BY DEF ConfigInv, ReadCache, ReadFile, MergeFlags, WriteCache, AnswerConfig
  <1>2. a = [at |-> a.at, file |-> a.file, since |-> a.since, oldFlag |-> a.oldFlag,
             flag |-> a.flag, hit |-> a.hit]
    BY <1>1 DEF AskingIsRecent
  <1>3. /\ DOMAIN asking' = DOMAIN asking
        /\ \A q \in ConfigReader : q # r => asking'[q] = asking[q]
    BY DEF ConfigInv, ReadCache, ReadFile, MergeFlags, WriteCache, AnswerConfig
  <1>4. StoredIsRecent'
    <2>1. CASE UNCHANGED stored
      BY <1>1, <2>1 DEF StoredIsRecent
    <2>2. CASE /\ a.at = "write"
               /\ stored' = [file |-> a.file, flag |-> a.flag, until |-> time + ConfigTTL]
      <3>1. /\ time \in Nat /\ a.flag \in Nat /\ a.since \in Nat /\ a.file \in 0..Len(deployed)
            /\ time <= a.since + AnswerTime
            /\ a.file < Len(deployed) => a.since <= deployed[a.file + 1]
        <4> HIDE DEF Now
        <4> QED
          BY <1>1, <2>2 DEF ConfigClock, AskingIsRecent
      <3>2. a.file < Len(deployed) => deployed[a.file + 1] \in Nat
        BY <1>1, <3>1 DEF ConfigClock
      <3>3. a.file < Len(deployed) =>
              time + ConfigTTL <= deployed[a.file + 1] + ConfigTTL + AnswerTime
        <4> HIDE DEF Now, a
        <4> QED
          BY <3>1, <3>2
      <3>4. /\ stored'.file = a.file /\ stored'.until = time + ConfigTTL
            /\ stored' \in [file : Nat, flag : Nat, until : Nat]
        <4> HIDE DEF Now
        <4> QED
          BY <1>1, <2>2, <3>1 DEF ConfigClock
      <3> HIDE DEF Now, a
      <3> QED
        BY <1>1, <3>1, <3>3, <3>4 DEF StoredIsRecent
    <2> QED
      BY <2>1, <2>2 DEF ReadCache, ReadFile, MergeFlags, WriteCache, AnswerConfig
  <1>5. AskingIsRecent(r)'
    <2>1. CASE Now("file", 0, time, flag, 0, FALSE)
      BY <1>1, <2>1 DEF ConfigClock, AskingIsRecent
    <2>2. CASE stored # NoConfig /\ Now("merge", stored.file, time, flag, stored.flag, TRUE)
      <3>1. /\ asking'[r].at = "merge" /\ asking'[r].file = stored.file
            /\ asking'[r].since = time /\ asking'[r].oldFlag = flag
            /\ asking'[r].flag = stored.flag /\ asking'[r].hit = TRUE
        BY <2>2
      <3>2. asking'[r] \in [at : {"idle", "file", "merge", "write", "answer"}, file : Nat,
                            since : Nat, oldFlag : Nat, flag : Nat, hit : BOOLEAN]
        BY <1>1, <2>2 DEF ConfigClock, StoredIsRecent
      <3>3. stored.file < Len(deployed) => deployed[stored.file + 1] \in Nat
        BY <1>1, <2>2 DEF ConfigClock, StoredIsRecent
      <3>4. stored.file < Len(deployed) =>
              time <= deployed[stored.file + 1] + (ConfigTTL + AnswerTime)
        <4>1. time \in Nat /\ stored.until \in Nat /\ time <= stored.until
          BY <1>1, <2>2 DEF ConfigClock, StoredIsRecent
        <4>2. stored.file < Len(deployed) =>
                stored.until <= deployed[stored.file + 1] + ConfigTTL + AnswerTime
          BY <1>1, <2>2 DEF StoredIsRecent
        <4> HIDE DEF Now
        <4> QED
          BY <3>3, <4>1, <4>2
      <3>5. stored.file \in 0..Len(deployed')
        BY <1>1, <2>2 DEF StoredIsRecent
      <3> HIDE DEF Now
      <3> QED
        BY <1>1, <3>1, <3>2, <3>4, <3>5 DEF ConfigClock, AskingIsRecent
    <2>3. CASE a.at = "file" /\ Now("merge", Len(deployed), a.since, a.oldFlag, a.flag, a.hit)
      BY <1>1, <2>3 DEF ConfigClock, AskingIsRecent
    <2>4. CASE a.at = "merge" /\ Now(IF a.hit THEN "answer" ELSE "write", a.file, a.since,
                                     a.oldFlag, flag, a.hit)
      BY <1>1, <2>4 DEF ConfigClock, AskingIsRecent
    <2>5. CASE a.at = "write" /\ Now("answer", a.file, a.since, a.oldFlag, a.flag, a.hit)
      BY <1>1, <2>5 DEF ConfigClock, AskingIsRecent
    <2>6. CASE asking'[r] = NotAsking
      BY <1>1, <2>6 DEF ConfigClock, AskingIsRecent, NotAsking
    <2> DEFINE Found == [at |-> "merge", file |-> stored.file, since |-> time, oldFlag |-> flag,
                         flag |-> stored.flag, hit |-> TRUE]
    <2>7. ASSUME ReadCache(r)
          PROVE  Now("file", 0, time, flag, 0, FALSE) \/ (stored # NoConfig /\ asking'[r] = Found)
      BY <1>1, <2>7 DEF ReadCache, NotAsking
    <2>8. CASE ReadFile(r)
      BY <1>1, <1>2, <2>3, <2>8 DEF ReadFile
    <2>9. CASE MergeFlags(r)
      BY <1>1, <1>2, <2>4, <2>9 DEF MergeFlags
    <2>10. CASE WriteCache(r)
      BY <1>1, <1>2, <2>5, <2>10 DEF WriteCache
    <2>11. CASE AnswerConfig(r)
      BY <1>1, <2>6, <2>11 DEF AnswerConfig
    <2> QED
      BY <2>1, <2>2, <2>7, <2>8, <2>9, <2>10, <2>11
  <1> QED
    BY <1>1, <1>3, <1>4, <1>5, OthersAsk

(* Lemma: so do edits of flags, their invalidations, deployments and time. *)
LEMMA ConfigWorldKeeps ==
  ASSUME ConfigInv,
         (\E e \in FlagEditor : SetFlag(e) \/ InvalidateConfig(e)) \/ Deploy \/ ConfigTick
  PROVE  ConfigInv'
  <1> USE ConfigAssumption
  <1>1. CASE \E e \in FlagEditor : SetFlag(e)
    BY <1>1 DEF SetFlag, ConfigInv, ConfigClock, StoredIsRecent, AskingIsRecent
  <1>2. CASE \E e \in FlagEditor : InvalidateConfig(e)
    BY <1>2 DEF InvalidateConfig, ConfigInv, ConfigClock, StoredIsRecent, AskingIsRecent
  <1>3. CASE Deploy
    <2>1. /\ deployed' = Append(deployed, time)
          /\ UNCHANGED <<time, flag, stored, asking>>
      BY <1>3 DEF Deploy
    <2>0. deployed \in Seq(Nat) /\ time \in Nat
      BY DEF ConfigInv, ConfigClock
    <2>2. /\ Len(deployed') = Len(deployed) + 1
          /\ deployed'[Len(deployed) + 1] = time
          /\ \A i \in 1..Len(deployed) : deployed'[i] = deployed[i]
          /\ Len(deployed) \in Nat
      BY <2>0, <2>1 DEF ConfigInv, ConfigClock
    <2>3. ConfigClock'
      BY <2>1, <2>2 DEF ConfigInv, ConfigClock
    <2>4. StoredIsRecent'
      BY <2>1, <2>2 DEF ConfigInv, ConfigClock, StoredIsRecent
    <2>5. ASSUME NEW r \in ConfigReader
          PROVE  AskingIsRecent(r)'
      <3>1. AskingIsRecent(r) /\ time \in Nat
        BY DEF ConfigInv, ConfigClock
      <3>2. asking[r].file \in 0..Len(deployed')
        BY <2>2, <3>1 DEF AskingIsRecent
      <3>3. asking[r].at \in {"merge", "write", "answer"} /\ asking[r].file < Len(deployed') =>
              asking[r].since <= deployed'[asking[r].file + 1]
                                   + (IF asking[r].hit THEN ConfigTTL + AnswerTime ELSE 0)
        <4>1. CASE asking[r].file = Len(deployed)
          BY <2>2, <3>1, <4>1 DEF AskingIsRecent
        <4>2. CASE asking[r].file # Len(deployed)
          <5>1. asking[r].file + 1 \in 1..Len(deployed)
            BY <2>2, <3>1, <4>2 DEF AskingIsRecent
          <5>2. deployed'[asking[r].file + 1] = deployed[asking[r].file + 1]
            BY <2>2, <5>1
          <5> QED
            BY <2>2, <3>1, <4>2, <5>2 DEF AskingIsRecent
        <4> QED
          BY <4>1, <4>2
      <3> QED
        BY <2>1, <3>1, <3>2, <3>3 DEF AskingIsRecent
    <2> QED
      BY <2>1, <2>3, <2>4, <2>5 DEF ConfigInv
  <1>4. CASE ConfigTick
    <2>1. /\ time' = time + 1 /\ UNCHANGED <<flag, deployed, asking>>
          /\ stored' = IF stored # NoConfig /\ stored.until <= time' THEN NoConfig ELSE stored
          /\ \A r \in ConfigReader : asking[r].at = "idle" \/ time - asking[r].since < AnswerTime
      BY <1>4 DEF ConfigTick
    <2>2. ConfigClock'
      BY <2>1 DEF ConfigInv, ConfigClock
    <2>3. StoredIsRecent'
      BY <2>1 DEF ConfigInv, ConfigClock, StoredIsRecent
    <2>4. \A r \in ConfigReader : AskingIsRecent(r)'
      BY <2>1 DEF ConfigInv, ConfigClock, AskingIsRecent
    <2> QED
      BY <2>1, <2>2, <2>3, <2>4 DEF ConfigInv
  <1> QED
    BY <1>1, <1>2, <1>3, <1>4

(* Lemma: these facts are an inductive invariant of the configuration.     *)
LEMMA ConfigInvAlways == ConfigSpec => []ConfigInv
  <1>1. ConfigInv /\ [ConfigNext]_configVars => ConfigInv'
    <2>1. CASE UNCHANGED configVars
      BY <2>1 DEF configVars, ConfigInv, ConfigClock, StoredIsRecent, AskingIsRecent
    <2> QED
      BY <2>1, AskKeeps, ConfigWorldKeeps DEF ConfigNext
  <1> QED
    BY <1>1, ConfigStart, PTL DEF ConfigSpec

(* Theorem: an answer has every flag that was set before its request, and  *)
(* a deployed file is missing from it for a bounded time only.             *)
THEOREM ConfigIsCurrentAlways == ConfigSpec => []ConfigIsCurrent
  <1>1. ConfigInv => ConfigIsCurrent
    <2> SUFFICES ASSUME ConfigInv, NEW r \in ConfigReader, asking[r].at = "answer"
                 PROVE  /\ asking[r].flag >= asking[r].oldFlag
                        /\ asking[r].file < Len(deployed) =>
                             time <= deployed[asking[r].file + 1] + ConfigTTL + 2 * AnswerTime
      BY DEF ConfigIsCurrent
    <2>1. AskingIsRecent(r) /\ ConfigClock
      BY DEF ConfigInv
    <2>2. asking[r].file < Len(deployed) => deployed[asking[r].file + 1] \in Nat
      BY <2>1 DEF AskingIsRecent, ConfigClock
    <2>3. asking[r].file < Len(deployed) =>
            asking[r].since <= deployed[asking[r].file + 1] + ConfigTTL + AnswerTime
      BY <2>1, <2>2, ConfigAssumption DEF AskingIsRecent
    <2>4. /\ time \in Nat /\ asking[r].since \in Nat /\ time <= asking[r].since + AnswerTime
          /\ asking[r].flag >= asking[r].oldFlag
      BY <2>1 DEF AskingIsRecent, ConfigClock
    <2>5. ASSUME asking[r].file < Len(deployed)
          PROVE  time <= deployed[asking[r].file + 1] + ConfigTTL + 2 * AnswerTime
      <3> DEFINE d == deployed[asking[r].file + 1]
                 s == asking[r].since
      <3>1. d \in Nat /\ s \in Nat /\ time \in Nat /\ ConfigTTL \in Nat /\ AnswerTime \in Nat
        BY <2>2, <2>4, <2>5, ConfigAssumption
      <3>2. s <= d + ConfigTTL + AnswerTime /\ time <= s + AnswerTime
        BY <2>3, <2>4, <2>5
      <3> HIDE DEF d, s
      <3>3. time <= d + ConfigTTL + 2 * AnswerTime
        BY <3>1, <3>2
      <3> QED
        BY <3>3 DEF d
    <2> QED
      BY <2>4, <2>5
  <1> QED
    BY <1>1, ConfigInvAlways, PTL

\* What the bounds of the types add to the invariant.
ConfigBounds ==
  /\ flag <= MaxFlags /\ setting \subseteq FlagEditor
  /\ stored # NoConfig => stored.flag <= flag
  /\ \A r \in ConfigReader : /\ asking[r].flag <= flag /\ asking[r].oldFlag <= flag
                             /\ asking[r].since <= time

(* Lemma: no step of a request gives it a flag that was never set.         *)
LEMMA AskBounded ==
  ASSUME ConfigInv, ConfigBounds, NEW r \in ConfigReader,
         ReadCache(r) \/ ReadFile(r) \/ MergeFlags(r) \/ WriteCache(r) \/ AnswerConfig(r)
  PROVE  ConfigBounds'
  <1>1. /\ time \in Nat /\ flag \in Nat /\ flag <= MaxFlags /\ setting \subseteq FlagEditor
        /\ stored # NoConfig => stored.flag \in Nat /\ stored.flag <= flag
        /\ \A q \in ConfigReader : /\ asking[q].flag <= flag /\ asking[q].oldFlag <= flag
                                   /\ asking[q].since <= time
        /\ DOMAIN asking = ConfigReader /\ UNCHANGED <<time, flag, setting>>
        /\ asking[r].flag \in Nat /\ asking[r].oldFlag \in Nat /\ asking[r].since \in Nat
        /\ asking[r] = [at |-> asking[r].at, file |-> asking[r].file, since |-> asking[r].since,
             oldFlag |-> asking[r].oldFlag, flag |-> asking[r].flag, hit |-> asking[r].hit]
    BY DEF ConfigInv, ConfigBounds, ConfigClock, StoredIsRecent, AskingIsRecent, ReadCache,
           ReadFile, MergeFlags, WriteCache, AnswerConfig
  <1>2. \A q \in ConfigReader : q # r => asking'[q] = asking[q]
    BY <1>1 DEF ReadCache, ReadFile, MergeFlags, WriteCache, AnswerConfig
  <1>3. asking'[r].flag <= flag /\ asking'[r].oldFlag <= flag /\ asking'[r].since <= time
    <2>1. CASE ReadCache(r)
      <3> DEFINE New == [NotAsking EXCEPT !.at = "file", !.since = time, !.oldFlag = flag]
                 Found == [at |-> "merge", file |-> stored.file, since |-> time,
                           oldFlag |-> flag, flag |-> stored.flag, hit |-> TRUE]
      <3>1. New.flag = 0 /\ New.oldFlag = flag /\ New.since = time
        BY DEF NotAsking
      <3>2. Found.flag = stored.flag /\ Found.oldFlag = flag /\ Found.since = time
        OBVIOUS
      <3>3. asking'[r] = New \/ (stored # NoConfig /\ asking'[r] = Found)
        BY <1>1, <2>1 DEF ReadCache
      <3> HIDE DEF New, Found
      <3> QED
        BY <1>1, <3>1, <3>2, <3>3
    <2>2. CASE ReadFile(r)
      BY <1>1, <2>2 DEF ReadFile
    <2>3. CASE MergeFlags(r)
      BY <1>1, <2>3 DEF MergeFlags
    <2>4. CASE WriteCache(r)
      BY <1>1, <2>4 DEF WriteCache
    <2>5. CASE AnswerConfig(r)
      BY <1>1, <2>5 DEF AnswerConfig, NotAsking
    <2> QED
      BY <2>1, <2>2, <2>3, <2>4, <2>5
  <1>4. stored' # NoConfig => stored'.flag <= flag
    BY <1>1 DEF ReadCache, ReadFile, MergeFlags, WriteCache, AnswerConfig
  <1> QED
    BY <1>1, <1>2, <1>3, <1>4 DEF ConfigBounds

(* Theorem: type correctness of the public configuration.                  *)
THEOREM ConfigTypeCorrect == ConfigSpec => []ConfigTypeOK
  <1>1. ConfigInit => ConfigBounds
    BY ConfigAssumption DEF ConfigInit, ConfigBounds, NotAsking
  <1>2. ConfigInv /\ ConfigBounds /\ [ConfigNext]_configVars => ConfigBounds'
    <2> SUFFICES ASSUME ConfigInv, ConfigBounds, [ConfigNext]_configVars PROVE ConfigBounds'
      OBVIOUS
    <2>1. /\ time \in Nat /\ flag \in Nat /\ MaxFlags \in Nat
          /\ stored # NoConfig => stored.flag \in Nat
          /\ \A r \in ConfigReader : /\ asking[r].flag \in Nat /\ asking[r].oldFlag \in Nat
                                     /\ asking[r].since \in Nat
      BY ConfigAssumption DEF ConfigInv, ConfigClock, StoredIsRecent, AskingIsRecent
    <2>2. CASE \E e \in FlagEditor : SetFlag(e) \/ InvalidateConfig(e)
      BY <2>1, <2>2 DEF SetFlag, InvalidateConfig, ConfigBounds
    <2>3. CASE Deploy \/ ConfigTick
      BY <2>1, <2>3 DEF Deploy, ConfigTick, ConfigBounds
    <2>4. CASE UNCHANGED configVars
      BY <2>4 DEF configVars, ConfigBounds
    <2> QED
      BY <2>2, <2>3, <2>4, AskBounded DEF ConfigNext
  <1>3. ConfigInv /\ ConfigBounds => ConfigTypeOK
    BY ConfigAssumption
    DEF ConfigInv, ConfigBounds, ConfigClock, StoredIsRecent, AskingIsRecent, ConfigTypeOK
  <1> QED
    BY <1>1, <1>2, <1>3, ConfigInvAlways, PTL DEF ConfigSpec

-----------------------------------------------------------------------------
(* The menu                                                                *)

\* Menu m, seen at time t, misses no change that was committed more than k ticks before.
FreshIn(changes, m, t, k) ==
  m \in 0..Len(changes) /\ (m < Len(changes) => t <= changes[m + 1] + k)

(* Lemma: what is fresh is fresh enough for a longer delay.                *)
LEMMA FreshForLonger ==
  ASSUME NEW changes \in Seq(Nat), NEW m, NEW t \in Nat, NEW u \in Nat, NEW k \in Nat,
         NEW l \in Nat, FreshIn(changes, m, t, k), u + k <= t + l
  PROVE  FreshIn(changes, m, u, l)
  <1>1. m < Len(changes) => changes[m + 1] \in Nat
    BY DEF FreshIn
  <1> QED
    BY <1>1 DEF FreshIn

(* Lemma: a change that is committed now is missing since now.             *)
LEMMA FreshAfterChange ==
  ASSUME NEW changes \in Seq(Nat), NEW n \in Nat, NEW m, NEW t \in Nat, NEW k \in Nat,
         FreshIn(changes, m, t, k), t <= n + k
  PROVE  FreshIn(Append(changes, n), m, t, k)
  <1>1. /\ Len(Append(changes, n)) = Len(changes) + 1 /\ Len(changes) \in Nat
        /\ Append(changes, n)[Len(changes) + 1] = n
        /\ \A i \in 1..Len(changes) : Append(changes, n)[i] = changes[i]
    OBVIOUS
  <1>2. CASE m = Len(changes)
    BY <1>1, <1>2 DEF FreshIn
  <1>3. CASE m < Len(changes)
    BY <1>1, <1>3 DEF FreshIn
  <1> QED
    BY <1>1, <1>2, <1>3 DEF FreshIn

MenuClock ==
  /\ now \in Nat /\ version \in Nat /\ changed \in Seq(Nat)
  /\ \A i \in 1..Len(changed) : changed[i] <= now

Version == Nat \cup {NoEntry}
Entry == [menu : Nat, until : Nat, version : Version]

RemoteIsRecent ==
  remote # NoEntry =>
    /\ remote \in Entry
    /\ now <= remote.until /\ remote.until <= now + TTL
    /\ FreshIn(changed, remote.menu, remote.until, TTL + BuildTime)

CacheIsRecent(p) ==
  cache[p] # NoEntry =>
    /\ cache[p] \in Entry
    /\ cache[p].until <= now + TTL
    /\ FreshIn(changed, cache[p].menu, cache[p].until, 2 * TTL + BuildTime)

ReaderIsRecent(r) ==
  LET q == reader[r] IN
  /\ q \in [at : {"idle", "check", "hydrate", "build", "built", "stored", "answer"},
            menu : Nat, since : Nat, version : Version]
  /\ q.at \in {"check", "answer"} => FreshIn(changed, q.menu, now, 2 * TTL + BuildTime)
  /\ q.at \in {"built", "stored"} => /\ q.since <= now /\ now <= q.since + BuildTime
                                     /\ FreshIn(changed, q.menu, q.since, 0)

MenuInv ==
  /\ MenuClock /\ RemoteIsRecent
  /\ DOMAIN cache = Worker /\ \A p \in Worker : CacheIsRecent(p)
  /\ DOMAIN reader = Reader /\ \A r \in Reader : ReaderIsRecent(r)

(* Lemma: at the start nothing is cached.                                  *)
LEMMA MenuStart == MenuInit => MenuInv
  BY DEF MenuInit, MenuInv, MenuClock, RemoteIsRecent, CacheIsRecent, ReaderIsRecent, IdleReader,
         Version

(* Lemma: a request touches its own process and Redis only.                *)
LEMMA OthersRead ==
  ASSUME MenuInv, NEW r \in Reader, UNCHANGED <<now, changed, version>>,
         RemoteIsRecent', ReaderIsRecent(r)', CacheIsRecent(Home[r])',
         DOMAIN reader' = DOMAIN reader, DOMAIN cache' = DOMAIN cache,
         \A q \in Reader : q # r => reader'[q] = reader[q],
         \A p \in Worker : p # Home[r] => cache'[p] = cache[p]
  PROVE  MenuInv'
  <1>1. ASSUME NEW q \in Reader, q # r
        PROVE  ReaderIsRecent(q)'
    <2>1. reader'[q] = reader[q] /\ ReaderIsRecent(q)
      BY <1>1 DEF MenuInv
    <2> QED
      BY <2>1 DEF ReaderIsRecent
  <1>2. ASSUME NEW p \in Worker, p # Home[r]
        PROVE  CacheIsRecent(p)'
    <2>1. cache'[p] = cache[p] /\ CacheIsRecent(p)
      BY <1>2 DEF MenuInv
    <2> QED
      BY <2>1 DEF CacheIsRecent
  <1>3. MenuClock'
    BY DEF MenuInv, MenuClock
  <1> QED
    BY <1>1, <1>2, <1>3 DEF MenuInv

(* Lemma: a request keeps the invariant, whatever it finds and stores.     *)
LEMMA ReadKeeps ==
  ASSUME MenuInv, NEW r \in Reader,
         \/ LookUp(r) \/ CheckVersion(r) \/ Hydrate(r) \/ Build(r)
         \/ Store(r) \/ WriteRemote(r) \/ AnswerMenu(r)
  PROVE  MenuInv'
  <1> USE MenuAssumption
  <1> DEFINE p == Home[r]
             q == reader[r]
             New(s, m, t, v) == reader'[r] = [at |-> s, menu |-> m, since |-> t, version |-> v]
  <1>1. /\ MenuClock /\ RemoteIsRecent /\ CacheIsRecent(p) /\ ReaderIsRecent(r) /\ p \in Worker
        /\ r \in DOMAIN reader /\ p \in DOMAIN cache
        /\ UNCHANGED <<now, changed, version>>
    BY DEF MenuInv, LookUp, CheckVersion, Hydrate, Build, Store, WriteRemote, AnswerMenu
  <1>2. q = [at |-> q.at, menu |-> q.menu, since |-> q.since, version |-> q.version]
    BY <1>1 DEF ReaderIsRecent
  <1>3. /\ DOMAIN reader' = DOMAIN reader /\ DOMAIN cache' = DOMAIN cache
        /\ \A o \in Reader : o # r => reader'[o] = reader[o]
        /\ \A o \in Worker : o # p => cache'[o] = cache[o]
    BY DEF MenuInv, LookUp, CheckVersion, Hydrate, Build, Store, WriteRemote, AnswerMenu,
           MenuStep, Serve
  <1>4. q.at \in {"built", "stored"} =>
          /\ q.menu \in Nat /\ q.since \in Nat /\ q.version \in Version
          /\ q.since <= now /\ now <= q.since + BuildTime
          /\ FreshIn(changed, q.menu, q.since, 0)
    BY <1>1 DEF ReaderIsRecent
  <1>5. StoredVersion(r) \in Version
    BY <1>1 DEF StoredVersion, Version, MenuClock, ReaderIsRecent
  <1>6. RemoteIsRecent'
    <2>1. CASE UNCHANGED remote
      BY <1>1, <2>1 DEF RemoteIsRecent
    <2>2. ASSUME NEW v \in Nat \cup {NoEntry}, q.at = "stored",
                 remote' = [menu |-> q.menu, until |-> now + TTL, version |-> v]
          PROVE  RemoteIsRecent'
      <3>1. FreshIn(changed, q.menu, now + TTL, TTL + BuildTime)
        BY <1>1, <1>4, <2>2, FreshForLonger DEF MenuClock
      <3> QED
        BY <1>1, <1>4, <2>2, <3>1 DEF RemoteIsRecent, MenuClock, Entry, Version
    <2>3. ASSUME WriteRemote(r)
          PROVE  RemoteIsRecent'
      <3> DEFINE v == IF q.version = NoEntry THEN 0 ELSE q.version
      <3>1. v \in Nat \cup {NoEntry} /\ q.at = "stored"
        BY <1>4, <2>3 DEF WriteRemote, Version
      <3>2. UNCHANGED remote \/ remote' = [menu |-> q.menu, until |-> now + TTL, version |-> v]
        BY <2>3 DEF WriteRemote
      <3> HIDE DEF v
      <3> QED
        BY <2>1, <2>2, <3>1, <3>2
    <2> QED
      BY <2>1, <2>3 DEF LookUp, CheckVersion, Hydrate, Build, Store, AnswerMenu
  <1>7. CacheIsRecent(p)'
    <2>1. CASE UNCHANGED cache
      BY <1>1, <2>1 DEF CacheIsRecent
    <2>2. CASE cache'[p] = NoEntry
      BY <2>2 DEF CacheIsRecent
    <2>3. CASE /\ q.at = "built"
               /\ cache'[p] = [menu |-> q.menu, until |-> now + TTL, version |-> StoredVersion(r)]
      <3>1. FreshIn(changed, q.menu, now + TTL, 2 * TTL + BuildTime)
        BY <1>1, <1>4, <2>3, FreshForLonger DEF MenuClock
      <3> QED
        BY <1>1, <1>4, <1>5, <2>3, <3>1 DEF CacheIsRecent, MenuClock, Entry
    <2>4. CASE remote # NoEntry /\ cache'[p] = [remote EXCEPT !.until = now + TTL]
      <3>1. remote \in Entry /\ now <= remote.until
            /\ FreshIn(changed, remote.menu, remote.until, TTL + BuildTime)
        BY <1>1, <2>4 DEF RemoteIsRecent
      <3>2. cache'[p] = [menu |-> remote.menu, until |-> now + TTL, version |-> remote.version]
        BY <2>4, <3>1 DEF Entry
      <3>3. FreshIn(changed, remote.menu, now + TTL, 2 * TTL + BuildTime)
        BY <1>1, <3>1, FreshForLonger DEF MenuClock, Entry
      <3> QED
        BY <1>1, <3>1, <3>2, <3>3 DEF CacheIsRecent, MenuClock, Entry
    <2>5. ASSUME LookUp(r) \/ CheckVersion(r)
          PROVE  UNCHANGED cache \/ cache'[p] = NoEntry
      BY <1>1, <2>5 DEF LookUp, CheckVersion
    <2>6. ASSUME Hydrate(r)
          PROVE  \/ UNCHANGED cache
                 \/ remote # NoEntry /\ cache'[p] = [remote EXCEPT !.until = now + TTL]
      BY <1>1, <2>6 DEF Hydrate
    <2>7. ASSUME Store(r)
          PROVE  /\ q.at = "built"
                 /\ cache'[p] = [menu |-> q.menu, until |-> now + TTL,
                                 version |-> StoredVersion(r)]
      BY <1>1, <2>7 DEF Store
    <2>8. ASSUME Build(r) \/ WriteRemote(r) \/ AnswerMenu(r)
          PROVE  UNCHANGED cache
      BY <2>8 DEF Build, WriteRemote, AnswerMenu
    <2> QED
      BY <2>1, <2>2, <2>3, <2>4, <2>5, <2>6, <2>7, <2>8
  <1>8. ReaderIsRecent(r)'
    <2>1. ASSUME NEW s \in {"idle", "hydrate", "build"}, NEW m \in Nat, NEW t \in Nat,
                 NEW v \in Version, New(s, m, t, v)
          PROVE  ReaderIsRecent(r)'
      BY <2>1 DEF ReaderIsRecent
    <2>2. ASSUME NEW s \in {"check", "answer"}, NEW m \in Nat, NEW t \in Nat,
                 NEW v \in Version, New(s, m, t, v), FreshIn(changed, m, now, 2 * TTL + BuildTime)
          PROVE  ReaderIsRecent(r)'
      BY <1>1, <2>2 DEF ReaderIsRecent
    <2>3. ASSUME NEW s \in {"built", "stored"}, NEW m \in Nat, NEW t \in Nat,
                 NEW v \in Version, New(s, m, t, v), t <= now, now <= t + BuildTime,
                 FreshIn(changed, m, t, 0)
          PROVE  ReaderIsRecent(r)'
      BY <1>1, <2>3 DEF ReaderIsRecent
    <2>4. /\ q.menu \in Nat /\ q.since \in Nat /\ q.version \in Version
          /\ version \in Version /\ NoEntry \in Version /\ now \in Nat
      BY <1>1 DEF ReaderIsRecent, MenuClock, Version
    <2>5. CASE LookUp(r)
      <3>1. CASE New("hydrate", q.menu, q.since, q.version)
        BY <2>1, <2>4, <3>1
      <3>2. CASE /\ cache[p] # NoEntry /\ ~ cache[p].until < now
                 /\ New("check", cache[p].menu, q.since, cache[p].version)
        <4>1. /\ cache[p] \in Entry
              /\ FreshIn(changed, cache[p].menu, cache[p].until, 2 * TTL + BuildTime)
          BY <1>1, <3>2 DEF CacheIsRecent
        <4>2. FreshIn(changed, cache[p].menu, now, 2 * TTL + BuildTime)
          BY <1>1, <3>2, <4>1, FreshForLonger DEF MenuClock, Entry
        <4> QED
          BY <2>2, <2>4, <3>2, <4>1, <4>2 DEF Entry
      <3> QED
        BY <1>1, <1>2, <2>5, <3>1, <3>2 DEF LookUp, MenuStep
    <2>6. CASE CheckVersion(r)
      <3>1. CASE New("answer", q.menu, 0, NoEntry)
        <4>1. FreshIn(changed, q.menu, now, 2 * TTL + BuildTime)
          BY <1>1, <2>6 DEF CheckVersion, ReaderIsRecent
        <4> QED
          BY <2>2, <2>4, <3>1, <4>1
      <3>2. CASE New("hydrate", 0, 0, version)
        BY <2>1, <2>4, <3>2
      <3> QED
        BY <1>1, <2>6, <3>1, <3>2 DEF CheckVersion, Serve, IdleReader
    <2>7. CASE Hydrate(r)
      <3>1. CASE New("build", q.menu, q.since, q.version)
        BY <2>1, <2>4, <3>1
      <3>2. CASE remote # NoEntry /\ New("answer", remote.menu, 0, NoEntry)
        <4>1. remote \in Entry /\ now <= remote.until
              /\ FreshIn(changed, remote.menu, remote.until, TTL + BuildTime)
          BY <1>1, <3>2 DEF RemoteIsRecent
        <4>2. FreshIn(changed, remote.menu, now, 2 * TTL + BuildTime)
          BY <1>1, <4>1, FreshForLonger DEF MenuClock, Entry
        <4> QED
          BY <2>2, <2>4, <3>2, <4>1, <4>2 DEF Entry
      <3> QED
        BY <1>1, <1>2, <2>7, <3>1, <3>2 DEF Hydrate, MenuStep, Serve, IdleReader
    <2>8. CASE Build(r)
      <3>1. New("built", Len(changed), now, q.version)
        BY <1>1, <1>2, <2>8 DEF Build, Current
      <3>2. Len(changed) \in Nat /\ FreshIn(changed, Len(changed), now, 0)
        BY <1>1 DEF FreshIn, MenuClock
      <3> QED
        BY <2>3, <2>4, <3>1, <3>2
    <2>9. CASE Store(r)
      <3>1. New("stored", q.menu, q.since, StoredVersion(r)) /\ q.at = "built"
        BY <1>1, <1>2, <2>9 DEF Store
      <3> QED
        BY <1>4, <1>5, <2>3, <3>1
    <2>10. CASE WriteRemote(r)
      <3>1. New("answer", q.menu, 0, NoEntry) /\ q.at = "stored"
        BY <1>1, <2>10 DEF WriteRemote, Serve, IdleReader
      <3>2. FreshIn(changed, q.menu, now, 2 * TTL + BuildTime)
        BY <1>1, <1>4, <3>1, FreshForLonger DEF MenuClock
      <3> QED
        BY <2>2, <2>4, <3>1, <3>2
    <2>11. CASE AnswerMenu(r)
      <3>1. New("idle", 0, 0, NoEntry)
        BY <1>1, <2>11 DEF AnswerMenu, IdleReader
      <3> QED
        BY <2>1, <2>4, <3>1
    <2> QED
      BY <2>5, <2>6, <2>7, <2>8, <2>9, <2>10, <2>11
  <1> QED
    BY <1>1, <1>3, <1>6, <1>7, <1>8, OthersRead

(* Lemma: a commit that changes the menu is missing from nothing for long. *)
LEMMA ChangeKeeps ==
  ASSUME MenuInv, changed' = Append(changed, now),
         UNCHANGED <<now, version, remote, cache, disabled, reader>>
  PROVE  MenuInv'
  <1> USE MenuAssumption
  <1>1. MenuClock /\ RemoteIsRecent
    BY DEF MenuInv
  <1>2. MenuClock'
    BY <1>1 DEF MenuClock
  <1>3. RemoteIsRecent'
    BY <1>1, FreshAfterChange DEF MenuClock, RemoteIsRecent, Entry
  <1>4. ASSUME NEW p \in Worker
        PROVE  CacheIsRecent(p)'
    <2>1. CacheIsRecent(p)
      BY DEF MenuInv
    <2> QED
      BY <1>1, <2>1, FreshAfterChange DEF MenuClock, CacheIsRecent, Entry
  <1>5. ASSUME NEW r \in Reader
        PROVE  ReaderIsRecent(r)'
    <2>1. ReaderIsRecent(r)
      BY DEF MenuInv
    <2> QED
      BY <1>1, <2>1, FreshAfterChange DEF MenuClock, ReaderIsRecent
  <1> QED
    BY <1>2, <1>3, <1>4, <1>5 DEF MenuInv

(* Lemma: edits, errors of Redis and time keep the invariant.              *)
LEMMA MenuWorldKeeps ==
  ASSUME MenuInv,
         \/ \E p \in Editor : \/ SetStatus(p) \/ EndEdit(p) \/ DeleteRemote(p) \/ BumpVersion(p)
                              \/ LoseTask(p)
         \/ \E p \in Worker : Disable(p)
         \/ MenuTick
  PROVE  MenuInv'
  <1> USE MenuAssumption
  <1>1. CASE \E p \in Editor : EndEdit(p)
    <2>1. CASE UNCHANGED <<now, changed, version, remote, cache, reader>>
      BY <2>1 DEF MenuInv, MenuClock, RemoteIsRecent, CacheIsRecent, ReaderIsRecent
    <2> QED
      BY <1>1, <2>1, ChangeKeeps DEF EndEdit
  <1>2. CASE \E p \in Editor : SetStatus(p) \/ DeleteRemote(p) \/ BumpVersion(p) \/ LoseTask(p)
    <2>1. PICK e \in Editor : SetStatus(e) \/ DeleteRemote(e) \/ BumpVersion(e) \/ LoseTask(e)
      BY <1>2
    <2>2. /\ UNCHANGED <<now, changed, reader>>
          /\ remote' \in {remote, NoEntry}
          /\ version' \in {version, version + 1}
          /\ cache' \in {cache, [cache EXCEPT ![e] = NoEntry]}
      BY <2>1 DEF SetStatus, DeleteRemote, BumpVersion, LoseTask
    <2>3. MenuClock' /\ RemoteIsRecent'
      BY <2>2 DEF MenuInv, MenuClock, RemoteIsRecent
    <2>4. DOMAIN cache' = Worker /\ \A p \in Worker : cache'[p] \in {cache[p], NoEntry}
      BY <2>2 DEF MenuInv
    <2>5. \A p \in Worker : CacheIsRecent(p)'
      BY <2>2, <2>4 DEF MenuInv, CacheIsRecent
    <2>6. \A r \in Reader : ReaderIsRecent(r)'
      BY <2>2 DEF MenuInv, ReaderIsRecent
    <2> QED
      BY <2>2, <2>3, <2>4, <2>5, <2>6 DEF MenuInv
  <1>3. CASE \E p \in Worker : Disable(p)
    BY <1>3 DEF Disable, MenuInv, MenuClock, RemoteIsRecent, CacheIsRecent, ReaderIsRecent
  <1>4. CASE MenuTick
    <2>1. /\ now' = now + 1 /\ UNCHANGED <<changed, version, cache, reader>>
          /\ remote' = IF remote # NoEntry /\ remote.until <= now' THEN NoEntry ELSE remote
          /\ \A r \in Reader :
               /\ reader[r].at \in {"idle", "build", "built", "stored"}
               /\ reader[r].at \in {"built", "stored"} => now - reader[r].since < BuildTime
      BY <1>4 DEF MenuTick
    <2>2. MenuClock'
      BY <2>1 DEF MenuInv, MenuClock
    <2>3. RemoteIsRecent'
      BY <2>1 DEF MenuInv, MenuClock, RemoteIsRecent, Entry
    <2>4. \A p \in Worker : CacheIsRecent(p)'
      BY <2>1 DEF MenuInv, MenuClock, CacheIsRecent, Entry
    <2>5. \A r \in Reader : ReaderIsRecent(r)'
      BY <2>1 DEF MenuInv, MenuClock, ReaderIsRecent
    <2> QED
      BY <2>1, <2>2, <2>3, <2>4, <2>5 DEF MenuInv
  <1> QED
    BY <1>1, <1>2, <1>3, <1>4

(* Lemma: these facts are an inductive invariant of the menu.              *)
LEMMA MenuInvAlways == MenuSpec => []MenuInv
  <1>1. MenuInv /\ [MenuNext]_menuVars => MenuInv'
    <2>1. CASE UNCHANGED menuVars
      BY <2>1 DEF menuVars, MenuInv, MenuClock, RemoteIsRecent, CacheIsRecent, ReaderIsRecent
    <2> QED
      BY <2>1, ReadKeeps, MenuWorldKeeps DEF MenuNext
  <1> QED
    BY <1>1, MenuStart, PTL DEF MenuSpec

(* Theorem: a change that a served menu does not show was committed at     *)
(* most two times to live and the time of a build ago.                     *)
THEOREM ChangeIsServedAlways == MenuSpec => []ChangeIsServed
  <1>1. MenuInv => ChangeIsServed
    <2> SUFFICES ASSUME MenuInv, NEW r \in Reader, reader[r].at = "answer",
                        reader[r].menu < Len(changed)
                 PROVE  now <= changed[reader[r].menu + 1] + 2 * TTL + BuildTime
      BY DEF ChangeIsServed, Current
    <2>1. ReaderIsRecent(r) /\ MenuClock
      BY DEF MenuInv
    <2>2. changed[reader[r].menu + 1] \in Nat
      BY <2>1 DEF ReaderIsRecent, MenuClock, FreshIn
    <2>3. now <= changed[reader[r].menu + 1] + (2 * TTL + BuildTime)
      BY <2>1 DEF ReaderIsRecent, FreshIn
    <2> QED
      BY <2>1, <2>2, <2>3, MenuAssumption DEF MenuClock
  <1> QED
    BY <1>1, MenuInvAlways, PTL

\* A version that there has been, or none.
KnownVersion(v) == (v \in Nat /\ v <= version) \/ v = NoEntry

ReaderInBounds(r) ==
  /\ reader[r].menu \in 0..Current /\ reader[r].since \in 0..now
  /\ KnownVersion(reader[r].version)

CacheInBounds(p) == cache[p] # NoEntry => KnownVersion(cache[p].version)

RemoteInBounds == remote # NoEntry => remote.version \in Nat /\ remote.version <= version

EditorInBounds(p) == /\ editor[p].edit \in {"none", "set"}
                     /\ editor[p].task \in {"none", "delete", "bump"}

\* What the bounds of the types add to the invariant.
MenuBounds ==
  /\ RemoteInBounds /\ disabled \subseteq Worker
  /\ \A p \in Worker : CacheInBounds(p)
  /\ \A r \in Reader : ReaderInBounds(r)
  /\ DOMAIN editor = Editor /\ \A p \in Editor : EditorInBounds(p)

(* Lemma: what one request leaves alone stays within the bounds.           *)
LEMMA OthersInBounds ==
  ASSUME MenuBounds, NEW r \in Reader, UNCHANGED <<now, changed, version, disabled, editor>>,
         RemoteInBounds', ReaderInBounds(r)', CacheInBounds(Home[r])',
         \A q \in Reader : q # r => reader'[q] = reader[q],
         \A p \in Worker : p # Home[r] => cache'[p] = cache[p]
  PROVE  MenuBounds'
  <1>1. ASSUME NEW q \in Reader
        PROVE  ReaderInBounds(q)'
    BY DEF MenuBounds, ReaderInBounds, KnownVersion, Current
  <1>2. ASSUME NEW p \in Worker
        PROVE  CacheInBounds(p)'
    BY DEF MenuBounds, CacheInBounds, KnownVersion
  <1>3. \A p \in Editor : EditorInBounds(p)'
    BY DEF MenuBounds, EditorInBounds
  <1> QED
    BY <1>1, <1>2, <1>3 DEF MenuBounds

(* Lemma: a request never meets a version or a menu that there has not     *)
(* been.                                                                   *)
LEMMA ReadBounded ==
  ASSUME MenuInv, MenuBounds, NEW r \in Reader,
         \/ LookUp(r) \/ CheckVersion(r) \/ Hydrate(r) \/ Build(r) \/ Store(r) \/ WriteRemote(r)
         \/ AnswerMenu(r)
  PROVE  MenuBounds'
  <1> USE MenuAssumption
  <1> DEFINE p == Home[r]
             q == reader[r]
             Next(s, m, t, v) == /\ reader'[r].at = s /\ reader'[r].menu = m
                                 /\ reader'[r].since = t /\ reader'[r].version = v
  <1>1. /\ p \in Worker /\ RemoteInBounds /\ ReaderInBounds(r) /\ CacheInBounds(p)
        /\ now \in Nat /\ version \in Nat /\ Current \in Nat /\ p \in DOMAIN cache
        /\ r \in DOMAIN reader
        /\ q = [at |-> q.at, menu |-> q.menu, since |-> q.since, version |-> q.version]
        /\ remote # NoEntry => remote \in Entry /\ remote.menu \in 0..Current
        /\ cache[p] # NoEntry => cache[p].menu \in 0..Current
    BY DEF MenuInv, MenuBounds, MenuClock, ReaderIsRecent, RemoteIsRecent, CacheIsRecent, FreshIn,
           Current
  <1>2. /\ UNCHANGED <<now, changed, version, disabled, editor>>
        /\ \A x \in Reader : x # r => reader'[x] = reader[x]
        /\ \A y \in Worker : y # p => cache'[y] = cache[y]
    BY DEF MenuInv, LookUp, CheckVersion, Hydrate, Build, Store, WriteRemote, AnswerMenu, MenuStep,
           Serve
  <1>3. ASSUME NEW s, NEW m \in 0..Current, NEW t \in 0..now, NEW v, KnownVersion(v),
               Next(s, m, t, v)
        PROVE  ReaderInBounds(r)'
    BY <1>2, <1>3 DEF ReaderInBounds, KnownVersion, Current
  <1>4. 0 \in 0..Current /\ 0 \in 0..now /\ Current \in 0..Current /\ now \in 0..now
        /\ KnownVersion(NoEntry) /\ KnownVersion(version)
    BY <1>1 DEF KnownVersion
  <1>5. q.menu \in 0..Current /\ q.since \in 0..now /\ KnownVersion(q.version)
    BY <1>1 DEF ReaderInBounds
  <1>6. UNCHANGED cache => CacheInBounds(p)'
    BY <1>1, <1>2 DEF CacheInBounds, KnownVersion
  <1>7. UNCHANGED remote => RemoteInBounds'
    BY <1>1, <1>2 DEF RemoteInBounds
  <1>8. cache'[p] = NoEntry => CacheInBounds(p)'
    BY DEF CacheInBounds
  <1>9. ASSUME NEW m, Serve(r, m)
        PROVE  Next("answer", m, 0, NoEntry)
    BY <1>1, <1>9 DEF Serve, IdleReader
  <1>10. ASSUME NEW s, MenuStep(r, s)
         PROVE  Next(s, q.menu, q.since, q.version)
    BY <1>1, <1>10 DEF MenuStep
  <1>11. CASE LookUp(r)
    <2>1. CASE cache[p] = NoEntry \/ cache[p].until < now
      <3>1. Next("hydrate", q.menu, q.since, q.version) /\ cache'[p] = NoEntry /\ UNCHANGED remote
        BY <1>1, <1>10, <1>11, <2>1 DEF LookUp
      <3> QED
        BY <1>2, <1>3, <1>5, <1>7, <1>8, <3>1, OthersInBounds
    <2>2. CASE ~ (cache[p] = NoEntry \/ cache[p].until < now)
      <3>1. /\ Next("check", cache[p].menu, q.since, cache[p].version)
            /\ UNCHANGED <<cache, remote>>
        <4>1. /\ reader' = [reader EXCEPT ![r].at = "check", ![r].menu = cache[p].menu,
                                           ![r].version = cache[p].version]
              /\ UNCHANGED <<cache, remote>>
          BY <1>11, <2>2 DEF LookUp
        <4> HIDE DEF p
        <4> QED
          BY <1>1, <4>1
      <3>2. KnownVersion(cache[p].version) /\ cache[p].menu \in 0..Current
        BY <1>1, <2>2 DEF CacheInBounds
      <3> QED
        BY <1>2, <1>3, <1>5, <1>6, <1>7, <3>1, <3>2, OthersInBounds
    <2> QED
      BY <2>1, <2>2
  <1>12. CASE CheckVersion(r)
    <2>1. CASE p \in disabled \/ q.version = version
      <3>1. Next("answer", q.menu, 0, NoEntry) /\ UNCHANGED <<cache, remote>>
        BY <1>1, <1>9, <1>12, <2>1 DEF CheckVersion
      <3> QED
        BY <1>2, <1>3, <1>4, <1>5, <1>6, <1>7, <3>1, OthersInBounds
    <2>2. CASE ~ (p \in disabled \/ q.version = version)
      <3>1. Next("hydrate", 0, 0, version) /\ cache'[p] = NoEntry /\ UNCHANGED remote
        BY <1>1, <1>12, <2>2 DEF CheckVersion, IdleReader
      <3> QED
        BY <1>2, <1>3, <1>4, <1>7, <1>8, <3>1, OthersInBounds
    <2> QED
      BY <2>1, <2>2
  <1>13. CASE Hydrate(r)
    <2>1. CASE p \in disabled \/ remote = NoEntry
      <3>1. Next("build", q.menu, q.since, q.version) /\ UNCHANGED <<cache, remote>>
        BY <1>1, <1>10, <1>13, <2>1 DEF Hydrate
      <3> QED
        BY <1>2, <1>3, <1>5, <1>6, <1>7, <3>1, OthersInBounds
    <2>2. CASE ~ (p \in disabled \/ remote = NoEntry)
      <3>1. /\ Next("answer", remote.menu, 0, NoEntry) /\ UNCHANGED remote
            /\ cache'[p] = [remote EXCEPT !.until = now + TTL] /\ remote # NoEntry
        BY <1>1, <1>9, <1>13, <2>2 DEF Hydrate
      <3>2. cache'[p].version = remote.version /\ KnownVersion(remote.version)
        BY <1>1, <3>1 DEF Entry, RemoteInBounds, KnownVersion
      <3>3. CacheInBounds(p)'
        BY <1>2, <3>2 DEF CacheInBounds, KnownVersion
      <3> QED
        BY <1>1, <1>2, <1>3, <1>4, <1>7, <3>1, <3>3, OthersInBounds
    <2> QED
      BY <2>1, <2>2
  <1>14. CASE Build(r)
    <2>1. Next("built", Current, now, q.version) /\ UNCHANGED <<cache, remote>>
      BY <1>1, <1>14 DEF Build
    <2> QED
      BY <1>2, <1>3, <1>4, <1>5, <1>6, <1>7, <2>1, OthersInBounds
  <1>15. CASE Store(r)
    <2>1. /\ Next("stored", q.menu, q.since, StoredVersion(r)) /\ UNCHANGED remote
          /\ cache'[p].version = StoredVersion(r)
      BY <1>1, <1>15 DEF Store
    <2>2. KnownVersion(StoredVersion(r))
      BY <1>4, <1>5 DEF StoredVersion
    <2>3. CacheInBounds(p)'
      BY <1>2, <2>1, <2>2 DEF CacheInBounds, KnownVersion
    <2> QED
      BY <1>2, <1>3, <1>5, <1>7, <2>1, <2>2, <2>3, OthersInBounds
  <1>16. CASE WriteRemote(r)
    <2>1. Next("answer", q.menu, 0, NoEntry) /\ UNCHANGED cache
      BY <1>9, <1>16 DEF WriteRemote
    <2>2. remote' = remote \/ remote'.version = IF q.version = NoEntry THEN 0 ELSE q.version
      BY <1>16 DEF WriteRemote
    <2>3. RemoteInBounds'
      BY <1>1, <1>2, <1>5, <2>2 DEF RemoteInBounds, KnownVersion
    <2> QED
      BY <1>2, <1>3, <1>4, <1>5, <1>6, <2>1, <2>3, OthersInBounds
  <1>17. CASE AnswerMenu(r)
    <2>1. Next("idle", 0, 0, NoEntry) /\ UNCHANGED <<cache, remote>>
      BY <1>1, <1>17 DEF AnswerMenu, IdleReader
    <2> QED
      BY <1>2, <1>3, <1>4, <1>6, <1>7, <2>1, OthersInBounds
  <1> QED
    BY <1>11, <1>12, <1>13, <1>14, <1>15, <1>16, <1>17

(* Lemma: nor do edits, errors and time leave the bounds.                  *)
LEMMA MenuWorldBounded ==
  ASSUME MenuInv, MenuBounds,
         \/ \E p \in Editor : \/ SetStatus(p) \/ EndEdit(p) \/ DeleteRemote(p) \/ BumpVersion(p)
                              \/ LoseTask(p)
         \/ (\E p \in Worker : Disable(p)) \/ MenuTick
  PROVE  MenuBounds'
  <1>1. /\ now \in Nat /\ version \in Nat /\ Current \in Nat /\ changed \in Seq(Nat)
        /\ DOMAIN cache = Worker /\ Current = Len(changed)
    BY DEF MenuInv, MenuClock, Current
  <1>2. /\ version' \in Nat /\ version <= version' /\ now' \in Nat /\ now <= now'
        /\ Current' \in Nat /\ Current <= Current'
    <2>1. \A x \in Nat : Len(Append(changed, x)) = Len(changed) + 1
      BY <1>1
    <2> QED
      BY <1>1, <2>1 DEF SetStatus, EndEdit, DeleteRemote, BumpVersion, LoseTask, Disable, MenuTick,
                        Current
  <1>3. UNCHANGED reader
    BY DEF SetStatus, EndEdit, DeleteRemote, BumpVersion, LoseTask, Disable, MenuTick
  <1>4. \A p \in Worker : cache'[p] = NoEntry \/ cache'[p] = cache[p]
    BY <1>1 DEF SetStatus, EndEdit, DeleteRemote, BumpVersion, LoseTask, Disable, MenuTick
  <1>5. remote' = NoEntry \/ remote' = remote
    BY DEF SetStatus, EndEdit, DeleteRemote, BumpVersion, LoseTask, Disable, MenuTick
  <1>6. disabled' \subseteq Worker
    BY DEF MenuBounds, SetStatus, EndEdit, DeleteRemote, BumpVersion, LoseTask, Disable, MenuTick
  <1>7. DOMAIN editor' = Editor /\ \A p \in Editor : EditorInBounds(p)'
    <2>1. DOMAIN editor = Editor /\ \A p \in Editor : EditorInBounds(p)
      BY DEF MenuBounds
    <2>2. CASE \E p \in Editor : SetStatus(p)
      BY <2>1, <2>2 DEF SetStatus, EditorInBounds
    <2>3. CASE \E p \in Editor : EndEdit(p)
      BY <2>1, <2>3 DEF EndEdit, EditorInBounds
    <2>4. CASE \E p \in Editor : DeleteRemote(p)
      BY <2>1, <2>4 DEF DeleteRemote, EditorInBounds
    <2>5. CASE \E p \in Editor : BumpVersion(p)
      BY <2>1, <2>5 DEF BumpVersion, EditorInBounds
    <2>6. CASE \E p \in Editor : LoseTask(p)
      BY <2>1, <2>6 DEF LoseTask, EditorInBounds
    <2>7. CASE UNCHANGED editor
      BY <2>1, <2>7 DEF EditorInBounds
    <2> QED
      BY <2>2, <2>3, <2>4, <2>5, <2>6, <2>7 DEF Disable, MenuTick
  <1>8. \A v : KnownVersion(v) => KnownVersion(v)'
    BY <1>1, <1>2 DEF KnownVersion
  <1>9. \A r \in Reader : ReaderInBounds(r)'
    BY <1>1, <1>2, <1>3, <1>8 DEF MenuBounds, ReaderInBounds
  <1>10. \A p \in Worker : CacheInBounds(p)'
    BY <1>4, <1>8 DEF MenuBounds, CacheInBounds
  <1>11. RemoteInBounds'
    BY <1>1, <1>2, <1>5 DEF MenuBounds, RemoteInBounds
  <1> QED
    BY <1>6, <1>7, <1>9, <1>10, <1>11 DEF MenuBounds

(* Theorem: type correctness of the menu and its caches.                   *)
THEOREM MenuTypeCorrect == MenuSpec => []MenuTypeOK
  <1>1. MenuInit => MenuBounds
    BY DEF MenuInit, MenuBounds, RemoteInBounds, CacheInBounds, ReaderInBounds, EditorInBounds,
           KnownVersion, IdleReader, Current
  <1>2. MenuInv /\ MenuBounds /\ [MenuNext]_menuVars => MenuBounds'
    <2>1. CASE UNCHANGED menuVars
      BY <2>1 DEF menuVars, MenuBounds, RemoteInBounds, CacheInBounds, ReaderInBounds,
                  EditorInBounds, KnownVersion, Current
    <2> QED
      BY <2>1, ReadBounded, MenuWorldBounded DEF MenuNext
  <1>3. MenuInv /\ MenuBounds => MenuTypeOK
    <2> SUFFICES ASSUME MenuInv, MenuBounds PROVE MenuTypeOK
      OBVIOUS
    <2>1. now \in Nat /\ version \in Nat /\ changed \in Seq(Nat)
      BY DEF MenuInv, MenuClock
    <2>2. \A v : KnownVersion(v) => v \in 0..version \cup {NoEntry}
      BY <2>1 DEF KnownVersion
    <2>3. remote # NoEntry => /\ remote.menu \in 0..Current /\ remote.until \in Nat
                              /\ remote.version \in 0..version
      BY <2>1 DEF MenuInv, MenuBounds, RemoteInBounds, RemoteIsRecent, FreshIn, Current, Entry
    <2>4. \A p \in Worker :
            cache[p] # NoEntry => /\ cache[p].menu \in 0..Current /\ cache[p].until \in Nat
                                  /\ cache[p].version \in 0..version \cup {NoEntry}
      BY <2>2 DEF MenuInv, MenuBounds, CacheInBounds, CacheIsRecent, FreshIn, Current, Entry
    <2>5. \A r \in Reader :
            /\ reader[r].at \in {"idle", "check", "hydrate", "build", "built", "stored", "answer"}
            /\ reader[r].menu \in 0..Current /\ reader[r].since \in 0..now
            /\ reader[r].version \in 0..version \cup {NoEntry}
      BY <2>2 DEF MenuInv, MenuBounds, ReaderInBounds, ReaderIsRecent
    <2> QED
      BY <2>1, <2>3, <2>4, <2>5 DEF MenuBounds, EditorInBounds, MenuTypeOK
  <1> QED
    BY <1>1, <1>2, <1>3, MenuInvAlways, PTL DEF MenuSpec

-----------------------------------------------------------------------------
(* The dashboard                                                           *)

\* A transaction under way stamps later than the last one, and is not older than CommitTime.
SaleClock ==
  /\ tick \in Nat \ {0} /\ sale \in [Sale -> Nat] /\ writing \in [Sale -> Nat]
  /\ \A o \in Sale : writing[o] # 0 => /\ sale[o] <= writing[o] /\ writing[o] <= tick
                                       /\ tick <= writing[o] + CommitTime
  /\ \A o \in Sale : sale[o] <= tick

Board == [start : Int, end : Nat, read : Seq(SUBSET Sale), previous : SUBSET Sale, until : Nat]

\* Of board b, with the orders as in s at time t: its sections hold what was at rest before
\* it, and nothing that belongs to the days before.
TrueBoard(b, s, t) ==
  /\ b \in Board /\ b.end <= t
  /\ \A o \in Sale, i \in 1..Len(b.read) :
       /\ s[o] # 0 /\ b.start <= s[o] /\ s[o] + CommitTime < b.end => o \in b.read[i]
       /\ o \in b.read[i] => s[o] # 0 /\ b.start <= s[o]
       /\ o \in b.read[i] => o \notin b.previous

KeptIsTrue ==
  board # NoBoard => /\ TrueBoard(board, sale, tick)
                     /\ board.until <= board.end + BoardTTL + ReadTime
                     /\ cleared <= board.end + ReadTime

ManagerIsTrue(m) ==
  LET q == manager[m] IN
  /\ q \in [at : {"idle", "read", "compare", "keep", "answer"}, since : Nat, board : Board]
  /\ TrueBoard(q.board, sale, tick)
  /\ q.at # "idle" => q.since <= tick /\ tick <= q.since + ReadTime
  /\ q.at \in {"read", "compare", "keep"} => q.board.end = q.since
  /\ q.at \in {"read", "compare"} => q.board.previous = {}
  /\ q.at = "answer" => /\ q.since < q.board.end + BoardTTL + ReadTime
                        /\ cleared < q.since => cleared <= q.board.end + ReadTime

BoardInv ==
  /\ SaleClock /\ KeptIsTrue /\ cleared \in Nat /\ cleared <= tick
  /\ DOMAIN manager = Manager /\ \A m \in Manager : ManagerIsTrue(m)

(* Lemma: the empty board has no section.                                  *)
LEMMA EmptyFields ==
  /\ EmptyBoard \in Board
  /\ EmptyBoard.end = 0 /\ Len(EmptyBoard.read) = 0 /\ EmptyBoard.previous = {}
  <1>1. /\ EmptyBoard.start = 0 /\ EmptyBoard.end = 0 /\ EmptyBoard.read = <<>>
        /\ EmptyBoard.previous = {} /\ EmptyBoard.until = 0
    BY DEF EmptyBoard
  <1>2. EmptyBoard \in Board
    BY DEF EmptyBoard, Board
  <1> QED
    BY <1>1, <1>2

(* Lemma: a board without sections is true.                                *)
LEMMA EmptyIsTrue ==
  ASSUME NEW c \in Board, NEW s, NEW t, c.end <= t, Len(c.read) = 0
  PROVE  TrueBoard(c, s, t)
  BY DEF TrueBoard

(* Lemma: so is what a request begins with, and nobody's request.          *)
LEMMA IdleIsTrue ==
  ASSUME tick \in Nat
  PROVE  TrueBoard(EmptyBoard, sale, tick)
  BY EmptyFields, EmptyIsTrue

(* Lemma: nobody is asking at the start.                                   *)
LEMMA BoardStart == DashboardInit => BoardInv
  <1> SUFFICES ASSUME DashboardInit PROVE BoardInv
    OBVIOUS
  <1>1. NotOpen = [at |-> "idle", since |-> 0, board |-> EmptyBoard]
    BY DEF NotOpen
  <1>2. tick \in Nat \ {0}
    BY DashboardAssumption DEF DashboardInit
  <1>3. TrueBoard(EmptyBoard, sale, tick)
    BY <1>2, IdleIsTrue
  <1>4. \A m \in Manager : ManagerIsTrue(m)
    BY <1>1, <1>3 DEF DashboardInit, ManagerIsTrue, TrueBoard
  <1> QED
    BY <1>2, <1>4, DashboardAssumption DEF DashboardInit, BoardInv, SaleClock, KeptIsTrue

(* Lemma: a request touches its own answer and what the process keeps.     *)
LEMMA OthersOpen ==
  ASSUME BoardInv, NEW m \in Manager, UNCHANGED <<tick, sale, writing, cleared>>,
         DOMAIN manager' = DOMAIN manager,
         \A q \in Manager : q # m => manager'[q] = manager[q],
         KeptIsTrue', ManagerIsTrue(m)'
  PROVE  BoardInv'
  <1>1. ASSUME NEW q \in Manager, q # m
        PROVE  ManagerIsTrue(q)'
    <2>1. manager'[q] = manager[q] /\ ManagerIsTrue(q)
      BY <1>1 DEF BoardInv
    <2> QED
      BY <2>1 DEF ManagerIsTrue
  <1>2. SaleClock'
    BY DEF BoardInv, SaleClock
  <1> QED
    BY <1>1, <1>2 DEF BoardInv

(* Lemma: an order is in a section now unless it was updated around then.  *)
LEMMA CountedNow ==
  ASSUME BoardInv, NEW from \in Int, NEW to \in Nat, NEW o \in Sale
  PROVE  /\ Counted(from, to) \in SUBSET Sale
         /\ sale[o] # 0 /\ from <= sale[o] /\ sale[o] + CommitTime < to => o \in Counted(from, to)
         /\ o \in Counted(from, to) => sale[o] # 0 /\ from <= sale[o] /\ sale[o] < to
  BY DashboardAssumption DEF Counted, BoardInv, SaleClock

(* Lemma: another section, read now, is as true as those before it.        *)
LEMMA SectionIsTrue ==
  ASSUME BoardInv, NEW b, NEW C, NEW c \in Board, TrueBoard(b, sale, tick), b.previous = {},
         C = Counted(b.start, b.end), c.read = Append(b.read, C),
         c.start = b.start, c.end = b.end, c.previous = b.previous
  PROVE  TrueBoard(c, sale, tick)
  <1>1. /\ b.read \in Seq(SUBSET Sale) /\ b.start \in Int /\ b.end \in Nat /\ b.end <= tick
    BY DEF TrueBoard, Board
  <1>2. /\ C \in SUBSET Sale
        /\ \A o \in Sale :
             /\ sale[o] # 0 /\ b.start <= sale[o] /\ sale[o] + CommitTime < b.end => o \in C
             /\ o \in C => sale[o] # 0 /\ b.start <= sale[o]
    <2>1. C \in SUBSET Sale
      BY DEF Counted
    <2> QED
      BY <1>1, <2>1, CountedNow
  <1>3. /\ Len(b.read) \in Nat /\ Len(c.read) = Len(b.read) + 1
        /\ c.read[Len(b.read) + 1] = C
        /\ \A i \in 1..Len(b.read) : c.read[i] = b.read[i]
    BY <1>1, <1>2
  <1>4. ASSUME NEW o \in Sale, NEW i \in 1..Len(c.read)
        PROVE  /\ sale[o] # 0 /\ b.start <= sale[o] /\ sale[o] + CommitTime < b.end
                    => o \in c.read[i]
               /\ o \in c.read[i] => sale[o] # 0 /\ b.start <= sale[o]
    <2>1. CASE i = Len(b.read) + 1
      BY <1>2, <1>3, <2>1
    <2>2. CASE i \in 1..Len(b.read)
      <3>1. c.read[i] = b.read[i]
        BY <1>3, <2>2
      <3> QED
        BY <2>2, <3>1 DEF TrueBoard
    <2> QED
      BY <1>3, <2>1, <2>2
  <1> QED
    BY <1>1, <1>4 DEF TrueBoard

(* Lemma: the days before hold no order of a section.                      *)
LEMMA PreviousIsTrue ==
  ASSUME BoardInv, NEW b, NEW c \in Board, TrueBoard(b, sale, tick),
         c.previous = Counted(PreviousStart(b), b.start),
         c.read = b.read, c.start = b.start, c.end = b.end
  PROVE  TrueBoard(c, sale, tick)
  <1>1. \A o \in c.previous : sale[o] < b.start
    BY DEF Counted
  <1>2. sale \in [Sale -> Nat] /\ b.start \in Int
    BY DEF BoardInv, SaleClock, TrueBoard, Board
  <1>3. \A o \in Sale, i \in 1..Len(b.read) : o \in b.read[i] => o \notin c.previous
    BY <1>1, <1>2 DEF TrueBoard
  <1> QED
    BY <1>3 DEF TrueBoard

(* Lemma: how long a board is kept does not make it less true.             *)
LEMMA UntilIsTrue ==
  ASSUME NEW b, NEW c \in Board, NEW s, NEW t, TrueBoard(b, s, t),
         c.read = b.read, c.start = b.start, c.end = b.end, c.previous = b.previous
  PROVE  TrueBoard(c, s, t)
  BY DEF TrueBoard

(* Lemma: a request keeps the invariant.                                   *)
LEMMA OpenKeeps ==
  ASSUME BoardInv, NEW m \in Manager,
         \/ OpenKept(m) \/ OpenNew(m) \/ ReadSection(m) \/ ReadPrevious(m)
         \/ KeepBoard(m) \/ AnswerBoard(m)
  PROVE  BoardInv'
  <1> USE DashboardAssumption
  <1> DEFINE q == manager[m]
             b == manager[m].board
             Next(a, t, c) == manager'[m] = [at |-> a, since |-> t, board |-> c]
  <1>1. /\ SaleClock /\ KeptIsTrue /\ ManagerIsTrue(m) /\ m \in DOMAIN manager
        /\ cleared \in Nat /\ cleared <= tick
        /\ UNCHANGED <<tick, sale, writing, cleared>>
    BY DEF BoardInv, OpenKept, OpenNew, ReadSection, ReadPrevious, KeepBoard, AnswerBoard
  <1>2. /\ DOMAIN manager' = DOMAIN manager
        /\ \A o \in Manager : o # m => manager'[o] = manager[o]
    BY DEF BoardInv, OpenKept, OpenNew, ReadSection, ReadPrevious, KeepBoard, AnswerBoard
  <1>3. /\ b \in Board /\ TrueBoard(b, sale, tick)
        /\ q = [at |-> q.at, since |-> q.since, board |-> b]
        /\ q.since \in Nat /\ tick \in Nat
    BY <1>1 DEF ManagerIsTrue, SaleClock
  <1>4. CASE OpenKept(m)
    <2>1. Next("answer", tick, board) /\ UNCHANGED board /\ Kept
      BY <1>1, <1>4 DEF OpenKept
    <2>2. /\ TrueBoard(board, sale, tick) /\ board \in Board
          /\ tick < board.until /\ board.until <= board.end + BoardTTL + ReadTime
      BY <1>1, <2>1 DEF KeptIsTrue, Kept, TrueBoard
    <2>3. tick < board.end + BoardTTL + ReadTime /\ cleared <= board.end + ReadTime
      BY <1>1, <1>3, <2>1, <2>2 DEF Board, KeptIsTrue, Kept
    <2>4. ManagerIsTrue(m)'
      BY <1>1, <1>3, <2>1, <2>2, <2>3 DEF ManagerIsTrue
    <2>5. KeptIsTrue'
      BY <1>1, <2>1 DEF KeptIsTrue
    <2> QED
      BY <1>1, <1>2, <2>4, <2>5, OthersOpen
  <1>5. CASE OpenNew(m)
    <2> DEFINE c == [EmptyBoard EXCEPT !.start = WindowStart, !.end = tick]
    <2>1. Next("read", tick, c) /\ UNCHANGED board
      BY <1>1, <1>5 DEF OpenNew
    <2>2. WindowStart \in Int
      BY <1>3 DEF WindowStart
    <2> HIDE DEF c
    <2>3. c.end = tick /\ c.previous = {} /\ c \in Board /\ c.read = EmptyBoard.read
      <3>1. c \in Board /\ c.end = tick /\ c.read = EmptyBoard.read
            /\ c.previous = EmptyBoard.previous
        BY <1>3, <2>2, EmptyFields DEF Board, c
      <3> QED
        BY <3>1, EmptyFields
    <2>4. TrueBoard(c, sale, tick)
      BY <1>3, <2>3, EmptyFields, EmptyIsTrue
    <2>5. ManagerIsTrue(m)'
      BY <1>1, <1>3, <2>1, <2>3, <2>4 DEF ManagerIsTrue
    <2>6. KeptIsTrue'
      BY <1>1, <2>1 DEF KeptIsTrue
    <2> QED
      BY <1>1, <1>2, <2>5, <2>6, OthersOpen
  <1>6. CASE ReadSection(m)
    <2> DEFINE C == Counted(b.start, b.end)
               v == Append(b.read, C)
               c == [b EXCEPT !.read = v]
               a == IF Len(b.read) + 1 < Sections THEN "read" ELSE "compare"
    <2>1. Next(a, q.since, c) /\ UNCHANGED board /\ q.at = "read"
      BY <1>1, <1>3, <1>6 DEF ReadSection
    <2>2. v \in Seq(SUBSET Sale)
      BY <1>3 DEF Counted, Board
    <2>3. /\ c \in Board /\ c.read = v /\ c.start = b.start /\ c.end = b.end
          /\ c.previous = b.previous
      <3> HIDE DEF b, v
      <3> QED
        BY <1>3, <2>2 DEF Board
    <2>4. a \in {"read", "compare"} /\ b.previous = {} /\ b.end = q.since
      BY <1>1, <2>1 DEF ManagerIsTrue
    <2> HIDE DEF c, a
    <2>5. TrueBoard(c, sale, tick)
      BY <1>3, <2>3, <2>4, SectionIsTrue
    <2>6. ManagerIsTrue(m)'
      BY <1>1, <1>3, <2>1, <2>3, <2>4, <2>5 DEF ManagerIsTrue
    <2>7. KeptIsTrue'
      BY <1>1, <2>1 DEF KeptIsTrue
    <2> QED
      BY <1>1, <1>2, <2>6, <2>7, OthersOpen
  <1>7. CASE ReadPrevious(m)
    <2> DEFINE P == Counted(PreviousStart(b), b.start)
               c == [b EXCEPT !.previous = P]
    <2>1. Next("keep", q.since, c) /\ UNCHANGED board /\ q.at = "compare"
      BY <1>1, <1>3, <1>7 DEF ReadPrevious
    <2>2. P \in SUBSET Sale
      BY DEF Counted
    <2>3. /\ c \in Board /\ c.previous = P /\ c.start = b.start /\ c.end = b.end
          /\ c.read = b.read
      BY <1>3, <2>2 DEF Board
    <2>4. b.end = q.since
      BY <1>1, <2>1 DEF ManagerIsTrue
    <2> HIDE DEF c
    <2>5. TrueBoard(c, sale, tick)
      BY <1>3, <2>3, PreviousIsTrue
    <2>6. ManagerIsTrue(m)'
      BY <1>1, <1>3, <2>1, <2>3, <2>4, <2>5 DEF ManagerIsTrue
    <2>7. KeptIsTrue'
      BY <1>1, <2>1 DEF KeptIsTrue
    <2> QED
      BY <1>1, <1>2, <2>6, <2>7, OthersOpen
  <1>8. CASE KeepBoard(m)
    <2> DEFINE v == tick + BoardTTL
               c == [b EXCEPT !.until = v]
    <2>1. Next("answer", q.since, c) /\ board' = c /\ q.at = "keep"
      BY <1>1, <1>3, <1>8 DEF KeepBoard
    <2>2. /\ c \in Board /\ c.until = v /\ c.start = b.start /\ c.end = b.end
          /\ c.read = b.read /\ c.previous = b.previous
      <3>1. v \in Nat
        BY <1>3
      <3> HIDE DEF b, v
      <3> QED
        BY <1>3, <3>1 DEF Board
    <2>3. b.end = q.since /\ q.since <= tick /\ tick <= q.since + ReadTime
      BY <1>1, <2>1 DEF ManagerIsTrue
    <2> HIDE DEF c
    <2>4. TrueBoard(c, sale, tick)
      BY <1>3, <2>2, UntilIsTrue
    <2>5. /\ q.since < c.end + BoardTTL + ReadTime
          /\ c.until <= c.end + BoardTTL + ReadTime
          /\ cleared <= c.end + ReadTime
      BY <1>1, <1>3, <2>2, <2>3, DashboardAssumption DEF Board
    <2>6. ManagerIsTrue(m)'
      BY <1>1, <1>3, <2>1, <2>2, <2>3, <2>4, <2>5 DEF ManagerIsTrue
    <2>7. KeptIsTrue'
      BY <1>1, <2>1, <2>4, <2>5 DEF KeptIsTrue
    <2> QED
      BY <1>1, <1>2, <2>6, <2>7, OthersOpen
  <1>9. CASE AnswerBoard(m)
    <2>1. Next("idle", 0, EmptyBoard) /\ UNCHANGED board
      BY <1>1, <1>9 DEF AnswerBoard, NotOpen
    <2>3. TrueBoard(EmptyBoard, sale, tick)
      BY <1>3, IdleIsTrue
    <2>4. ManagerIsTrue(m)'
      BY <1>1, <2>1, <2>3 DEF ManagerIsTrue, TrueBoard
    <2>5. KeptIsTrue'
      BY <1>1, <2>1 DEF KeptIsTrue
    <2> QED
      BY <1>1, <1>2, <2>4, <2>5, OthersOpen
  <1> QED
    BY <1>4, <1>5, <1>6, <1>7, <1>8, <1>9

(* Lemma: an order whose update is committed was updated after every board *)
(* that it might be missing from.                                          *)
LEMMA SaleKeepsTrue ==
  ASSUME SaleClock, NEW o \in Sale, writing[o] # 0, NEW b, TrueBoard(b, sale, tick), NEW s,
         s = [sale EXCEPT ![o] = writing[o]]
  PROVE  TrueBoard(b, s, tick)
  <1>1. /\ tick \in Nat /\ sale \in [Sale -> Nat] /\ writing \in [Sale -> Nat]
        /\ sale[o] <= writing[o] /\ tick <= writing[o] + CommitTime
    BY DEF SaleClock
  <1>2. b.start \in Int /\ b.end \in Nat /\ b.end <= tick /\ CommitTime \in Nat
    BY DashboardAssumption DEF TrueBoard, Board
  <1>3. ASSUME NEW p \in Sale, NEW i \in 1..Len(b.read)
        PROVE  /\ s[p] # 0 /\ b.start <= s[p] /\ s[p] + CommitTime < b.end => p \in b.read[i]
               /\ p \in b.read[i] => s[p] # 0 /\ b.start <= s[p]
    <2>1. CASE p # o
      BY <1>1, <2>1 DEF TrueBoard
    <2>2. CASE p = o
      <3>1. s[p] = writing[o]
        BY <1>1, <2>2
      <3>2. p \in b.read[i] => b.start <= sale[o]
        BY <2>2 DEF TrueBoard
      <3> QED
        BY <1>1, <1>2, <3>1, <3>2
    <2> QED
      BY <2>1, <2>2
  <1> QED
    BY <1>3 DEF TrueBoard

(* Lemma: updates of orders, restarts, invalidations and time keep the     *)
(* invariant.                                                              *)
LEMMA BoardWorldKeeps ==
  ASSUME BoardInv, \/ RestartBoard \/ InvalidateBoard \/ BoardTick
                   \/ \E o \in Sale : StampSale(o) \/ CommitSale(o)
  PROVE  BoardInv'
  <1> USE DashboardAssumption
  <1>1. /\ SaleClock /\ KeptIsTrue /\ DOMAIN manager = Manager
        /\ cleared \in Nat /\ cleared <= tick
    BY DEF BoardInv
  <1>2. CASE RestartBoard
    <2>1. NotOpen = [at |-> "idle", since |-> 0, board |-> EmptyBoard] /\ tick \in Nat
      BY <1>1 DEF NotOpen, SaleClock
    <2>3. TrueBoard(EmptyBoard, sale, tick)
      BY <2>1, IdleIsTrue
    <2>4. ASSUME NEW m \in Manager
          PROVE  ManagerIsTrue(m)'
      BY <1>2, <2>1, <2>3 DEF RestartBoard, ManagerIsTrue, TrueBoard
    <2>5. SaleClock' /\ KeptIsTrue'
      BY <1>1, <1>2 DEF RestartBoard, SaleClock, KeptIsTrue
    <2> QED
      BY <1>1, <1>2, <2>4, <2>5 DEF RestartBoard, BoardInv
  <1>3. ASSUME NEW o \in Sale, StampSale(o)
        PROVE  BoardInv'
    <2>1. SaleClock'
      BY <1>1, <1>3 DEF StampSale, SaleClock
    <2>2. KeptIsTrue' /\ \A m \in Manager : ManagerIsTrue(m)'
      BY <1>3 DEF StampSale, BoardInv, KeptIsTrue, ManagerIsTrue
    <2> QED
      BY <1>1, <1>3, <2>1, <2>2 DEF StampSale, BoardInv
  <1>4. ASSUME NEW o \in Sale, CommitSale(o)
        PROVE  BoardInv'
    <2>1. SaleClock'
      BY <1>1, <1>4 DEF CommitSale, SaleClock
    <2>2. \A b : TrueBoard(b, sale, tick) => TrueBoard(b, sale', tick)
      BY <1>1, <1>4, SaleKeepsTrue DEF CommitSale
    <2>3. UNCHANGED <<tick, board, cleared, manager>>
      BY <1>4 DEF CommitSale
    <2>4. KeptIsTrue' /\ \A m \in Manager : ManagerIsTrue(m)'
      BY <2>2, <2>3 DEF BoardInv, KeptIsTrue, ManagerIsTrue
    <2> QED
      BY <1>1, <2>1, <2>3, <2>4 DEF BoardInv
  <1>5. CASE BoardTick
    <2>1. SaleClock'
      BY <1>1, <1>5 DEF BoardTick, SaleClock
    <2>2. \A b : TrueBoard(b, sale, tick) => TrueBoard(b, sale, tick')
      BY <1>1, <1>5 DEF BoardTick, TrueBoard, Board, SaleClock
    <2>3. /\ tick' = tick + 1 /\ UNCHANGED <<sale, board, cleared, manager>>
          /\ \A m \in Manager : manager[m].at = "idle" \/ tick - manager[m].since < ReadTime
      BY <1>5 DEF BoardTick
    <2>4. KeptIsTrue'
      BY <1>1, <2>2, <2>3 DEF KeptIsTrue
    <2>5. ASSUME NEW m \in Manager
          PROVE  ManagerIsTrue(m)'
      <3>1. ManagerIsTrue(m) /\ tick \in Nat
        BY <1>1 DEF BoardInv, SaleClock
      <3> QED
        BY <2>2, <2>3, <3>1 DEF ManagerIsTrue
    <2>6. tick \in Nat
      BY <1>1 DEF SaleClock
    <2> QED
      BY <1>1, <2>1, <2>3, <2>4, <2>5, <2>6 DEF BoardInv
  <1>6. CASE InvalidateBoard
    <2>1. /\ board' = NoBoard /\ cleared' = tick /\ UNCHANGED <<tick, sale, writing, manager>>
          /\ tick \in Nat
      BY <1>1, <1>6 DEF InvalidateBoard, SaleClock
    <2>2. SaleClock' /\ KeptIsTrue'
      BY <1>1, <2>1 DEF SaleClock, KeptIsTrue
    <2>3. ASSUME NEW m \in Manager
          PROVE  ManagerIsTrue(m)'
      BY <2>1 DEF BoardInv, ManagerIsTrue
    <2> QED
      BY <1>1, <2>1, <2>2, <2>3 DEF BoardInv
  <1> QED
    BY <1>2, <1>3, <1>4, <1>5, <1>6

(* Lemma: these facts are an inductive invariant of the dashboard.         *)
LEMMA BoardInvAlways == DashboardSpec => []BoardInv
  <1>1. BoardInv /\ [DashboardNext]_boardVars => BoardInv'
    <2>1. CASE UNCHANGED boardVars
      BY <2>1 DEF boardVars, BoardInv, SaleClock, KeptIsTrue, ManagerIsTrue
    <2> QED
      BY <2>1, OpenKeeps, BoardWorldKeeps DEF DashboardNext
  <1> QED
    BY <1>1, BoardStart, PTL DEF DashboardSpec

(* Theorem: a dashboard is not older than its cache and an invalidation    *)
(* allow, its sections agree on every order at rest, and no order is on    *)
(* both sides of the comparison.                                           *)
THEOREM BoardIsTrueAlways == DashboardSpec => []BoardIsTrue
  <1>1. BoardInv => BoardIsTrue
    <2> SUFFICES ASSUME BoardInv, NEW m \in Manager, manager[m].at = "answer"
                 PROVE  LET b == manager[m].board IN
                        /\ tick < b.end + BoardTTL + 2 * ReadTime
                        /\ cleared < manager[m].since => cleared <= b.end + ReadTime
                        /\ \A o \in Sale :
                             /\ sale[o] # 0 /\ b.start <= sale[o] /\ sale[o] + CommitTime < b.end
                                  => InEverySection(b, o)
                             /\ InSomeSection(b, o) /\ ~ InEverySection(b, o) =>
                                  sale[o] + CommitTime >= b.end
                             /\ InSomeSection(b, o) => o \notin b.previous
      BY DEF BoardIsTrue
    <2> DEFINE b == manager[m].board
    <2>1. /\ TrueBoard(b, sale, tick) /\ b \in Board /\ manager[m].since \in Nat
          /\ tick <= manager[m].since + ReadTime
          /\ manager[m].since < b.end + BoardTTL + ReadTime
          /\ cleared < manager[m].since => cleared <= b.end + ReadTime
          /\ tick \in Nat /\ sale \in [Sale -> Nat]
      BY DEF BoardInv, ManagerIsTrue, SaleClock
    <2>2. b.end \in Nat /\ b.read \in Seq(SUBSET Sale) /\ DOMAIN b.read = 1..Len(b.read)
      BY <2>1 DEF Board
    <2> HIDE DEF b
    <2>3. tick < b.end + BoardTTL + 2 * ReadTime
      <3>1. \A t, s, e, l, r \in Nat : t <= s + r /\ s < e + l + r => t < e + l + 2 * r
        OBVIOUS
      <3> QED
        BY <2>1, <2>2, <3>1, DashboardAssumption
    <2>4. ASSUME NEW o \in Sale
          PROVE  /\ sale[o] # 0 /\ b.start <= sale[o] /\ sale[o] + CommitTime < b.end
                      => InEverySection(b, o)
                 /\ InSomeSection(b, o) => sale[o] # 0 /\ b.start <= sale[o] /\ o \notin b.previous
      BY <2>1, <2>2 DEF InEverySection, InSomeSection, TrueBoard
    <2>5. ASSUME NEW o \in Sale, InSomeSection(b, o), ~ InEverySection(b, o)
          PROVE  sale[o] + CommitTime >= b.end
      BY <2>1, <2>2, <2>4, <2>5, DashboardAssumption
    <2> QED
      BY <2>1, <2>3, <2>4, <2>5 DEF b
  <1> QED
    BY <1>1, BoardInvAlways, PTL

\* A board begins before it ends and has no section twice.
BoardInBounds(b) == b.start <= b.end /\ Len(b.read) <= Sections

ManagerInBounds(m) ==
  /\ BoardInBounds(manager[m].board) /\ manager[m].since <= tick
  /\ manager[m].at = "read" => Len(manager[m].board.read) < Sections

\* What the bounds of the types add to the invariant.
BoardBounds ==
  /\ board # NoBoard => BoardInBounds(board)
  /\ \A m \in Manager : ManagerInBounds(m)

(* Lemma: the window of a dashboard begins in the past.                    *)
LEMMA WindowBegins == ASSUME tick \in Nat PROVE WindowStart \in Int /\ WindowStart <= tick
  <1> DEFINE k == tick \div DayLength
             past == (Days - 1) * DayLength
  <1>1. DayLength \in Nat \ {0} /\ Days - 1 \in Nat
    BY DashboardAssumption
  <1>2. k \in Nat /\ k * DayLength <= tick
    BY <1>1
  <1>3. past \in Nat /\ k * DayLength \in Nat
    BY <1>1, <1>2
  <1>4. WindowStart = k * DayLength - past
    BY DEF WindowStart
  <1> HIDE DEF k, past
  <1> QED
    BY <1>2, <1>3, <1>4

(* Lemma: a request reads each section once, and what it keeps is within   *)
(* the bounds.                                                             *)
LEMMA OpenBounded ==
  ASSUME BoardInv, BoardBounds, NEW m \in Manager,
         \/ OpenKept(m) \/ OpenNew(m) \/ ReadSection(m) \/ ReadPrevious(m)
         \/ KeepBoard(m) \/ AnswerBoard(m)
  PROVE  BoardBounds'
  <1> USE DashboardAssumption
  <1> DEFINE q == manager[m]
             b == manager[m].board
             Next(a, t, c) == /\ manager'[m].at = a /\ manager'[m].since = t
                              /\ manager'[m].board = c
  <1>1. /\ ManagerInBounds(m) /\ m \in DOMAIN manager /\ b \in Board /\ q.since \in Nat
        /\ q = [at |-> q.at, since |-> q.since, board |-> b]
        /\ tick \in Nat
        /\ board # NoBoard => BoardInBounds(board)
    BY DEF BoardInv, BoardBounds, ManagerIsTrue, SaleClock
  <1>2. /\ UNCHANGED tick
        /\ \A o \in Manager : o # m => manager'[o] = manager[o]
    BY DEF BoardInv, OpenKept, OpenNew, ReadSection, ReadPrevious, KeepBoard, AnswerBoard
  <1>3. ASSUME ManagerInBounds(m)', board' # NoBoard => BoardInBounds(board')
        PROVE  BoardBounds'
    <2>1. ASSUME NEW o \in Manager, o # m
          PROVE  ManagerInBounds(o)'
      BY <1>2, <2>1 DEF BoardBounds, ManagerInBounds
    <2> QED
      BY <1>3, <2>1 DEF BoardBounds
  <1>5. BoardInBounds(b) /\ q.since <= tick /\ (q.at = "read" => Len(b.read) < Sections)
    BY <1>1 DEF ManagerInBounds
  <1>6. CASE OpenKept(m)
    <2>1. Next("answer", tick, board) /\ UNCHANGED board /\ board # NoBoard
      BY <1>1, <1>6 DEF OpenKept, Kept
    <2>2. ManagerInBounds(m)'
      BY <1>1, <1>2, <2>1 DEF ManagerInBounds
    <2> QED
      BY <1>1, <1>3, <2>1, <2>2
  <1>7. CASE OpenNew(m)
    <2> DEFINE c == [EmptyBoard EXCEPT !.start = WindowStart, !.end = tick]
    <2>1. Next("read", tick, c) /\ UNCHANGED board
      BY <1>1, <1>7 DEF OpenNew
    <2>2. c.start = WindowStart /\ c.end = tick /\ c.read = EmptyBoard.read
      BY EmptyFields DEF EmptyBoard
    <2> HIDE DEF c
    <2>3. BoardInBounds(c) /\ Len(c.read) < Sections
      <3>1. WindowStart <= tick /\ Len(c.read) = 0
        BY <1>1, <2>2, EmptyFields, WindowBegins
      <3>2. Sections \in Nat \ {0}
        OBVIOUS
      <3> QED
        BY <2>2, <3>1, <3>2 DEF BoardInBounds
    <2>4. ManagerInBounds(m)'
      BY <1>1, <1>2, <2>1, <2>3 DEF ManagerInBounds
    <2> QED
      BY <1>1, <1>3, <2>1, <2>4
  <1>8. CASE ReadSection(m)
    <2> DEFINE C == Counted(b.start, b.end)
               v == Append(b.read, C)
               c == [b EXCEPT !.read = v]
               a == IF Len(b.read) + 1 < Sections THEN "read" ELSE "compare"
    <2>1. Next(a, q.since, c) /\ UNCHANGED board /\ q.at = "read"
      BY <1>1, <1>8 DEF ReadSection
    <2>2. b.read \in Seq(SUBSET Sale) /\ C \in SUBSET Sale
      BY <1>1 DEF Counted, Board
    <2>3. Len(v) = Len(b.read) + 1 /\ Len(b.read) \in Nat
      <3> HIDE DEF C
      <3> QED
        BY <2>2
    <2>4. c.read = v /\ c.start = b.start /\ c.end = b.end
      <3> HIDE DEF b, v
      <3> QED
        BY <1>1 DEF Board
    <2> HIDE DEF c, v
    <2>5. BoardInBounds(c) /\ (a = "read" => Len(c.read) < Sections)
      BY <1>5, <2>1, <2>3, <2>4 DEF BoardInBounds
    <2> HIDE DEF a
    <2>6. ManagerInBounds(m)'
      BY <1>1, <1>2, <1>5, <2>1, <2>5 DEF ManagerInBounds
    <2> QED
      BY <1>1, <1>3, <2>1, <2>6
  <1>9. CASE ReadPrevious(m)
    <2> DEFINE P == Counted(PreviousStart(b), b.start)
               c == [b EXCEPT !.previous = P]
    <2>1. Next("keep", q.since, c) /\ UNCHANGED board
      BY <1>1, <1>9 DEF ReadPrevious
    <2>2. c.read = b.read /\ c.start = b.start /\ c.end = b.end
      BY <1>1 DEF Board
    <2> HIDE DEF c
    <2>3. BoardInBounds(c)
      BY <1>5, <2>2 DEF BoardInBounds
    <2>4. ManagerInBounds(m)'
      BY <1>2, <1>5, <2>1, <2>3 DEF ManagerInBounds
    <2> QED
      BY <1>1, <1>3, <2>1, <2>4
  <1>10. CASE KeepBoard(m)
    <2> DEFINE v == tick + BoardTTL
               c == [b EXCEPT !.until = v]
    <2>1. Next("answer", q.since, c) /\ board' = c
      BY <1>1, <1>10 DEF KeepBoard
    <2>2. c.read = b.read /\ c.start = b.start /\ c.end = b.end
      <3> HIDE DEF b, v
      <3> QED
        BY <1>1 DEF Board
    <2> HIDE DEF c
    <2>3. BoardInBounds(c)
      BY <1>5, <2>2 DEF BoardInBounds
    <2>4. ManagerInBounds(m)'
      BY <1>2, <1>5, <2>1, <2>3 DEF ManagerInBounds
    <2> QED
      BY <1>3, <2>1, <2>3, <2>4
  <1>11. CASE AnswerBoard(m)
    <2>1. Next("idle", 0, EmptyBoard) /\ UNCHANGED board
      BY <1>1, <1>11 DEF AnswerBoard, NotOpen
    <2>2. EmptyBoard.start <= EmptyBoard.end /\ BoardInBounds(EmptyBoard)
      BY EmptyFields DEF EmptyBoard, BoardInBounds
    <2>3. ManagerInBounds(m)'
      BY <1>1, <1>2, <2>1, <2>2 DEF ManagerInBounds
    <2> QED
      BY <1>1, <1>3, <2>1, <2>3
  <1> QED
    BY <1>6, <1>7, <1>8, <1>9, <1>10, <1>11

(* Theorem: type correctness of the dashboard and its cache.               *)
THEOREM DashboardTypeCorrect == DashboardSpec => []DashboardTypeOK
  <1> USE DashboardAssumption
  <1>1. NotOpen.since = 0 /\ NotOpen.at = "idle" /\ BoardInBounds(NotOpen.board)
    BY EmptyFields DEF NotOpen, EmptyBoard, BoardInBounds
  <1>2. DashboardInit => BoardBounds
    BY <1>1 DEF DashboardInit, BoardBounds, ManagerInBounds
  <1>3. BoardInv /\ BoardBounds /\ [DashboardNext]_boardVars => BoardBounds'
    <2> SUFFICES ASSUME BoardInv, BoardBounds, [DashboardNext]_boardVars PROVE BoardBounds'
      OBVIOUS
    <2>1. tick \in Nat /\ \A m \in Manager : manager[m].since \in Nat
      BY DEF BoardInv, SaleClock, ManagerIsTrue
    <2>2. CASE RestartBoard \/ InvalidateBoard
      BY <1>1, <2>1, <2>2 DEF RestartBoard, InvalidateBoard, BoardBounds, ManagerInBounds
    <2>3. CASE \E o \in Sale : StampSale(o) \/ CommitSale(o)
      BY <2>3 DEF StampSale, CommitSale, BoardBounds, ManagerInBounds
    <2>4. CASE BoardTick
      BY <2>1, <2>4 DEF BoardTick, BoardBounds, ManagerInBounds
    <2>5. CASE UNCHANGED boardVars
      BY <2>5 DEF boardVars, BoardBounds, ManagerInBounds
    <2> QED
      BY <2>2, <2>3, <2>4, <2>5, OpenBounded DEF DashboardNext
  <1>4. BoardInv /\ BoardBounds => DashboardTypeOK
    <2> SUFFICES ASSUME BoardInv, BoardBounds PROVE DashboardTypeOK
      OBVIOUS
    <2>1. /\ tick \in Nat /\ cleared \in 0..tick
          /\ sale \in [Sale -> 0..tick] /\ writing \in [Sale -> 0..tick]
      BY DEF BoardInv, SaleClock
    <2>2. ASSUME NEW b, TrueBoard(b, sale, tick), BoardInBounds(b)
          PROVE  IsBoard(b)
      BY <2>1, <2>2 DEF TrueBoard, BoardInBounds, Board, IsBoard
    <2>3. board # NoBoard => IsBoard(board)
      BY <2>2 DEF BoardInv, BoardBounds, KeptIsTrue
    <2>4. ASSUME NEW m \in Manager
          PROVE  /\ manager[m].at \in {"idle", "read", "compare", "keep", "answer"}
                 /\ manager[m].since \in 0..tick
                 /\ IsBoard(manager[m].board)
      BY <2>1, <2>2 DEF BoardInv, BoardBounds, ManagerIsTrue, ManagerInBounds
    <2> QED
      BY <2>1, <2>3, <2>4 DEF DashboardTypeOK
  <1> QED
    BY <1>2, <1>3, <1>4, BoardInvAlways, PTL DEF DashboardSpec

=============================================================================
