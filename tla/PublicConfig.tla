---------------------------- MODULE PublicConfig ----------------------------
(***************************************************************************)
(* The public configuration (GET /api/v1/config) is a file of the          *)
(* deployment with the feature flags of shop_configs merged into it; both  *)
(* are stored in Redis with a time to live, and whoever finds them there   *)
(* merges the flags of the table once more (app/services/config.py).  An   *)
(* administrator sets a flag with PUT /admin/config/features.              *)
(***************************************************************************)
EXTENDS Integers, Sequences

CONSTANTS
  ConfigReader,   \* requests for the configuration that can be under way at once
  FlagEditor,     \* requests that set the flag
  ConfigTTL,      \* ttl_seconds of the file, in ticks
  AnswerTime,     \* ticks that a request takes at most
  MaxConfigTime, MaxFlags, MaxDeploys, \* bounds
  NoConfig

ASSUME ConfigAssumption ==
  /\ ConfigTTL \in Nat /\ AnswerTime \in Nat /\ MaxConfigTime \in Nat
  /\ MaxFlags \in Nat /\ MaxDeploys \in Nat

VARIABLES
  time,
  flag,       \* times a flag was set, as committed
  deployed,   \* when each later file was deployed; a file is how many came before it
  stored,     \* the entry in Redis: the file and when it ends
  asking,     \* requests
  setting     \* requests that set a flag, between commit and invalidation

configVars == <<time, flag, deployed, stored, asking, setting>>

NotAsking == [at |-> "idle", file |-> 0, since |-> 0, oldFlag |-> 0, flag |-> 0, hit |-> FALSE]

ConfigTypeOK ==
  /\ time \in Nat /\ flag \in 0..MaxFlags /\ deployed \in Seq(Nat)
  /\ stored # NoConfig => stored.file \in 0..Len(deployed) /\ stored.flag \in 0..flag
                          /\ stored.until \in Nat
  /\ \A r \in ConfigReader :
       /\ asking[r].at \in {"idle", "file", "merge", "write", "answer"}
       /\ asking[r].file \in 0..Len(deployed) /\ asking[r].flag \in 0..flag
       /\ asking[r].since \in 0..time /\ asking[r].oldFlag \in 0..flag
  /\ setting \subseteq FlagEditor

ConfigInit ==
  /\ time = 0 /\ flag = 0 /\ deployed = <<>> /\ stored = NoConfig
  /\ asking = [r \in ConfigReader |-> NotAsking]
  /\ setting = {}

-----------------------------------------------------------------------------
(* get_public_config()                                                     *)

\* An error of Redis is as good as nothing found.
ReadCache(r) ==
  /\ asking[r].at = "idle"
  /\ asking' = [asking EXCEPT ![r] = [NotAsking EXCEPT !.at = "file", !.since = time,
                                                       !.oldFlag = flag]]
     \/ /\ stored # NoConfig
        /\ asking' = [asking EXCEPT ![r] = [at |-> "merge", file |-> stored.file, since |-> time,
                                            oldFlag |-> flag, flag |-> stored.flag, hit |-> TRUE]]
  /\ UNCHANGED <<time, flag, deployed, stored, setting>>

ReadFile(r) ==
  /\ asking[r].at = "file"
  /\ asking' = [asking EXCEPT ![r].at = "merge", ![r].file = Len(deployed)]
  /\ UNCHANGED <<time, flag, deployed, stored, setting>>

\* Found in Redis, the flags are taken to be merged already.
MergeOnlyFile(r) ==
  /\ asking[r].at = "merge"
  /\ asking' = [asking EXCEPT ![r].at = IF asking[r].hit THEN "answer" ELSE "write",
                              ![r].flag = IF asking[r].hit THEN @ ELSE flag]
  /\ UNCHANGED <<time, flag, deployed, stored, setting>>

\* _merge_feature_flags() reads the table.
MergeFlags(r) ==
  /\ asking[r].at = "merge"
  /\ asking' = [asking EXCEPT ![r].at = IF asking[r].hit THEN "answer" ELSE "write",
                              ![r].flag = flag]
  /\ UNCHANGED <<time, flag, deployed, stored, setting>>

\* setex, or its error.
WriteCache(r) ==
  /\ asking[r].at = "write"
  /\ asking' = [asking EXCEPT ![r].at = "answer"]
  /\ \/ stored' = [file |-> asking[r].file, flag |-> asking[r].flag, until |-> time + ConfigTTL]
     \/ UNCHANGED stored
  /\ UNCHANGED <<time, flag, deployed, setting>>

AnswerConfig(r) ==
  /\ asking[r].at = "answer"
  /\ asking' = [asking EXCEPT ![r] = NotAsking]
  /\ UNCHANGED <<time, flag, deployed, stored, setting>>

-----------------------------------------------------------------------------
(* update_feature_flag(), a deployment, and time                           *)

SetFlag(e) ==
  /\ e \notin setting /\ flag < MaxFlags
  /\ flag' = flag + 1
  /\ setting' = setting \cup {e}
  /\ UNCHANGED <<time, deployed, stored, asking>>

\* _invalidate_cache(), or the error of Redis, after the commit.
InvalidateConfig(e) ==
  /\ e \in setting
  /\ setting' = setting \ {e}
  /\ stored' = NoConfig \/ UNCHANGED stored
  /\ UNCHANGED <<time, flag, deployed, asking>>

Deploy ==
  /\ Len(deployed) < MaxDeploys
  /\ deployed' = Append(deployed, time)
  /\ UNCHANGED <<time, flag, stored, asking, setting>>

\* Redis drops the entry when its time is over.
ConfigTick ==
  /\ time < MaxConfigTime
  /\ \A r \in ConfigReader : asking[r].at = "idle" \/ time - asking[r].since < AnswerTime
  /\ time' = time + 1
  /\ stored' = IF stored # NoConfig /\ stored.until <= time' THEN NoConfig ELSE stored
  /\ UNCHANGED <<flag, deployed, asking, setting>>

ConfigNext ==
  \/ \E r \in ConfigReader : \/ ReadCache(r) \/ ReadFile(r) \/ MergeFlags(r)
                             \/ WriteCache(r) \/ AnswerConfig(r)
  \/ \E e \in FlagEditor : SetFlag(e) \/ InvalidateConfig(e)
  \/ Deploy \/ ConfigTick

ConfigSpec == ConfigInit /\ [][ConfigNext]_configVars

-----------------------------------------------------------------------------
(* Properties                                                              *)

\* Whatever is stored in Redis - written by a request that read the flags before an edit and
\* stored them after its invalidation, or never invalidated - an answer has every flag that
\* was set before the request, and no deployed file is missing from it for longer than the
\* time to live and the time of the two requests that stored and sent it.
ConfigIsCurrent ==
  \A r \in ConfigReader : asking[r].at = "answer" =>
    /\ asking[r].flag >= asking[r].oldFlag
    /\ asking[r].file < Len(deployed) =>
         time <= deployed[asking[r].file + 1] + ConfigTTL + 2 * AnswerTime
=============================================================================
