----------------------------- MODULE Dashboard -----------------------------
(***************************************************************************)
(* The dashboard of the shop (app/services/dashboard.py): sums over the    *)
(* paid orders of the last days, in several sections, and over as many     *)
(* days before them.  An order belongs to the day of its last update.      *)
(* Each section is a statement of its own under READ COMMITTED, so that    *)
(* orders are updated in between.  A process keeps the answer for a minute,*)
(* unless the till or the match of a payment clears what it keeps.         *)
(***************************************************************************)
EXTENDS Integers, Sequences

CONSTANTS
  Sale,        \* orders
  Manager,     \* requests for the dashboard that can be under way at once
  Sections,    \* summary, trend, top products, channels: all count the same orders
  DayLength,   \* ticks of a day
  Days,        \* RANGE_TO_DAYS
  BoardTTL,    \* CACHE_TTL_SECONDS
  ReadTime,    \* ticks that a request takes at most
  CommitTime,  \* ticks between the time stamp of an update and its commit, at most
  FirstTick, LastTick, \* bounds
  NoBoard

ASSUME DashboardAssumption ==
  /\ Sections \in Nat \ {0} /\ DayLength \in Nat \ {0} /\ Days \in Nat \ {0}
  /\ BoardTTL \in Nat \ {0} /\ ReadTime \in Nat /\ CommitTime \in Nat
  /\ FirstTick \in Nat \ {0} /\ LastTick \in Nat

VARIABLES
  tick,
  sale,      \* updated_at of each paid order, 0 while it is not paid
  writing,   \* updated_at that a transaction under way gives the order, or 0
  board,     \* the answer that the process keeps
  cleared,   \* when it was last told to forget it
  manager    \* requests

boardVars == <<tick, sale, writing, board, cleared, manager>>

EmptyBoard == [start |-> 0, end |-> 0, read |-> <<>>, previous |-> {}, until |-> 0]
NotOpen == [at |-> "idle", since |-> 0, board |-> EmptyBoard]

IsBoard(b) ==
  /\ b.end \in 0..tick /\ b.start <= b.end /\ b.until \in Nat
  /\ b.read \in Seq(SUBSET Sale) /\ Len(b.read) <= Sections /\ b.previous \subseteq Sale

DashboardTypeOK ==
  /\ tick \in Nat /\ cleared \in 0..tick
  /\ sale \in [Sale -> 0..tick] /\ writing \in [Sale -> 0..tick]
  /\ board # NoBoard => IsBoard(board)
  /\ \A m \in Manager : /\ manager[m].at \in {"idle", "read", "compare", "keep", "answer"}
                        /\ manager[m].since \in 0..tick
                        /\ IsBoard(manager[m].board)

DashboardInit ==
  /\ tick = FirstTick
  /\ sale = [o \in Sale |-> 0] /\ writing = [o \in Sale |-> 0]
  /\ board = NoBoard /\ cleared = 0
  /\ manager = [m \in Manager |-> NotOpen]

-----------------------------------------------------------------------------
(* get_dashboard()                                                         *)

\* Paid orders that were last updated in a window.
Counted(from, to) == {o \in Sale : sale[o] # 0 /\ from <= sale[o] /\ sale[o] < to}

\* _calculate_window(): midnight some days ago, in UTC, until now.
WindowStart == (tick \div DayLength) * DayLength - (Days - 1) * DayLength

\* _calculate_comparison_window()
PreviousStart(b) == b.start - Days * DayLength

Kept == board # NoBoard /\ board.until > tick

OpenKept(m) ==
  /\ manager[m].at = "idle" /\ Kept
  /\ manager' = [manager EXCEPT ![m] = [at |-> "answer", since |-> tick, board |-> board]]
  /\ UNCHANGED <<tick, sale, writing, board, cleared>>

OpenNew(m) ==
  /\ manager[m].at = "idle" /\ ~ Kept
  /\ manager' = [manager EXCEPT ![m] =
       [at |-> "read", since |-> tick,
        board |-> [EmptyBoard EXCEPT !.start = WindowStart, !.end = tick]]]
  /\ UNCHANGED <<tick, sale, writing, board, cleared>>

\* The sections, one statement after the other.
ReadSection(m) ==
  LET b == manager[m].board IN
  /\ manager[m].at = "read"
  /\ manager' = [manager EXCEPT ![m].board.read = Append(@, Counted(b.start, b.end)),
                                ![m].at = IF Len(b.read) + 1 < Sections THEN "read" ELSE "compare"]
  /\ UNCHANGED <<tick, sale, writing, board, cleared>>

\* The summary of the days before, where it is asked for.
ReadPrevious(m) ==
  LET b == manager[m].board IN
  /\ manager[m].at = "compare"
  /\ manager' = [manager EXCEPT ![m].board.previous = Counted(PreviousStart(b), b.start),
                                ![m].at = "keep"]
  /\ UNCHANGED <<tick, sale, writing, board, cleared>>

KeepBoard(m) ==
  LET b == [manager[m].board EXCEPT !.until = tick + BoardTTL] IN
  /\ manager[m].at = "keep"
  /\ board' = b
  /\ manager' = [manager EXCEPT ![m].at = "answer", ![m].board = b]
  /\ UNCHANGED <<tick, sale, writing, cleared>>

AnswerBoard(m) ==
  /\ manager[m].at = "answer"
  /\ manager' = [manager EXCEPT ![m] = NotOpen]
  /\ UNCHANGED <<tick, sale, writing, board, cleared>>

\* The process is started again.
RestartBoard ==
  /\ board' = NoBoard
  /\ manager' = [m \in Manager |-> NotOpen]
  /\ UNCHANGED <<tick, sale, writing, cleared>>

-----------------------------------------------------------------------------
(* invalidate_cache()                                                      *)

ClearNothing ==
  /\ cleared' = tick
  /\ UNCHANGED <<tick, sale, writing, board, manager>>

\* POST /admin/orders has created an order, paid or not, or repeated an answer, or a payment has
\* been matched, in this process: at any time, then.  Requests under way go on and keep what
\* they read.
InvalidateBoard ==
  /\ board' = NoBoard
  /\ cleared' = tick
  /\ UNCHANGED <<tick, sale, writing, manager>>

-----------------------------------------------------------------------------
(* Orders and time                                                         *)

\* A transaction pays the order or changes a paid one: the callback, the till, reminders,
\* activation.  It has locked the row, or the version fails it: one at a time succeeds.
StampSale(o) ==
  /\ writing[o] = 0
  /\ writing' = [writing EXCEPT ![o] = tick]
  /\ UNCHANGED <<tick, sale, board, cleared, manager>>

CommitSale(o) ==
  /\ writing[o] # 0
  /\ sale' = [sale EXCEPT ![o] = writing[o]] \/ UNCHANGED sale
  /\ writing' = [writing EXCEPT ![o] = 0]
  /\ UNCHANGED <<tick, board, cleared, manager>>

BoardTick ==
  /\ tick < LastTick
  /\ \A o \in Sale : writing[o] = 0 \/ tick - writing[o] < CommitTime
  /\ \A m \in Manager : manager[m].at = "idle" \/ tick - manager[m].since < ReadTime
  /\ tick' = tick + 1
  /\ UNCHANGED <<sale, writing, board, cleared, manager>>

DashboardNext ==
  \/ \E m \in Manager : \/ OpenKept(m) \/ OpenNew(m) \/ ReadSection(m) \/ ReadPrevious(m)
                        \/ KeepBoard(m) \/ AnswerBoard(m)
  \/ RestartBoard \/ InvalidateBoard
  \/ \E o \in Sale : StampSale(o) \/ CommitSale(o)
  \/ BoardTick

DashboardSpec == DashboardInit /\ [][DashboardNext]_boardVars

-----------------------------------------------------------------------------
(* Properties                                                              *)

InSomeSection(b, o) == \E i \in DOMAIN b.read : o \in b.read[i]
InEverySection(b, o) == \A i \in DOMAIN b.read : o \in b.read[i]

\* However updates, requests and invalidations interleave, a dashboard that is sent is at most a
\* minute older than it looks; one that is asked for after an invalidation was begun after it, or
\* by a request that was under way then; an order that has been at rest since before it was read
\* is in every section of its days, whoever filled the cache and however late; sections disagree
\* only about orders updated around then; and no order is counted on both sides of the comparison.
BoardIsTrue ==
  \A m \in Manager : manager[m].at = "answer" =>
    LET b == manager[m].board IN
    /\ tick < b.end + BoardTTL + 2 * ReadTime
    /\ cleared < manager[m].since => cleared <= b.end + ReadTime
    /\ \A o \in Sale :
         /\ sale[o] # 0 /\ b.start <= sale[o] /\ sale[o] + CommitTime < b.end
              => InEverySection(b, o)
         /\ InSomeSection(b, o) /\ ~ InEverySection(b, o) => sale[o] + CommitTime >= b.end
         /\ InSomeSection(b, o) => o \notin b.previous
=============================================================================
