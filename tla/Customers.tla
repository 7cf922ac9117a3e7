----------------------------- MODULE Customers -----------------------------
(***************************************************************************)
(* Who a customer is: a user, known after POST /users/login by a token     *)
(* that names a row of users, or a guest with a session of POST            *)
(* /guests/session, a row of idempotency_keys with an expiry               *)
(* (app/services/auth.py, app/services/guest.py).  A login flushes what it *)
(* writes; nothing commits it, and the session of the request is closed    *)
(* after the answer.  A guest session is committed.                        *)
(***************************************************************************)
EXTENDS Integers, FiniteSets

CONSTANTS
  OpenId,        \* accounts of WeChat; each has one mini program
  GuestToken,    \* session ids that are drawn
  GuestRequest,  \* requests about guest sessions that can be under way at once
  SessionTTL,    \* settings.guest_session_ttl_minutes
  RequestTime,   \* minutes that a request takes at most
  MaxMinute, MaxUserId  \* bounds

ASSUME CustomerAssumption ==
  /\ SessionTTL \in Nat /\ RequestTime \in Nat /\ MaxMinute \in Nat /\ MaxUserId \in Nat
  /\ IsFiniteSet(OpenId)

VARIABLES
  users,     \* rows of users: the user_id of an open_id, 0 without a row
  userSeq,   \* the last user_id drawn; a roll-back does not give it back
  login,     \* the login of each account
  token,     \* the user_id in its token, 0 without one
  minute,
  guests,    \* expire_at of each session, 0 without a row
  visit,     \* requests about sessions
  promised   \* the latest expiry that was answered for each session

loginVars == <<users, userSeq, login, token>>
guestVars == <<minute, guests, visit, promised>>
customerVars == <<users, userSeq, login, token, minute, guests, visit, promised>>

NoLogin == [at |-> "idle", id |-> 0]
NoVisit == [at |-> "idle", session |-> {}, since |-> 0, expiry |-> 0]

CustomersTypeOK ==
  /\ userSeq \in Nat
  /\ users \in [OpenId -> 0..userSeq] /\ token \in [OpenId -> 0..userSeq]
  /\ \A o \in OpenId : /\ login[o].at \in {"idle", "insert", "answer"}
                       /\ login[o].id \in 0..userSeq
  /\ minute \in Nat
  /\ guests \in [GuestToken -> Nat] /\ promised \in [GuestToken -> Nat]
  /\ \A v \in GuestRequest : /\ visit[v].at \in {"idle", "renew", "insert"}
                             /\ visit[v].session \subseteq GuestToken
                             /\ visit[v].since \in 0..minute

CustomersInit ==
  /\ userSeq \in 0..Cardinality(OpenId)
  /\ users \in [OpenId -> 0..userSeq]
  /\ \A o, n \in OpenId : users[o] = users[n] /\ users[o] # 0 => o = n
  /\ login = [o \in OpenId |-> NoLogin] /\ token = [o \in OpenId |-> 0]
  /\ minute = 1
  /\ guests = [t \in GuestToken |-> 0] /\ promised = [t \in GuestToken |-> 0]
  /\ visit = [v \in GuestRequest |-> NoVisit]

-----------------------------------------------------------------------------
(* POST /users/login                                                       *)

\* get_user_by_open_id(); another nickname, written and rolled back, is left out.
FindUser(o) ==
  /\ login[o].at = "idle"
  /\ login' = [login EXCEPT ![o].at = IF users[o] = 0 THEN "insert" ELSE "answer",
                            ![o].id = users[o]]
  /\ UNCHANGED <<users, userSeq, token, guestVars>>

InsertUser(o) ==
  /\ login[o].at = "insert" /\ userSeq < MaxUserId
  /\ userSeq' = userSeq + 1
  /\ login' = [login EXCEPT ![o] = [at |-> "answer", id |-> userSeq']]
  /\ UNCHANGED <<users, token, guestVars>>

\* The token is sent; get_async_session() closes the session, which rolls back.
AnswerLogin(o) ==
  /\ login[o].at = "answer"
  /\ token' = [token EXCEPT ![o] = login[o].id]
  /\ login' = [login EXCEPT ![o] = NoLogin]
  /\ UNCHANGED <<users, userSeq, guestVars>>

\* get_current_user() and get_current_user_optional() refuse a token without its row.
Accepted(o) == token[o] \in {users[n] : n \in OpenId} \ {0}

-----------------------------------------------------------------------------
(* POST /guests/session                                                    *)

\* The expiry is worked out when the request has read the record.
Visit(v, v1) == visit' = [visit EXCEPT ![v] = v1]

\* A session that is there and has not expired is renewed, ...
FindSession(v, t) ==
  /\ visit[v].at = "idle" /\ guests[t] # 0
  /\ Visit(v, [at |-> IF minute <= guests[t] THEN "renew" ELSE "insert", session |-> {t},
               since |-> minute, expiry |-> minute + SessionTTL])
  /\ UNCHANGED <<minute, guests, promised, loginVars>>

NewSession(v) ==
  /\ visit[v].at = "idle"
  /\ Visit(v, [at |-> "insert", session |-> {}, since |-> minute, expiry |-> minute + SessionTTL])
  /\ UNCHANGED <<minute, guests, promised, loginVars>>

Promise(t, e) == promised' = [promised EXCEPT ![t] = IF e > @ THEN e ELSE @]

RenewForgotten(v) ==
  /\ visit[v].at = "renew"
  /\ \E t \in visit[v].session : Promise(t, visit[v].expiry)
  /\ Visit(v, NoVisit)
  /\ UNCHANGED <<minute, guests, loginVars>>

\* ... and the last of two that renew it at once is right.
RenewSession(v) ==
  /\ visit[v].at = "renew"
  /\ \E t \in visit[v].session :
       /\ guests' = [guests EXCEPT ![t] = visit[v].expiry]
       /\ Promise(t, visit[v].expiry)
  /\ Visit(v, NoVisit)
  /\ UNCHANGED <<minute, loginVars>>

InsertSession(v) ==
  /\ visit[v].at = "insert"
  /\ \E t \in {u \in GuestToken : guests[u] = 0} :
       /\ guests' = [guests EXCEPT ![t] = visit[v].expiry]
       /\ Promise(t, visit[v].expiry)
  /\ Visit(v, NoVisit)
  /\ UNCHANGED <<minute, loginVars>>

\* No tokens are left to this bounded instance.
GiveUpVisit(v) ==
  /\ visit[v].at = "insert" /\ \A t \in GuestToken : guests[t] # 0
  /\ Visit(v, NoVisit)
  /\ UNCHANGED <<minute, guests, promised, loginVars>>

MinutePasses ==
  /\ minute < MaxMinute
  /\ \A v \in GuestRequest : visit[v].at = "idle" \/ minute - visit[v].since < RequestTime
  /\ minute' = minute + 1
  /\ UNCHANGED <<guests, visit, promised, loginVars>>

CustomersNext ==
  \/ \E o \in OpenId : FindUser(o) \/ InsertUser(o) \/ AnswerLogin(o)
  \/ \E v \in GuestRequest :
       \/ \E t \in GuestToken : FindSession(v, t)
       \/ NewSession(v) \/ RenewSession(v) \/ InsertSession(v) \/ GiveUpVisit(v)
  \/ MinutePasses

CustomersSpec == CustomersInit /\ [][CustomersNext]_customerVars

-----------------------------------------------------------------------------
(* Properties                                                              *)

\* _validate_guest_session() of an order.
GuestMayOrder(t) == guests[t] # 0 /\ minute <= guests[t]

\* A guest can order until the expiry that was answered, but for the time of a request that
\* renewed the session by less while another one renewed it by more.
GuestKeepsSession ==
  \A t \in GuestToken :
    promised[t] # 0 /\ minute + RequestTime <= promised[t] => GuestMayOrder(t)

\* doc/api.md: a login writes the user.  So its token is accepted afterwards.
TokenIsAccepted == \A o \in OpenId : token[o] # 0 => Accepted(o)
=============================================================================
