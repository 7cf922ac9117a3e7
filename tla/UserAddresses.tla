--------------------------- MODULE UserAddresses ---------------------------
(***************************************************************************)
(* The delivery addresses of a customer (app/services/user.py).  One of    *)
(* them is the default, which every request keeps by itself: nothing locks *)
(* the customer.  One action for each statement that other requests can    *)
(* come between.  PostgreSQL reads what is committed, and an update or a   *)
(* delete waits for the transaction that has written the row.              *)
(***************************************************************************)
EXTENDS Integers, FiniteSets, FiniteSetsExt

CONSTANTS
  AddressRequest,  \* requests of one customer that can be under way at once
  MaxAddresses     \* bound: addresses created in all

ASSUME AddressAssumption == MaxAddresses \in Nat

AddressId == 1..MaxAddresses   \* in the order of created_at

VARIABLES
  address,   \* committed rows: "none", "plain" or "default"
  nextId,    \* the sequence of address_id
  request    \* requests under way

addressVars == <<address, nextId, request>>

IdleRequest == [at |-> "idle", op |-> "none", id |-> 0, asked |-> FALSE, loaded |-> "none",
                toUnset |-> {}, alone |-> FALSE, written |-> [a \in {} |-> "none"]]

AddressTypeOK ==
  /\ address \in [AddressId -> {"none", "plain", "default"}]
  /\ nextId \in 1..(MaxAddresses + 1)
  /\ \A r \in AddressRequest :
       /\ request[r].at \in {"idle", "unset", "flush", "write", "check", "promote", "commit"}
       /\ request[r].op \in {"none", "create", "update", "delete"}
       /\ request[r].toUnset \subseteq AddressId
       /\ DOMAIN request[r].written \subseteq AddressId
       /\ \A q \in AddressRequest \ {r} :
            DOMAIN request[r].written \cap DOMAIN request[q].written = {}

AddressInit ==
  /\ address = [a \in AddressId |-> "none"]
  /\ nextId = 1
  /\ request = [r \in AddressRequest |-> IdleRequest]

\* What request r reads: its own writes before what is committed.
View(r) == [a \in AddressId |-> IF a \in DOMAIN request[r].written
                                THEN request[r].written[a] ELSE address[a]]

DefaultsOf(t) == {a \in AddressId : t[a] = "default"}

RowFree(r, a) == \A q \in AddressRequest \ {r} : a \notin DOMAIN request[q].written

-----------------------------------------------------------------------------
(* The beginning of a request                                              *)

Begin(r, q) ==
  LET alone == \A o \in AddressRequest \ {r} : request[o].at = "idle" IN
  request' = [o \in AddressRequest |-> IF o = r THEN [q EXCEPT !.alone = alone]
                                       ELSE [request[o] EXCEPT !.alone = FALSE]]

\* create_address(): asked is is_default of the payload.
CreateAddress(r, asked) ==
  /\ request[r].at = "idle" /\ nextId <= MaxAddresses
  /\ Begin(r, [IdleRequest EXCEPT !.at = IF asked THEN "unset" ELSE "write", !.op = "create",
                                  !.id = nextId, !.asked = asked])
  /\ nextId' = nextId + 1
  /\ UNCHANGED address

\* update_address() with is_default in the payload; other fields are left out.
UpdateAddress(r, a, asked) ==
  /\ request[r].at = "idle" /\ address[a] # "none"
  /\ Begin(r, [IdleRequest EXCEPT !.at = IF asked THEN "unset" ELSE "write", !.op = "update",
                                  !.id = a, !.asked = asked, !.loaded = address[a]])
  /\ UNCHANGED <<address, nextId>>

\* delete_address()
DeleteAddress(r, a) ==
  /\ request[r].at = "idle" /\ address[a] # "none"
  /\ Begin(r, [IdleRequest EXCEPT !.at = "write", !.op = "delete", !.id = a,
                                  !.loaded = address[a]])
  /\ UNCHANGED <<address, nextId>>

-----------------------------------------------------------------------------
(* Its statements                                                          *)

UnsetNothing(r) ==
  /\ request[r].at = "unset"
  /\ request' = [request EXCEPT ![r].at = "write"]
  /\ UNCHANGED <<address, nextId>>

\* _unset_default() selects the defaults; an address that was loaded is one of them only if
\* it is a default still, and keeps the value it was loaded with if it is not.
UnsetDefault(r) ==
  LET found == DefaultsOf(View(r)) IN
  /\ request[r].at = "unset"
  /\ request' = [request EXCEPT ![r].at = "flush", ![r].toUnset = found,
                                ![r].loaded = IF request[r].id \in found THEN "plain" ELSE @]
  /\ UNCHANGED <<address, nextId>>

\* The flush updates them in the order of their keys.
FlushUnset(r) ==
  LET q == request[r]
      a == Min(q.toUnset)
  IN /\ q.at = "flush" /\ q.toUnset # {}
     /\ RowFree(r, a)
     /\ request' = IF View(r)[a] = "none" THEN [request EXCEPT ![r] = IdleRequest]
                   ELSE [request EXCEPT ![r].toUnset = @ \ {a},
                                        ![r].written = [b \in DOMAIN @ \cup {a} |->
                                            IF b = a THEN "plain" ELSE @[b]]]
     /\ UNCHANGED <<address, nextId>>

FlushDone(r) ==
  /\ request[r].at = "flush" /\ request[r].toUnset = {}
  /\ request' = [request EXCEPT ![r].at = "write"]
  /\ UNCHANGED <<address, nextId>>

\* Request q with row a written as v, and its next step.
Wrote(q, a, v, next) ==
  [q EXCEPT !.at = next,
            !.written = [b \in DOMAIN @ \cup {a} |-> IF b = a THEN v ELSE @[b]]]

WriteNew(r) ==
  LET q == request[r] IN
  /\ q.at = "write" /\ q.op = "create"
  /\ request' = [request EXCEPT ![r] =
       IF q.asked THEN Wrote(q, q.id, "default", "commit") ELSE Wrote(q, q.id, "plain", "check")]
  /\ UNCHANGED <<address, nextId>>

\* The first address, or one that is added while there is no default, becomes it.
CheckDefault(r) ==
  LET q == request[r] IN
  /\ q.at = "check"
  /\ request' = [request EXCEPT ![r] =
       IF DefaultsOf(View(r)) = {} THEN Wrote(q, q.id, "default", "commit")
       ELSE [q EXCEPT !.at = "commit"]]
  /\ UNCHANGED <<address, nextId>>

\* An attribute set to the value that was loaded is not written.  A row that has gone is a
\* StaleDataError, and all is rolled back.
WriteUpdate(r) ==
  LET q == request[r]
      v == IF q.asked THEN "default" ELSE "plain"
  IN /\ q.at = "write" /\ q.op = "update"
     /\ q.loaded # v => RowFree(r, q.id)
     /\ request' = [request EXCEPT ![r] =
          IF q.loaded = v THEN [q EXCEPT !.at = "commit"]
          ELSE IF View(r)[q.id] = "none" THEN IdleRequest
          ELSE Wrote(q, q.id, v, "commit")]
     /\ UNCHANGED <<address, nextId>>

\* The delete of a row that has gone is only a warning.
WriteDelete(r) ==
  LET q == request[r]
      gone == Wrote(q, q.id, "none", "commit")
      rest == {a \in AddressId \ {q.id} : View(r)[a] # "none"}
  IN /\ q.at = "write" /\ q.op = "delete"
     /\ RowFree(r, q.id)
     /\ request' = [request EXCEPT ![r] =
          IF q.loaded = "default" /\ rest # {}
          THEN [gone EXCEPT !.at = "promote", !.id = Min(rest), !.loaded = View(r)[Min(rest)]]
          ELSE gone]
     /\ UNCHANGED <<address, nextId>>

\* The oldest of the others takes its place.
Promote(r) ==
  LET q == request[r] IN
  /\ q.at = "promote"
  /\ q.loaded # "default" => RowFree(r, q.id)
  /\ request' = [request EXCEPT ![r] =
       IF q.loaded = "default" THEN [q EXCEPT !.at = "commit"]
       ELSE IF View(r)[q.id] = "none" THEN IdleRequest
       ELSE Wrote(q, q.id, "default", "commit")]
  /\ UNCHANGED <<address, nextId>>

CommitAddresses(r) ==
  /\ request[r].at = "commit"
  /\ address' = View(r)
  /\ request' = [request EXCEPT ![r] = IdleRequest]
  /\ UNCHANGED nextId

\* The request fails: a lost connection, or PostgreSQL ends a deadlock.
FailRequest(r) ==
  /\ request[r].at # "idle"
  /\ request' = [request EXCEPT ![r] = IdleRequest]
  /\ UNCHANGED <<address, nextId>>

AddressNext ==
  \E r \in AddressRequest :
    \/ \E asked \in BOOLEAN : \/ CreateAddress(r, asked)
                              \/ \E a \in AddressId : UpdateAddress(r, a, asked)
    \/ \E a \in AddressId : DeleteAddress(r, a)
    \/ UnsetDefault(r) \/ FlushUnset(r) \/ FlushDone(r)
    \/ WriteNew(r) \/ CheckDefault(r) \/ WriteUpdate(r) \/ WriteDelete(r) \/ Promote(r)
    \/ CommitAddresses(r) \/ FailRequest(r)

AddressSpec == AddressInit /\ [][AddressNext]_addressVars

-----------------------------------------------------------------------------
(* Properties                                                              *)

NumDefaults == Cardinality(DefaultsOf(address))

\* Requests that overlap can leave two defaults or none.  One that runs alone repairs that:
\* if it asks for the default there is exactly one afterwards, a deleted default has a
\* successor while there is another address, and no request but one that gives up the
\* default leaves fewer than there were, or more than one where there was one.
AloneRepairs ==
  [][\A r \in AddressRequest :
       LET q == request[r] IN
       q.at = "commit" /\ request'[r].at = "idle" /\ address' # address /\ q.alone =>
         /\ q.asked => NumDefaults' = 1
         /\ NumDefaults <= 1 => NumDefaults' <= 1
         /\ q.op # "update" /\ NumDefaults >= 1 =>
              NumDefaults' >= 1 \/ \A a \in AddressId : address'[a] = "none"]_addressVars
=============================================================================
