------------------------------- MODULE Access -------------------------------
(***************************************************************************)
(* Logins and what they open: customers' accounts, login, rotation of      *)
(* refresh tokens and logout (auth, shared/identity), and which service    *)
(* orders the tokens show a customer, over the registers of Office.tla.    *)
(*                                                                         *)
(* Passwords, signatures and hashes are left out: a request that gets past *)
(* them stands at the next step.  Times are left out too: a token may have *)
(* expired by any step, which is one of the ways a request can fail.       *)
(***************************************************************************)
EXTENDS Office

CONSTANTS
    Users,          \* ids of logins
    Staff,          \* logins of the workshop, seeded: a function of their ids
    Sessions,       \* ids of refresh sessions (jti)
    Requests        \* slots for requests being handled at the same time

VARIABLES
    users,          \* users[u]: the row of login u, None or Gone
    sessions,       \* sessions[j]: the session of refresh token j, or None
    requests        \* requests[r]: what the request in slot r holds

accessVars == <<vars, users, sessions, requests>>

-----------------------------------------------------------------------------
(* Rows.                                                                   *)

StaffRoles == {"ADMIN", "EMPLOYEE"}
Role == StaffRoles \cup {"CUSTOMER"}

(* The constructor of User: a customer has a client, nobody else has.      *)
User ==
    [email: Emails, role: StaffRoles, client: {None}]
        \cup [email: Emails, role: {"CUSTOMER"}, client: Clients]

(* The claims of a pair of tokens.                                         *)
Claims == [user: Users, role: Role, client: Clients \cup {None}]

(* A session, the claims of the tokens issued with it, and the session its *)
(* login began with.  A row that is deleted is kept here as "deleted".     *)
Session ==
    [claims: Claims, login: Sessions, state: {"live", "revoked", "deleted"}]

Idle == [step |-> "idle", id |-> None, held |-> None]

(* "account": a client, at the email it had; "login": the claims to sign;  *)
(* "consuming", "leaving": a session that was found to be the token's;     *)
(* "rotating": the same with the claims to sign.                           *)
Request ==
    {Idle}
        \cup [step: {"account"}, id: Clients, held: Emails]
        \cup [step: {"login"}, id: {None}, held: Claims]
        \cup [step: {"consuming", "leaving"}, id: Sessions, held: {None}]
        \cup [step: {"rotating"}, id: Sessions, held: Claims]

ASSUME NoneIsNoLogin ==
    /\ {None, Gone} \cap (User \cup Session) = {}
    /\ {None, Gone} \cap Clients = {}
ASSUME StaffIsSeeded ==
    /\ DOMAIN Staff \subseteq Users
    /\ \A u \in DOMAIN Staff :
        /\ Staff[u] \in User
        /\ Staff[u].role \in StaffRoles
        /\ \A w \in DOMAIN Staff \ {u} : Staff[w].email # Staff[u].email

AccessTypeOK ==
    /\ OfficeTypeOK
    /\ users \in [Users -> User \cup {None, Gone}]
    /\ sessions \in [Sessions -> Session \cup {None}]
    /\ requests \in [Requests -> Request]

AccessInit ==
    /\ Init
    /\ users = [u \in Users |-> IF u \in DOMAIN Staff THEN Staff[u] ELSE None]
    /\ sessions = [j \in Sessions |-> None]
    /\ requests = [r \in Requests |-> Idle]

IsUser(u) == users[u] \notin {None, Gone}
IsIssued(j) == sessions[j] # None
IsLive(j) == IsIssued(j) /\ sessions[j].state = "live"
IsStored(j) == IsIssued(j) /\ sessions[j].state # "deleted"

ClaimsOf(u) == [user |-> u, role |-> users[u].role, client |-> users[u].client]

Keep(r, step, id, held) ==
    requests' = [requests EXCEPT ![r] = [step |-> step, id |-> id, held |-> held]]

Start(r, step, id, held) == requests[r] = Idle /\ Keep(r, step, id, held)

Finish(r) == requests' = [requests EXCEPT ![r] = Idle]

-----------------------------------------------------------------------------
(* Accounts.                                                               *)

(* The client is loaded, and has no login, nor has its email.              *)
LoadClientToAdmit(r, c) ==
    /\ IsClient(c)
    /\ \A u \in Users : IsUser(u) =>
        users[u].client # c /\ users[u].email # clients[c].email
    /\ Start(r, "account", c, clients[c].email)
    /\ UNCHANGED <<vars, users, sessions>>

(* Mutant: the client is not asked for again, nor whether it has a login.  *)
CreateAnyCustomer(r, u) ==
    LET c == requests[r].id
        e == requests[r].held IN
    /\ requests[r].step = "account"
    /\ users[u] = None
    /\ \A w \in Users : IsUser(w) => users[w].email # e
    /\ users' = [users EXCEPT ![u] =
            [email |-> e, role |-> "CUSTOMER", client |-> c]]
    /\ Finish(r)
    /\ UNCHANGED <<vars, sessions>>

(* Mutant: the login is stored without its client.                         *)
CreateUnlinkedCustomer(r, u) ==
    LET e == requests[r].held IN
    /\ requests[r].step = "account"
    /\ users[u] = None
    /\ \A w \in Users : IsUser(w) => users[w].email # e
    /\ users' = [users EXCEPT ![u] =
            [email |-> e, role |-> "CUSTOMER", client |-> None]]
    /\ Finish(r)
    /\ UNCHANGED <<vars, sessions>>

(* The insert: email and client are unique, and the client is there.       *)
CreateCustomer(r, u) ==
    LET c == requests[r].id
        e == requests[r].held IN
    /\ requests[r].step = "account"
    /\ users[u] = None
    /\ IsClient(c)
    /\ \A w \in Users : IsUser(w) => users[w].client # c /\ users[w].email # e
    /\ users' = [users EXCEPT ![u] =
            [email |-> e, role |-> "CUSTOMER", client |-> c]]
    /\ Finish(r)
    /\ UNCHANGED <<vars, sessions>>

(* A client's login and its sessions go with the client (onDelete:         *)
(* Cascade).                                                               *)
LoginsOf(c) == {u \in Users : IsUser(u) /\ users[u].client = c}

RemoveClient(c) ==
    /\ DeleteClient(c)
    /\ users' = [u \in Users |-> IF u \in LoginsOf(c) THEN Gone ELSE users[u]]
    /\ sessions' = [j \in Sessions |->
            IF IsIssued(j) /\ sessions[j].claims.user \in LoginsOf(c)
            THEN [sessions[j] EXCEPT !.state = "deleted"] ELSE sessions[j]]
    /\ UNCHANGED requests

-----------------------------------------------------------------------------
(* Login, refresh, logout.                                                 *)

(* The login is found by its email and the password matches.               *)
FindLogin(r, u) ==
    /\ IsUser(u)
    /\ Start(r, "login", None, ClaimsOf(u))
    /\ UNCHANGED <<vars, users, sessions>>

NewSession(claims, login) ==
    [claims |-> claims, login |-> login, state |-> "live"]

(* The session is stored, if its user is still there, and the tokens go    *)
(* out.                                                                    *)
CreateSession(r, j) ==
    /\ requests[r].step = "login"
    /\ sessions[j] = None
    /\ IsUser(requests[r].held.user)
    /\ sessions' = [sessions EXCEPT ![j] = NewSession(requests[r].held, j)]
    /\ Finish(r)
    /\ UNCHANGED <<vars, users>>

(* A refresh token is read, and its session found live.                    *)
FindConsumed(r, j) ==
    /\ IsLive(j)
    /\ Start(r, "consuming", j, None)
    /\ UNCHANGED <<vars, users, sessions>>

(* Its user is loaded and the new pair signed.                             *)
Issue(r) ==
    LET u == sessions[requests[r].id].claims.user IN
    /\ requests[r].step = "consuming"
    /\ IsUser(u)
    /\ Keep(r, "rotating", requests[r].id, ClaimsOf(u))
    /\ UNCHANGED <<vars, users, sessions>>

(* Mutant: the consumed session is revoked whatever became of it.          *)
RotateAnyway(r, k) ==
    LET j == requests[r].id IN
    /\ requests[r].step = "rotating"
    /\ IsStored(j)
    /\ sessions[k] = None
    /\ sessions' = [sessions EXCEPT
            ![j].state = "revoked",
            ![k] = NewSession(requests[r].held, sessions[j].login)]
    /\ Finish(r)
    /\ UNCHANGED <<vars, users>>

(* In one transaction: the consumed session is revoked if it is live, and  *)
(* then, the user still there, the new one is stored and the tokens go out.*)
Rotate(r, k) ==
    LET j == requests[r].id IN
    /\ requests[r].step = "rotating"
    /\ IsLive(j)
    /\ sessions[k] = None
    /\ IsUser(requests[r].held.user)
    /\ sessions' = [sessions EXCEPT
            ![j].state = "revoked",
            ![k] = NewSession(requests[r].held, sessions[j].login)]
    /\ Finish(r)
    /\ UNCHANGED <<vars, users>>

(* A refresh token is read at logout, and its session is not revoked yet.  *)
FindSession(r, j) ==
    /\ IsLive(j)
    /\ Start(r, "leaving", j, None)
    /\ UNCHANGED <<vars, users, sessions>>

(* Revoked, perhaps again: a refresh may have consumed it meanwhile.       *)
Revoke(r) ==
    LET j == requests[r].id IN
    /\ requests[r].step = "leaving"
    /\ IsStored(j)
    /\ sessions' = [sessions EXCEPT ![j].state = "revoked"]
    /\ Finish(r)
    /\ UNCHANGED <<vars, users>>

(* A row is gone, an index or a foreign key refuses, the session is not    *)
(* live any more, the token expired, or the process stops.                 *)
Fail(r) ==
    /\ requests[r] # Idle
    /\ Finish(r)
    /\ UNCHANGED <<vars, users, sessions>>

-----------------------------------------------------------------------------
(* What a customer is shown.                                               *)

(* clientScopeOf: the claims of a customer name the client whose orders    *)
(* (findMine, findServiceOrder) and their budgets it sees and answers; the *)
(* workshop sees all.  The user is not loaded again.                       *)
InScope(t, o) == t.role = "CUSTOMER" => orders[o].client = t.client

-----------------------------------------------------------------------------
AccessNext ==
    \/ Registering /\ UNCHANGED <<users, sessions, requests>>
    \/ \E c \in Clients : RemoveClient(c)
    \/ \E r \in Requests :
        \/ \E c \in Clients : LoadClientToAdmit(r, c)
        \/ \E u \in Users : CreateCustomer(r, u) \/ FindLogin(r, u)
        \/ \E j \in Sessions :
            \/ CreateSession(r, j)
            \/ FindConsumed(r, j)
            \/ Rotate(r, j)
            \/ FindSession(r, j)
        \/ Issue(r)
        \/ Revoke(r)
        \/ Fail(r)

AccessSpec == AccessInit /\ [][AccessNext]_accessVars

-----------------------------------------------------------------------------
(* Properties.                                                             *)

(* A customer's login has a client that is there and no other login has,   *)
(* emails of logins are unique, and whoever has a session that is not      *)
(* revoked has a login, although an account, a login or a refresh may      *)
(* overlap the removal of the client (create-client-account, login).       *)
LoginsFollowClients ==
    /\ \A u \in Users : IsUser(u) =>
        /\ users[u].role = "CUSTOMER" => IsClient(users[u].client)
        /\ \A w \in Users \ {u} : IsUser(w) =>
            /\ users[w].email # users[u].email
            /\ users[w].role = "CUSTOMER" => users[w].client # users[u].client
    /\ \A j \in Sessions : IsStored(j) => IsUser(sessions[j].claims.user)

(* The scope in a token is that of its login for as long as the token may  *)
(* be used: what it shows a customer are orders of the client whose login  *)
(* it is, even when the client or the login was removed after the token    *)
(* went out (current-user.decorator: "O recorte de dados de quem chama";   *)
(* access-token.strategy: "O CUSTOMER só enxerga o que é do próprio        *)
(* cliente").                                                              *)
CustomersSeeTheirOwn ==
    \A j \in Sessions, o \in Orders :
        IsIssued(j) /\ IsOrder(o) =>
            LET t == sessions[j].claims IN
            t.role = "CUSTOMER" /\ InScope(t, o) =>
                IsUser(t.user) /\ users[t.user].client = orders[o].client

(* A login has one session at a time, however refreshes of the same token  *)
(* and logouts overlap, and none after it was closed (refresh-tokens:      *)
(* "dois pedidos com o mesmo token rendem uma sessão só").                 *)
LivePairs == {<<sessions[j].login, j>> : j \in {i \in Sessions : IsLive(i)}}
SpentIds == {j \in Sessions : IsIssued(j) /\ ~IsLive(j)}

Chain == INSTANCE Rotation WITH live <- LivePairs, spent <- SpentIds

IsRotation == Chain!Spec

(* The strengthening: claims are those of their login while it is there,   *)
(* and a customer's client that is gone stays gone.                        *)
ClaimsHold(t) ==
    /\ users[t.user] # None
    /\ IsUser(t.user) => t = ClaimsOf(t.user)
    /\ t.role = "CUSTOMER" => t.client \in Clients /\ clients[t.client] # None
    /\ t.role = "CUSTOMER" /\ ~IsUser(t.user) => ~IsClient(t.client)

SessionsHold == \A j \in Sessions : IsIssued(j) => ClaimsHold(sessions[j].claims)

RequestHolds(q) ==
    /\ q.step \in {"login", "rotating"} => ClaimsHold(q.held)
    /\ q.step \in {"consuming", "leaving", "rotating"} => IsIssued(q.id)

AccessIInv ==
    /\ OfficeIInv
    /\ AccessTypeOK
    /\ LoginsFollowClients
    /\ SessionsHold
    /\ \A r \in Requests : RequestHolds(requests[r])
=============================================================================
