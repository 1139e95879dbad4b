------------------------------- MODULE Sessions -------------------------------
(***************************************************************************)
(* middleware/session_middleware.cpp, csrf_middleware.cpp and the session  *)
(* store of the PostgreSQL driver: login, logout and authenticated         *)
(* requests of browsers, served by threads that share one store.           *)
(*                                                                         *)
(* Each call of the store is one step (a mutex, or one SQL statement).  A  *)
(* request carries the cookies the browser had when it was sent; its       *)
(* response sets the browser's cookies when it arrives, in any order.  The *)
(* PostgreSQL store may fail in any call, before or after the statement has*)
(* had its effect, which ends the request with the exception's response and*)
(* without the cookie it would have set.                                   *)
(***************************************************************************)
EXTENDS Naturals, FiniteSets, TLC

CONSTANTS Requests,   \* requests, each made once
          Browser,    \* [Requests -> browsers]: who makes it
          Kind,       \* [Requests -> {"login", "logout", "get", "post"}]
          Subject,    \* [Requests -> subjects]: who a login is for
          Ttl,        \* config_.ttl
          MaxTime,    \* bound on the clock
          Faulty      \* the store is PostgresSessionStore and may throw

VARIABLES now,        \* the system clock
          store,      \* sessions_: id -> [subject, expires]
          jar,        \* per browser, the session cookie, 0 when there is none
          csrf,       \* per browser, the CSRF cookie, 0 when there is none
          page,       \* per browser, the CSRF token its page has read
          fresh,      \* identifiers generated so far (RAND_bytes never repeats)
          req,        \* the requests
          owner,      \* history: id -> what every session ever stored was, and for which browser
          gone        \* history: identifiers that login or logout has erased

vars == <<now, store, jar, csrf, page, fresh, req, owner, gone>>

Browsers == {Browser[r] : r \in Requests}
Unsent == [pc |-> "unsent"]
EmptyMap == << >>
Without(f, id) == [x \in DOMAIN f \ {id} |-> f[x]]

TypeOK ==
  /\ now \in 0..MaxTime /\ fresh \in Nat
  /\ DOMAIN store \subseteq 1..fresh /\ DOMAIN owner \subseteq 1..fresh /\ gone \subseteq 1..fresh
  /\ jar \in [Browsers -> 0..fresh] /\ csrf \in [Browsers -> 0..fresh]

Init ==
  /\ now = 0 /\ fresh = 0
  /\ store = EmptyMap /\ owner = EmptyMap /\ gone = {}
  /\ jar = [b \in Browsers |-> 0] /\ csrf = [b \in Browsers |-> 0] /\ page = [b \in Browsers |-> 0]
  /\ req = [r \in Requests |-> Unsent]

Tick == now < MaxTime /\ now' = now + 1 /\ UNCHANGED <<store, jar, csrf, page, fresh, req, owner, gone>>

FirstStep(k) == CASE k = "login" -> "erase" [] k = "logout" -> "logout" [] OTHER -> "session"

(* The browser sends its cookies, and in a header what its page has read.  *)
Send(r) ==
  LET b == Browser[r]
  IN /\ req[r] = Unsent
     /\ req' = [req EXCEPT ![r] = [pc |-> FirstStep(Kind[r]), cookie |-> jar[b], token |-> csrf[b], header |-> page[b],
                                   subject |-> "", set |-> <<>>]]
     /\ UNCHANGED <<now, store, jar, csrf, page, fresh, owner, gone>>
ReadPage(b) ==
  /\ page[b] # csrf[b] /\ page' = [page EXCEPT ![b] = csrf[b]]
  /\ UNCHANGED <<now, store, jar, csrf, fresh, req, owner, gone>>

(* A response: its status and the cookies it sets (name and value).        *)
Respond(r, status, cookies) == req' = [req EXCEPT ![r] = [pc |-> "sent", status |-> status, set |-> cookies,
                                                          cookie |-> @.cookie, subject |-> @.subject]]
Goto(r, pc) == req' = [req EXCEPT ![r].pc = pc]

(* The statements of erase and put.                                        *)
Erased(r) ==
  /\ store' = Without(store, req[r].cookie)
  /\ gone' = gone \cup ({req[r].cookie} \ {0})
  /\ UNCHANGED <<fresh, owner>>
Stored(r) ==
  LET s == [subject |-> Subject[r], expires |-> now + Ttl]
  IN  /\ fresh' = fresh + 1
      /\ store' = (fresh' :> s) @@ store
      /\ owner' = (fresh' :> [session |-> s, browser |-> Browser[r]]) @@ owner
      /\ UNCHANGED gone

(* A call that throws may have reached the database.                       *)
StoreThrows(r) ==
  /\ Faulty /\ req[r].pc \in {"erase", "put", "logout", "session"}
  /\ \/ UNCHANGED <<store, fresh, owner, gone>>
     \/ req[r].pc \in {"erase", "logout"} /\ Erased(r)
     \/ req[r].pc = "put" /\ Stored(r)
  /\ Respond(r, "500", <<>>)
  /\ UNCHANGED <<now, jar, csrf, page>>

-----------------------------------------------------------------------------
(* login(): the incoming session is erased, then a fresh one is stored.    *)
LoginKeeps(r) ==
  /\ req[r].pc = "erase"
  /\ gone' = gone \cup ({req[r].cookie} \ {0})
  /\ Goto(r, "put")
  /\ UNCHANGED <<now, store, jar, csrf, page, fresh, owner>>

LoginErase(r) ==
  /\ req[r].pc = "erase" /\ Erased(r)
  /\ Goto(r, "put")
  /\ UNCHANGED <<now, jar, csrf, page>>

LoginPut(r) ==
  /\ req[r].pc = "put" /\ Stored(r)
  /\ Respond(r, "200", [session |-> fresh'])
  /\ UNCHANGED <<now, jar, csrf, page>>

(* logout(): the session is erased and the cookie is emptied.              *)
Logout(r) ==
  /\ req[r].pc = "logout" /\ Erased(r)
  /\ Respond(r, "200", [session |-> 0])
  /\ UNCHANGED <<now, jar, csrf, page>>

-----------------------------------------------------------------------------
(* SessionMiddleware::handle: find() erases what it finds expired.         *)
Live(id) == id \in DOMAIN store /\ store[id].expires > now
Authenticate(r) ==
  LET id == req[r].cookie
  IN /\ req[r].pc = "session"
     /\ IF Live(id)
          THEN req' = [req EXCEPT ![r].pc = "csrf", ![r].subject = store[id].subject] /\ UNCHANGED store
          ELSE Respond(r, "401", <<>>) /\ store' = Without(store, id)
     /\ UNCHANGED <<now, jar, csrf, page, fresh, owner, gone>>

(* CsrfMiddleware::handle: a safe method issues a token when the request   *)
(* has none; another needs the header to repeat the cookie.                *)
Csrf(r) ==
  /\ req[r].pc = "csrf"
  /\ IF Kind[r] = "get"
       THEN /\ fresh' = IF req[r].token = 0 THEN fresh + 1 ELSE fresh
            /\ req' = [req EXCEPT ![r].pc = "handler",
                                  ![r].set = IF req[r].token = 0 THEN [csrf |-> fresh + 1] ELSE <<>>]
       ELSE /\ IF req[r].token # 0 /\ req[r].header = req[r].token THEN Goto(r, "handler") ELSE Respond(r, "403", <<>>)
            /\ UNCHANGED fresh
  /\ UNCHANGED <<now, store, jar, csrf, page, owner, gone>>

Handler(r) ==
  /\ req[r].pc = "handler"
  /\ Respond(r, "200", req[r].set)
  /\ UNCHANGED <<now, store, jar, csrf, page, fresh, owner, gone>>

(* PostgresSessionStore::erase_expired, a periodic statement.            *)
EraseExpired ==
  /\ Faulty /\ \E id \in DOMAIN store : ~Live(id)
  /\ store' = [id \in {x \in DOMAIN store : Live(x)} |-> store[id]]
  /\ UNCHANGED <<now, jar, csrf, page, fresh, req, owner, gone>>

(* The response reaches the browser.                                       *)
Arrive(r) ==
  LET b == Browser[r]
      c == req[r].set
  IN /\ req[r].pc = "sent"
     /\ jar' = [jar EXCEPT ![b] = IF "session" \in DOMAIN c THEN c.session ELSE @]
     /\ csrf' = [csrf EXCEPT ![b] = IF "csrf" \in DOMAIN c THEN c.csrf ELSE @]
     /\ req' = [req EXCEPT ![r].pc = "done"]
     /\ UNCHANGED <<now, store, page, fresh, owner, gone>>

Next ==
  \/ Tick \/ EraseExpired \/ \E b \in Browsers : ReadPage(b)
  \/ \E r \in Requests :
       \/ Send(r) \/ StoreThrows(r) \/ LoginErase(r) \/ LoginPut(r) \/ Logout(r)
       \/ Authenticate(r) \/ Csrf(r) \/ Handler(r) \/ Arrive(r)

Spec == Init /\ [][Next]_vars

-----------------------------------------------------------------------------
(* "Login always invalidates any incoming session ID before issuing a      *)
(* fresh one": an identifier that a login or a logout has erased is never  *)
(* in the store again, whatever requests with it are still being served.   *)
ErasedStaysErased == gone \cap DOMAIN store = {}

(* A request acts for the subject its cookie was issued to, and only for   *)
(* one that has logged in; a browser holds only cookies issued to it.      *)
OwnPrincipal ==
  /\ \A id \in DOMAIN store : store[id] = owner[id].session
  /\ \A b \in Browsers : jar[b] # 0 => owner[jar[b]].browser = b
  /\ \A r \in {x \in Requests : Kind[x] \in {"get", "post"}} :
       req[r].pc \in {"csrf", "handler"} \/ (req[r].pc \in {"sent", "done"} /\ req[r].status = "200") =>
         req[r].cookie \in DOMAIN owner /\ req[r].subject = owner[req[r].cookie].session.subject

(* A session that nobody has ended is in the store until it expires, so a  *)
(* login that was answered is not lost to another request's login, logout  *)
(* or failed call, of this browser or another.                             *)
LoginHolds == \A id \in DOMAIN owner : id \notin gone /\ owner[id].session.expires > now => id \in DOMAIN store

(* Sessions are never revived, never mixed up and never lost.              *)
SessionsSound == TypeOK /\ ErasedStaysErased /\ OwnPrincipal /\ LoginHolds
=============================================================================
