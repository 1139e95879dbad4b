----------------------------- MODULE Authorization -----------------------------
(***************************************************************************)
(* What stands between a request and its handler once authentication has   *)
(* run: TrustedForwardedHeadersMiddleware, AuthorizationMiddleware, the    *)
(* [[= Authorize ]] annotation of the controller method, and the           *)
(* AuthorizationProxy around a service method.  One request is chosen at   *)
(* the start and goes through the chain that Pipeline::execute builds: a   *)
(* middleware that does not call next() ends it.                           *)
(*                                                                         *)
(* Addresses are sequences of bytes of ByteBits bits.  A roles claim of a  *)
(* JWT is an array or a text, given as its words.                          *)
(***************************************************************************)
EXTENDS Integers, Sequences, SequencesExt, FiniteSets

CONSTANTS ByteBits,   \* bits of a byte
          Addresses,  \* texts that are addresses
          Hosts,      \* texts safe_value accepts for a host
          Cidrs,      \* trusted_peer_cidrs: [net, prefix]
          TrustAll,   \* trust_all_direct_peers
          Requests    \* requests with the configuration they meet:
                      \* [peer, header, apply, principal, policies, method, class, call, service]

(* header: a Forwarded header, elements that are sequences of <<name,      *)
(* value>>.  apply: which of "proto" and "host" are applied.  principal:   *)
(* [kind, scopes, roles], kind "none", "jwt" or "session".  policies: those*)
(* of the middleware, in order.  method and class, call and service:       *)
(* annotations of the controller's method and class, and of the method and *)
(* class of the service it calls.                                          *)

VARIABLES r,          \* the request
          address,    \* client address the handler will see
          scheme,
          authority,
          pc,         \* the middleware about to run
          status      \* the response, "none" while there is none

vars == <<r, address, scheme, authority, pc, status>>

Init ==
  /\ r \in Requests
  /\ address = r.peer /\ scheme = <<"http">> /\ authority = <<"own">>
  /\ pc = "forwarded" /\ status = "none"

-----------------------------------------------------------------------------
(* cidr_contains: whole bytes, then the bits that remain under a mask.     *)
Top(byte, bits) == byte \div (2 ^ (ByteBits - bits))
CidrContainsWhole(c, peer) ==
  LET full == c.prefix \div ByteBits
  IN Len(c.net) = Len(peer) /\ c.prefix <= ByteBits * Len(peer) /\ \A i \in 1..full : c.net[i] = peer[i]
CidrContains(c, peer) ==
  LET full == c.prefix \div ByteBits
      rest == c.prefix % ByteBits
  IN /\ Len(c.net) = Len(peer)
     /\ c.prefix <= ByteBits * Len(peer)
     /\ \A i \in 1..full : c.net[i] = peer[i]
     /\ rest = 0 \/ Top(c.net[full + 1], rest) = Top(peer[full + 1], rest)

PeerIsTrusted(peer) == TrustAll \/ \E c \in Cidrs : CidrContains(c, peer)

(* handle(): the parts of the first element, later ones overriding; a value*)
(* that is not an address, a scheme or a host is ignored.                  *)
FirstElement(h) == IF h = <<>> THEN <<>> ELSE h[1]
LastNamed(parts, name, values, default) ==
  LET at == {i \in DOMAIN parts : parts[i][1] = name /\ parts[i][2] \in values}
  IN IF at = {} THEN default ELSE parts[CHOOSE i \in at : \A j \in at : i >= j][2]
Schemes == {<<"http">>, <<"https">>}
Applied(name, values) == IF name \in r.apply THEN values ELSE {}
ApplyForwarded ==
  /\ pc = "forwarded" /\ pc' = "authorization"
  /\ IF PeerIsTrusted(r.peer)
       THEN LET parts == FirstElement(r.header)
            IN  /\ address' = LastNamed(parts, "for", Addresses, address)
                /\ scheme' = LastNamed(parts, "proto", Applied("proto", Schemes), scheme)
                /\ authority' = LastNamed(parts, "host", Applied("host", Hosts), authority)
       ELSE UNCHANGED <<address, scheme, authority>>
  /\ UNCHANGED <<r, status>>

-----------------------------------------------------------------------------
(* A policy that applies to the request: match, auth, scopes, any (of the  *)
(* scopes), roles, anyRole, custom (what its predicates answer).           *)
Satisfies(actual, required, any) ==
  IF required = {} THEN TRUE
  ELSE IF any THEN \E v \in required : v \in actual ELSE \A v \in required : v \in actual

Authenticated == r.principal.kind # "none"
Answer(s) == status' = s /\ pc' = "end" /\ UNCHANGED <<r, address, scheme, authority>>
Pass(next) == pc' = next /\ UNCHANGED <<r, address, scheme, authority, status>>

PolicyFails(p) ==
  \/ p.auth /\ ~(Satisfies(r.principal.scopes, p.scopes, p.any) /\ Satisfies(r.principal.roles, p.roles, p.anyRole))
  \/ ~p.custom

Authorize ==
  LET matching == {i \in DOMAIN r.policies : r.policies[i].match}
  IN /\ pc = "authorization"
     /\ IF matching = {} THEN Pass("route")
        ELSE IF (\E i \in matching : r.policies[i].auth) /\ ~Authenticated THEN Answer("401")
        ELSE IF \E i \in matching : PolicyFails(r.policies[i]) THEN Answer("403")
        ELSE Pass("route")

(* requirements_for: PermitAll of the method, then its own annotation, then*)
(* that of the class.                                                      *)
RequirementsFor(method, class) ==
  IF method.mark = "permitAll" THEN [mark |-> "none"]
  ELSE IF method.mark = "authorize" THEN method
  ELSE IF class.mark = "authorize" THEN class ELSE [mark |-> "none"]

Evaluate(q) ==
  IF ~Authenticated THEN "Unauthenticated"
  ELSE IF Satisfies(r.principal.roles, q.roles, q.anyRole) /\ Satisfies(r.principal.scopes, q.scopes, q.any)
    THEN "Allowed" ELSE "Forbidden"

(* authorize_declarative, before the controller method is called.          *)
Declared ==
  LET q == RequirementsFor(r.method, r.class)
  IN /\ pc = "route"
     /\ IF q.mark = "none" \/ Evaluate(q) = "Allowed" THEN Pass("service")
        ELSE Answer(IF Evaluate(q) = "Unauthenticated" THEN "401" ELSE "403")

(* AuthorizationProxy::invoke from the handler: the same decision for the  *)
(* service's method and class, as an exception.                            *)
Invoke ==
  LET q == RequirementsFor(r.call, r.service)
  IN /\ pc = "service"
     /\ IF q.mark = "none" \/ Evaluate(q) = "Allowed" THEN Answer("200") ELSE Answer("500")

Next == ApplyForwarded \/ Authorize \/ Declared \/ Invoke
Spec == Init /\ [][Next]_vars

-----------------------------------------------------------------------------
(* What a requirement means, without the order of the checks.              *)
Holds(principal, q) ==
  /\ principal.kind # "none"
  /\ q.scopes = {} \/ (q.any /\ q.scopes \cap principal.scopes # {}) \/ (~q.any /\ q.scopes \subseteq principal.scopes)
  /\ q.roles = {} \/ (q.anyRole /\ q.roles \cap principal.roles # {}) \/ (~q.anyRole /\ q.roles \subseteq principal.roles)
InForce(method, class) == IF method.mark = "none" THEN class ELSE method
Admits(mark) == mark.mark = "authorize" => Holds(r.principal, mark)
Permitted ==
  /\ \A i \in DOMAIN r.policies :
       LET p == r.policies[i] IN p.match => p.custom /\ (p.auth => Holds(r.principal, p))
  /\ Admits(InForce(r.method, r.class)) /\ Admits(InForce(r.call, r.service))

Bit(byte, k) == (byte \div (2 ^ (ByteBits - k))) % 2
Bits(a) == [n \in 1..(ByteBits * Len(a)) |-> Bit(a[((n - 1) \div ByteBits) + 1], ((n - 1) % ByteBits) + 1)]
InNetwork(a) ==
  \E c \in Cidrs : Len(c.net) = Len(a) /\ c.prefix <= ByteBits * Len(a) /\ \A n \in 1..c.prefix : Bits(c.net)[n] = Bits(a)[n]

(* What the first element reports under a name is what is seen: the last   *)
(* usable value, or what was there before.                                 *)
Seen(name, values, seen, own) ==
  LET parts == IF r.header = <<>> THEN <<>> ELSE r.header[1]
      usable == SelectSeq(parts, LAMBDA p : p[1] = name /\ p[2] \in values)
  IN  seen = IF usable = <<>> THEN own ELSE Last(usable)[2]

(* The service answers exactly when every policy that matches and the      *)
(* annotations in force for the controller and for the service are         *)
(* satisfied; a request without a principal is never told 403 by a policy  *)
(* that needs one; and the handler sees the address, scheme and authority  *)
(* that the first element reports if the peer lies, bit by bit, in a       *)
(* trusted network, and those of the connection itself if it does not.     *)
AccessSound ==
  /\ pc = "end" => (status = "200" <=> Permitted)
  /\ status = "403" => r.principal.kind # "none" \/ \E i \in DOMAIN r.policies : r.policies[i].match /\ ~r.policies[i].custom
  /\ pc # "forwarded" =>
       IF TrustAll \/ InNetwork(r.peer)
       THEN /\ Seen("for", Addresses, address, r.peer)
            /\ Seen("proto", IF "proto" \in r.apply THEN Schemes ELSE {}, scheme, <<"http">>)
            /\ Seen("host", IF "host" \in r.apply THEN Hosts ELSE {}, authority, <<"own">>)
       ELSE address = r.peer /\ scheme = <<"http">> /\ authority = <<"own">>
=============================================================================
