---------------------------------- MODULE Jwt ----------------------------------
(***************************************************************************)
(* middleware/jwt_middleware.cpp: JwtTokenBuilder and JwtIssuer::issue,    *)
(* verify_token, JwtMiddleware::handle and its WebSocket authorizer, with  *)
(* a clock that advances between issuing and presenting a token.           *)
(*                                                                         *)
(* A payload is the sequence of its JSON fields <<name, type, value>>; a   *)
(* string is the sequence of its words, so that joining scopes with spaces *)
(* and splitting at spaces are what they are in the code.  The issuer      *)
(* writes whole seconds (unix_seconds truncates); the clock is finer.  A   *)
(* signature is the record of what was signed, with what.                  *)
(***************************************************************************)
EXTENDS Integers, Sequences, SequencesExt, FiniteSets

CONSTANTS Tps,        \* clock ticks per second
          MaxTime,    \* bound on the clock, in ticks
          Builders,   \* token builders: subject, issuer, scopes, audience, expires,
                      \* notBefore (times in ticks) and claims; issued_at is left to the issuer
          Issuers,    \* JwtIssuer::Config: algorithm, key, array, defaultTtl, iat
          Verifiers,  \* JwtMiddleware::Config: algorithms, keys, skew, and what is required
          Requests    \* [via, options, listed]: how a token is presented, if at all

VARIABLES now,        \* the system clock
          issuer, cfg,
          builder,    \* the builder of the token in circulation
          token,      \* that token, or NoToken
          born,       \* when it was issued
          seen,       \* the last request: how it was presented, verdict, principal
          dead        \* the token has been refused as expired

vars == <<now, issuer, cfg, builder, token, born, seen, dead>>

NoToken == [alg |-> "none"]
None == [verdict |-> "none"]
Floor(t) == (t \div Tps) * Tps
IsSet(x) == x # <<>>

TypeOK ==
  /\ now \in 0..MaxTime /\ issuer \in Issuers /\ cfg \in Verifiers /\ builder \in Builders
  /\ born \in 0..now /\ dead \in BOOLEAN

Init ==
  /\ now = 0 /\ born = 0
  /\ issuer \in Issuers /\ cfg \in Verifiers /\ builder \in Builders
  /\ token = NoToken /\ seen = None /\ dead = FALSE

Tick == now < MaxTime /\ now' = now + 1 /\ UNCHANGED <<issuer, cfg, builder, token, born, seen, dead>>

-----------------------------------------------------------------------------
(* serialize_claims: the fields in the order they are written.  An optional*)
(* value is a sequence of length at most one.                              *)
Field(name, type, value) == <<[name |-> name, type |-> type, value |-> value]>>
JoinWords(strings) == FlattenSeq(strings)
Expiry(b, i) ==
  IF IsSet(b.expires) THEN b.expires ELSE IF i.defaultTtl > 0 THEN <<now + i.defaultTtl>> ELSE <<>>
SerializeClaims(b, i) ==
  (IF IsSet(b.subject) THEN Field("sub", "string", b.subject[1]) ELSE <<>>)
  \o (IF IsSet(b.issuer) THEN Field("iss", "string", b.issuer[1]) ELSE <<>>)
  \o (IF b.audience = <<>> THEN <<>>
      ELSE IF Len(b.audience) = 1 THEN Field("aud", "string", b.audience[1]) ELSE Field("aud", "array", b.audience))
  \o (IF b.scopes = <<>> THEN <<>>
      ELSE IF i.array THEN Field("scope", "array", b.scopes) ELSE Field("scope", "string", JoinWords(b.scopes)))
  \o (IF IsSet(Expiry(b, i)) THEN Field("exp", "int", Floor(Expiry(b, i)[1])) ELSE <<>>)
  \o (IF IsSet(b.notBefore) THEN Field("nbf", "int", Floor(b.notBefore[1])) ELSE <<>>)
  \o (IF i.iat THEN Field("iat", "int", Floor(now)) ELSE <<>>)
  \o b.claims

Sign(alg, key, payload) == [alg |-> alg, key |-> key, input |-> payload]

(* issue(): nothing is issued without a key.                               *)
Issue ==
  /\ token = NoToken /\ issuer.key # ""
  /\ token' = [alg |-> issuer.algorithm, payload |-> SerializeClaims(builder, issuer),
               signature |-> Sign(issuer.algorithm, issuer.key, SerializeClaims(builder, issuer))]
  /\ born' = now
  /\ UNCHANGED <<now, issuer, cfg, builder, seen, dead>>

-----------------------------------------------------------------------------
(* obj[key] finds the first field of a name; read_all_claims keeps the     *)
(* last one of each type.                                                  *)
Named(p, name) == {i \in DOMAIN p : p[i].name = name}
First(p, name) == p[CHOOSE i \in Named(p, name) : \A j \in Named(p, name) : i <= j]
HasType(p, name, type) == Named(p, name) # {} /\ First(p, name).type = type
GetInt(p, name) == IF HasType(p, name, "int") THEN <<First(p, name).value>> ELSE <<>>
GetString(p, name) == IF HasType(p, name, "string") THEN First(p, name).value ELSE <<>>
LastString(p, name) ==
  LET at == {i \in Named(p, name) : p[i].type = "string"}
  IN IF at = {} THEN <<>> ELSE <<p[CHOOSE i \in at : \A j \in at : i >= j].value>>

Words(text) == [i \in DOMAIN text |-> <<text[i]>>]
ReadStringOrArray(p, name) ==
  IF HasType(p, name, "string") THEN <<First(p, name).value>>
  ELSE IF HasType(p, name, "array") THEN First(p, name).value ELSE <<>>
ReadScopes(p) ==
  IF HasType(p, "scope", "string") THEN Words(First(p, "scope").value) ELSE ReadStringOrArray(p, "scope")

SignatureOk(t, c) ==
  /\ t.alg \in c.algorithms /\ c.keys[t.alg] # ""
  /\ t.signature = Sign(t.alg, c.keys[t.alg], t.payload)

NotExpiredLate(p, c) == IsSet(GetInt(p, "exp")) => now - c.skew < GetInt(p, "exp")[1] + Tps
NotExpired(p, c) == IsSet(GetInt(p, "exp")) => now - c.skew < GetInt(p, "exp")[1]
Started(p, c, name) == IsSet(GetInt(p, name)) => now + c.skew >= GetInt(p, name)[1]

(* verify_token: the first check that fails names the verdict.             *)
VerifyToken(t, c) ==
  LET p == t.payload
  IN IF ~SignatureOk(t, c) THEN "invalid_signature"
     ELSE IF ~NotExpired(p, c) THEN "token_expired"
     ELSE IF c.requireExp /\ ~IsSet(GetInt(p, "exp")) THEN "missing_exp"
     ELSE IF c.checkNbf /\ ~Started(p, c, "nbf") THEN "token_not_yet_valid"
     ELSE IF c.checkIat /\ ~Started(p, c, "iat") THEN "token_issued_in_future"
     ELSE IF IsSet(c.issuer) /\ GetString(p, "iss") # c.issuer[1] THEN "issuer_mismatch"
     ELSE IF ~(c.audiences \subseteq ToSet(ReadStringOrArray(p, "aud"))) THEN "audience_mismatch"
     ELSE IF ~(c.scopes \subseteq ToSet(ReadScopes(p))) THEN "missing_scope"
     ELSE IF \E r \in c.claims : LastString(p, r.name) # <<r.value>> THEN "claim_mismatch"
     ELSE "ok"

Principal(t) == [subject |-> GetString(t.payload, "sub"), scopes |-> ReadScopes(t.payload)]

(* bearer_token, then the cookie when one is configured.                   *)
Presented(r, c) == r.via = "bearer" \/ (r.via = "cookie" /\ c.cookie)

(* handle(): OPTIONS and the allowlist pass without a token and without a  *)
(* principal.                                                              *)
Handle(r) ==
  LET bypass == (r.options /\ cfg.allowOptions) \/ r.listed
      v == IF Presented(r, cfg) THEN VerifyToken(token, cfg) ELSE "no_token"
  IN /\ token # NoToken
     /\ seen' = IF bypass THEN [verdict |-> "bypass", by |-> "http", at |-> now]
                ELSE [verdict |-> v, by |-> "http", at |-> now,
                      principal |-> IF v = "ok" THEN <<Principal(token)>> ELSE <<>>]
     /\ dead' = (dead \/ (~bypass /\ v = "token_expired"))
     /\ UNCHANGED <<now, issuer, cfg, builder, token, born>>

(* websocket_authorizer: a token without a subject is refused as well.     *)
Authorize(r) ==
  LET v == IF Presented(r, cfg) THEN VerifyToken(token, cfg) ELSE "no_token"
  IN /\ token # NoToken
     /\ seen' = [verdict |-> IF v = "ok" /\ Principal(token).subject = <<>> THEN "no_subject" ELSE v,
                 by |-> "websocket", at |-> now,
                 principal |-> IF v = "ok" /\ Principal(token).subject # <<>> THEN <<Principal(token)>> ELSE <<>>]
     /\ dead' = (dead \/ v = "token_expired")
     /\ UNCHANGED <<now, issuer, cfg, builder, token, born>>

Next == Tick \/ Issue \/ \E r \in Requests : Handle(r) \/ Authorize(r)
Spec == Init /\ [][Next]_vars

-----------------------------------------------------------------------------
(* What the builder asked for, in ticks.                                   *)
Asked == IF IsSet(builder.expires) THEN builder.expires
         ELSE IF issuer.defaultTtl > 0 THEN <<born + issuer.defaultTtl>> ELSE GetInt(builder.claims, "exp")

(* A token is accepted only inside the window it was issued for, the clock *)
(* skew and one second of rounding of the start included; and it is refused*)
(* as expired only from one second before the end it was issued for.       *)
InsideWindow ==
  seen.verdict \in {"ok", "no_subject"} =>
    /\ IsSet(Asked) => seen.at < Asked[1] + cfg.skew
    /\ IsSet(builder.notBefore) /\ cfg.checkNbf => seen.at + cfg.skew > builder.notBefore[1] - Tps
RefusedOutside ==
  /\ seen.verdict = "token_expired" => IsSet(Asked) /\ seen.at - cfg.skew > Asked[1] - Tps
  /\ seen.verdict = "missing_exp" => ~IsSet(Asked)
  /\ seen.verdict = "token_not_yet_valid" => seen.at + cfg.skew < builder.notBefore[1]
  /\ seen.verdict # "token_issued_in_future"

(* An accepted token carries the builder's subject and exactly its scopes, *)
(* whichever encoding the issuer uses, when no scope contains a space; a   *)
(* claim of the builder that repeats a field's name does not replace it.   *)
PrincipalFaithful ==
  seen.verdict = "ok" =>
    LET p == seen.principal[1]
    IN /\ IsSet(builder.subject) => p.subject = builder.subject[1]
       /\ issuer.array \/ (\A i \in DOMAIN builder.scopes : Len(builder.scopes[i]) = 1) => p.scopes = builder.scopes
       /\ issuer.key = cfg.keys[issuer.algorithm] /\ issuer.algorithm \in cfg.algorithms
       /\ cfg.scopes \subseteq ToSet(p.scopes)

(* A token that has been refused as expired is never accepted again.       *)
ExpiryIsFinal == dead => seen.verdict # "ok"

(* Tokens are accepted inside their window and refused outside it, for good*)
(* once they have expired, over HTTP and in a WebSocket handshake, and the *)
(* principal they give is the one that was issued.                         *)
TokensSound == TypeOK /\ InsideWindow /\ RefusedOutside /\ PrincipalFaithful /\ ExpiryIsFinal
=============================================================================
