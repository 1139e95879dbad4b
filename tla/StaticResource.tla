----------------------------- MODULE StaticResource -----------------------------
(***************************************************************************)
(* serve_static_resource (http/static_resource.cpp): conditional and range *)
(* requests for a file that other processes rewrite meanwhile.  The size,  *)
(* the modification time and the content are read one after the other.     *)
(* The file system is external; a name that is not below the root or not a *)
(* regular file is not served.  A file's content is its version, once for  *)
(* each byte.                                                              *)
(***************************************************************************)
EXTENDS Integers, Sequences

CONSTANTS Sizes,       \* sizes of the file
          Ranges,      \* Range headers: [form, x, y]
          MaxVersions  \* bound of the model: rewrites, and requests, over a run

VARIABLES file,        \* the file: [exists, size, mtime, version]
          pc, request, \* the request being served: [range, match, head]
          size, etag,  \* file_size and etag of the call
          response,    \* status, content-range and body
          cache,       \* what the client keeps: the etag and the version it came with
          versions, requests, \* rewrites and requests so far
          calm         \* history: no rewrite since the call began

vars == <<file, pc, request, size, etag, response, cache, versions, requests, calm>>

Etag(n, mtime) == <<n, mtime>>
NoEtag == <<-1, -1>>
Any == <<-2, -2>>
NoRange == [form |-> "absent", x |-> 0, y |-> 0]
Response(status, first, last, body) == [status |-> status, first |-> first, last |-> last, body |-> body]
NoResponse == Response(0, 0, 0, <<>>)

Init ==
  /\ file \in {[exists |-> TRUE, size |-> n, mtime |-> 1, version |-> 1] : n \in Sizes}
  /\ pc = "idle" /\ request = [range |-> NoRange, match |-> NoEtag, head |-> FALSE]
  /\ size = 0 /\ etag = NoEtag /\ response = NoResponse
  /\ cache = [etag |-> NoEtag, version |-> 0] /\ versions = 1 /\ requests = 0 /\ calm = TRUE

(* Another process rewrites the file, or removes it.  Every rewrite has a  *)
(* modification time of its own.                                           *)
Rewrite(n) ==
  /\ versions < MaxVersions /\ versions' = versions + 1 /\ calm' = FALSE
  /\ file' = [exists |-> TRUE, size |-> n, mtime |-> versions + 1, version |-> versions + 1]
  /\ UNCHANGED <<pc, request, size, etag, response, cache, requests>>
Remove ==
  /\ file.exists /\ versions < MaxVersions /\ versions' = versions + 1 /\ calm' = FALSE
  /\ file' = [file EXCEPT !.exists = FALSE]
  /\ UNCHANGED <<pc, request, size, etag, response, cache, requests>>

-----------------------------------------------------------------------------
(* Mutant: the last byte of the range is not cut off at the end.           *)
ParseRangeUncut(r, n) ==
  CASE r.form = "absent" -> [status |-> "absent", first |-> 0, last |-> IF n = 0 THEN 0 ELSE n - 1]
    [] r.form = "suffix" /\ n > 0 /\ r.x > 0 -> [status |-> "valid", first |-> IF r.x < n THEN n - r.x ELSE 0, last |-> n - 1]
    [] r.form = "from" /\ n > 0 /\ r.x < n -> [status |-> "valid", first |-> r.x, last |-> n - 1]
    [] r.form = "span" /\ n > 0 /\ r.x < n /\ r.y >= r.x -> [status |-> "valid", first |-> r.x, last |-> r.y]
    [] OTHER -> [status |-> "invalid", first |-> 0, last |-> 0]
(* parse_range: "suffix" is bytes=-x, "from" bytes=x-, "span" bytes=x-y;   *)
(* "bad" is what does not parse, several ranges included.                  *)
ParseRange(r, n) ==
  CASE r.form = "absent" -> [status |-> "absent", first |-> 0, last |-> IF n = 0 THEN 0 ELSE n - 1]
    [] r.form = "suffix" /\ n > 0 /\ r.x > 0 -> [status |-> "valid", first |-> IF r.x < n THEN n - r.x ELSE 0, last |-> n - 1]
    [] r.form = "from" /\ n > 0 /\ r.x < n -> [status |-> "valid", first |-> r.x, last |-> n - 1]
    [] r.form = "span" /\ n > 0 /\ r.x < n /\ r.y >= r.x ->
         [status |-> "valid", first |-> r.x, last |-> IF r.y < n THEN r.y ELSE n - 1]
    [] OTHER -> [status |-> "invalid", first |-> 0, last |-> 0]

(* The client asks, with the etag it has when it has one.                  *)
Ask(range, head, any) ==
  /\ pc = "idle" /\ requests < MaxVersions /\ requests' = requests + 1
  /\ request' = [range |-> range, head |-> head, match |-> IF any THEN Any ELSE cache.etag]
  /\ pc' = "stat" /\ response' = NoResponse /\ calm' = TRUE
  /\ UNCHANGED <<file, size, etag, cache, versions>>

Answer(r) == response' = r /\ pc' = "answered"
(* is_regular_file and file_size, then last_write_time and the headers.    *)
Stat ==
  /\ pc = "stat"
  /\ IF file.exists THEN size' = file.size /\ pc' = "mtime" /\ UNCHANGED response
     ELSE Answer(Response(404, 0, 0, <<>>)) /\ UNCHANGED size
  /\ UNCHANGED <<file, request, etag, cache, versions, requests, calm>>
Modified ==
  /\ pc = "mtime"
  /\ IF ~file.exists THEN Answer(Response(404, 0, 0, <<>>)) /\ UNCHANGED etag
     ELSE /\ etag' = Etag(size, file.mtime)
          /\ IF request.match \in {etag', Any} THEN Answer(Response(304, 0, 0, <<>>))
             ELSE IF ParseRange(request.range, size).status = "invalid" THEN Answer(Response(416, 0, 0, <<>>))
             ELSE pc' = "read" /\ UNCHANGED response
  /\ UNCHANGED <<file, request, size, cache, versions, requests, calm>>

(* The file is opened and read, unless it is a HEAD request; fewer than ex-*)
(* pected is a file not served.                                            *)
Content(first, n) == [i \in 1 .. (IF first + n <= file.size THEN n ELSE IF first < file.size THEN file.size - first ELSE 0) |-> file.version]
Read ==
  LET range == ParseRange(request.range, size)
      n == IF range.status = "valid" THEN range.last - range.first + 1 ELSE size
      status == IF range.status = "valid" THEN 206 ELSE 200
      body == Content(range.first, n)
  IN /\ pc = "read"
     /\ IF request.head THEN Answer(Response(status, range.first, range.last, <<>>))
        ELSE IF ~file.exists \/ Len(body) # n THEN Answer(Response(404, 0, 0, <<>>))
        ELSE Answer(Response(status, range.first, range.last, body))
     /\ UNCHANGED <<file, request, size, etag, cache, versions, requests, calm>>

(* The client keeps a whole answer under its etag.                         *)
Keep ==
  /\ pc = "answered" /\ pc' = "idle"
  /\ cache' = IF response.status = 200 /\ ~request.head /\ response.body # <<>>
              THEN [etag |-> etag, version |-> response.body[1]] ELSE cache
  /\ UNCHANGED <<file, request, size, etag, response, versions, requests, calm>>

Next ==
  \/ (\E n \in Sizes : Rewrite(n)) \/ Remove
  \/ \E r \in Ranges \cup {NoRange}, head, any \in BOOLEAN : Ask(r, head, any)
  \/ Stat \/ Modified \/ Read \/ Keep
Spec == Init /\ [][Next]_vars

-----------------------------------------------------------------------------
(* A 304 to an etag of the client's confirms the version it keeps; a body  *)
(* has the length its headers announce and a range lies in the file; and   *)
(* when nobody writes meanwhile, every body is the file's.                 *)
StaticSound ==
  /\ pc = "answered" /\ response.status = 304 /\ request.match # Any /\ calm => cache.version = file.version
  /\ pc = "answered" /\ response.status \in {200, 206} =>
       /\ response.status = 206 => response.first <= response.last /\ response.last < size
       /\ ~request.head => Len(response.body) =
            (IF response.status = 206 THEN response.last - response.first + 1 ELSE size)
       /\ calm => \A i \in DOMAIN response.body : response.body[i] = file.version
  /\ pc = "answered" /\ calm => response.status # 404 \/ ~file.exists
=============================================================================
