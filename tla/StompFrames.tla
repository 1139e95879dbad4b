------------------------------ MODULE StompFrames ------------------------------
(***************************************************************************)
(* Decoder::feed and serialize of messaging/stomp.cpp.  What one side      *)
(* serializes arrives at the other cut in any way, with heart-beats (line  *)
(* ends) between frames.                                                   *)
(*                                                                         *)
(* A byte is a member of a small alphabet: "LF", "CR", "NUL", a letter of  *)
(* a body, and, as one unit each, a command, a header line's text: "hdr",  *)
(* "bad" (no colon, or a wrong escape) or a content-length header.         *)
(***************************************************************************)
EXTENDS Naturals, Sequences, SequencesExt, FiniteSets

CONSTANTS Frames,         \* frames an endpoint may send
          Beats,          \* heart-beats a sender uses between frames
          Eols,           \* line ends a sender uses inside a frame
          Broken,         \* byte sequences that are no frame
          MaxFrames       \* bound of the model

VARIABLES sent,           \* the frames serialized
          sound,          \* nothing else follows them
          wire,           \* their bytes, with heart-beats, not yet arrived
          buffer,         \* buffer_
          failed,         \* failed_
          got             \* frames emitted by feed

vars == <<sent, sound, wire, buffer, failed, got>>

LengthHeader == <<"len0", "len1", "len2", "len3">>
Length(n) == LengthHeader[n + 1]
IsLength(b) == \E n \in 0..3 : Length(n) = b
LengthOf(b) == CHOOSE n \in 0..3 : Length(n) = b
At(s, b, from) == {i \in from..Len(s) : s[i] = b}
Find(s, b, from) == IF At(s, b, from) = {} THEN 0 ELSE CHOOSE i \in At(s, b, from) : \A j \in At(s, b, from) : i <= j

(* serialize: the headers, a content-length when the body holds a NUL and  *)
(* the frame has none, the empty line, the body, NUL.  A peer may end its  *)
(* lines with CR LF.                                                       *)
Serialize(f, eol) ==
  LET lines == f.headers \o (IF Contains(f.body, "NUL") /\ ~\E i \in DOMAIN f.headers : IsLength(f.headers[i])
                             THEN <<Length(Len(f.body))>> ELSE <<>>)
  IN <<f.command>> \o eol \o FlattenSeq([i \in DOMAIN lines |-> <<lines[i]>> \o eol]) \o eol
     \o f.body \o <<"NUL">>

(* One side's whole output is chosen at the start; feed does the rest.  A  *)
(* sender uses one kind of heart-beat: feed drops LFs and then CR LFs, so  *)
(* a CR LF followed by an LF in one buffer reads as an empty command.      *)
Init ==
  /\ \E n \in 0..MaxFrames, eol \in Eols, beat \in Beats, tail \in Broken \cup {<<>>} :
       \E fs \in [1..n -> Frames] :
         /\ sent = fs /\ sound = (tail = <<>>)
         /\ wire = beat \o FlattenSeq([i \in 1..n |-> Serialize(fs[i], eol) \o beat]) \o tail
  /\ buffer = <<>> /\ failed = FALSE /\ got = <<>>

-----------------------------------------------------------------------------
(* The pieces of feed.                                                     *)
RECURSIVE DropLf(_)
DropLf(b) == IF b # <<>> /\ b[1] = "LF" THEN DropLf(Tail(b)) ELSE b
RECURSIVE DropCrLf(_)
DropCrLf(b) == IF Len(b) >= 2 /\ b[1] = "CR" /\ b[2] = "LF" THEN DropCrLf(SubSeq(b, 3, Len(b))) ELSE b
Line(b, from, end) ==
  LET l == SubSeq(b, from, end - 1)
  IN IF l # <<>> /\ l[Len(l)] = "CR" THEN SubSeq(l, 1, Len(l) - 1) ELSE l

(* A line with a colon after a name, and no wrong escape in either part.   *)
WellFormed(line) == line = <<"hdr">> \/ IsLength(line[1])

(* The header lines from `from': "wait", "fail", or where the body starts. *)
RECURSIVE Headers(_, _, _)
Headers(b, from, acc) ==
  LET end == Find(b, "LF", from)
      line == Line(b, from, end)
  IN IF end = 0 THEN [is |-> "wait"]
     ELSE IF line = <<>> THEN [is |-> "body", at |-> end + 1, headers |-> acc]
     ELSE IF WellFormed(line) THEN Headers(b, end + 1, Append(acc, line[1]))
     ELSE [is |-> "fail"]

(* The body: content-length bytes and a NUL, or up to the first NUL.       *)
Body(b, cursor, headers) ==
  LET given == SelectSeq(headers, IsLength)
      n == LengthOf(given[1])
      nul == Find(b, "NUL", cursor)
  IN IF given = <<>> THEN
       IF nul = 0 THEN [is |-> "wait"] ELSE [is |-> "frame", body |-> SubSeq(b, cursor, nul - 1), next |-> nul + 1]
     ELSE IF n > Len(b) - cursor + 1 \/ Len(b) < cursor + n THEN [is |-> "wait"]
     ELSE IF b[cursor + n] # "NUL" THEN [is |-> "fail"]
     ELSE [is |-> "frame", body |-> SubSeq(b, cursor, cursor + n - 1), next |-> cursor + n + 1]

(* feed's loop: what is left in the buffer, the frames, and failure, which *)
(* also drops the frames decoded by this call.                             *)
RECURSIVE Decode(_, _)
Decode(b0, frames) ==
  LET b == DropCrLf(DropLf(b0))
      end == Find(b, "LF", 1)
      command == Line(b, 1, end)
      h == Headers(b, end + 1, <<>>)
      d == Body(b, h.at, h.headers)
      wait == [buffer |-> b, frames |-> frames, failed |-> FALSE]
      fail == [buffer |-> b, frames |-> <<>>, failed |-> TRUE]
  IN IF end = 0 THEN wait
     ELSE IF command = <<>> THEN fail
     ELSE IF h.is = "wait" THEN wait
     ELSE IF h.is = "fail" THEN fail
     ELSE IF d.is = "wait" THEN wait
     ELSE IF d.is = "fail" THEN fail
     ELSE Decode(SubSeq(b, d.next, Len(b)),
                 Append(frames, [command |-> command[1], headers |-> h.headers, body |-> d.body]))

(* feed() with the next n bytes.                                           *)
Feed(n) ==
  LET bytes == SubSeq(wire, 1, n)
      d == IF failed THEN [buffer |-> buffer, frames |-> <<>>, failed |-> TRUE]
           ELSE Decode(buffer \o bytes, <<>>)
  IN /\ wire' = SubSeq(wire, n + 1, Len(wire))
     /\ buffer' = d.buffer /\ failed' = d.failed /\ got' = got \o d.frames
     /\ UNCHANGED <<sent, sound>>

Next == \E n \in 1..Len(wire) : Feed(n)
Spec == Init /\ [][Next]_vars

-----------------------------------------------------------------------------
(* A frame comes back as it was written; a content-length that serialize   *)
(* added stays in its headers.                                             *)
Same(f, g) ==
  /\ f.command = g.command /\ f.body = g.body
  /\ SelectSeq(f.headers, LAMBDA x : ~IsLength(x)) = SelectSeq(g.headers, LAMBDA x : ~IsLength(x))

(* However the bytes are cut, the decoder emits the frames that were sent, *)
(* in order and unchanged, bodies with NULs included; it fails only on     *)
(* what is no frame, and after that emits nothing.                         *)
FramesRoundTrip ==
  /\ Len(got) <= Len(sent) /\ \A i \in DOMAIN got : Same(sent[i], got[i])
  /\ failed => ~sound
  /\ wire = <<>> /\ ~failed => Len(got) = Len(sent)
=============================================================================
