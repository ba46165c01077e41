----------------------------- MODULE HttpParser -----------------------------
(***************************************************************************)
(* protocol/http_parser.c for responses, with HttpResponse::append of      *)
(* protocol/HttpMessage.cc and HttpChunkCursor of util/HttpUtil.cc: pure   *)
(* operators on the parser's record.                                       *)
(*                                                                         *)
(* The bytes of a message are a sequence of tokens.  "CR", "LF", ":", "SP" *)
(* (a blank) and "NUL" (a byte 0) are bytes; a start line, a header's name *)
(* or value, a number and a piece of the body are one token each, since    *)
(* nothing in them but their end is told apart by where a message is cut.  *)
(* A message can be cut between any two tokens.  Left out: malloc failing. *)
(***************************************************************************)
EXTENDS Integers, SequencesExt

CONSTANTS LineMax,     \* the longest line: HTTP_START_LINE_MAX and the others
          SizeLimit    \* HttpMessage::size_limit

ASSUME ParserAssumption == {LineMax, SizeLimit} \subseteq Nat \ {0}

(* The start lines: the code, and whether the version is below HTTP/1.1.    *)
StartLine ==
    [ok       |-> [code |-> 200, old |-> FALSE],
     ok10     |-> [code |-> 200, old |-> TRUE],
     continue |-> [code |-> 100, old |-> FALSE],
     nothing  |-> [code |-> 204, old |-> FALSE],
     moved    |-> [code |-> 302, old |-> FALSE],
     moved307 |-> [code |-> 307, old |-> FALSE]]

(* What strtol and atol make of a token. *)
Number == [zero |-> 0, one |-> 1, two |-> 2]

Unknown == -1          \* (size_t)-1
Error == -1            \* the results of parsing: 1, 0 for more, and these
Bad == -2

http_parser_init ==
    [header_state |-> "start_line", header_offset |-> 0,
     transfer_length |-> Unknown, content_length |-> Unknown,
     chunk_state |-> "chunk_data", chunk_offset |-> 0,
     code |-> 0, namebuf |-> <<>>, header_list |-> <<>>, msgbuf |-> <<>>,
     has_content_length |-> FALSE, keep_alive |-> TRUE, chunked |-> FALSE,
     complete |-> FALSE,
     ret |-> 0]        \* what the last function returned

Returns(p, r) == [p EXCEPT !.ret = r]
From(p, offset) == SubSeq(p.msgbuf, offset + 1, Len(p.msgbuf))
EmptyLine(s) == Len(s) >= 2 /\ s[1] = "CR" /\ s[2] = "LF"

(* Where the line at the front of s ends, or 0 or Bad. *)
LineEnd(s) ==
    LET i == SelectInSeq(s, LAMBDA t : t = "CR") IN
    IF i \notin 1 .. LineMax THEN (IF Len(s) >= LineMax THEN Bad ELSE 0)
    ELSE IF i = Len(s) THEN 0
    ELSE IF s[i + 1] = "LF" THEN i ELSE Bad

NulBefore(s, byte) ==
    LET i == SelectInSeq(s, LAMBDA t : t \in {"NUL", byte}) IN i # 0 /\ s[i] = "NUL"

-----------------------------------------------------------------------------
(* The header *)

(* __match_status_line *)
StatusLine(p, line) ==
    [p EXCEPT !.code = line.code,
              !.keep_alive = @ /\ ~line.old,
              !.transfer_length = IF line.code \in {100, 204, 304} THEN 0 ELSE @]

ParseStartLine(p) ==
    LET s == From(p, p.header_offset)
        i == LineEnd(s)
    IN
    IF EmptyLine(s) THEN Returns([p EXCEPT !.header_offset = @ + 2], 1)
    ELSE IF NulBefore(s, "CR") THEN Returns(p, Bad)
    ELSE IF i <= 0 THEN Returns(p, i)
    ELSE IF i # 2 \/ s[1] \notin DOMAIN StartLine THEN Returns(p, Bad)
    ELSE Returns([StatusLine(p, StartLine[s[1]]) EXCEPT
                      !.header_offset = @ + i + 1, !.header_state = "header_name"], 1)

ParseHeaderName(p) ==
    LET s == From(p, p.header_offset)
        i == SelectInSeq(s, LAMBDA t : t = ":")
    IN
    IF EmptyLine(s)
    THEN Returns([p EXCEPT !.header_offset = @ + 2, !.header_state = "header_complete"], 1)
    ELSE IF NulBefore(s, ":") THEN Returns(p, Bad)
    ELSE IF i \notin 1 .. LineMax THEN Returns(p, IF Len(s) >= LineMax THEN Bad ELSE 0)
    ELSE Returns([p EXCEPT !.namebuf = SubSeq(s, 1, i - 1), !.header_offset = @ + i,
                           !.header_state = "header_value"], 1)

(* __check_message_header; value_len <= 15 leaves out what is no Number.    *)
CheckHeader(p, name, value) ==
    CASE name = <<"Connection">> ->
         [p EXCEPT !.keep_alive = IF value = <<"Keep-Alive">> THEN TRUE
                                  ELSE IF value = <<"close">> THEN FALSE ELSE @]
    [] name = <<"Content-Length">> ->
         [p EXCEPT !.has_content_length = TRUE,
                   !.content_length = IF value # <<>> /\ value[1] \in DOMAIN Number
                                      THEN Number[value[1]] ELSE @]
    [] name = <<"Transfer-Encoding">> ->
         [p EXCEPT !.chunked = value # <<"identity">>]
    [] OTHER -> p

AddHeader(p, name, value) ==
    [CheckHeader(p, name, value) EXCEPT !.header_list = Append(@, <<name, value>>)]

(* A value ends at an end of line that no blank follows, so the byte after  *)
(* it must be there;                                                        *)
EndOfPiece(s) ==                                                                \* mutant
    {k \in 1 .. Len(s) - 1 : s[k] = "CR" /\ s[k + 1] = "LF" /\ (k + 2 <= Len(s) => s[k + 2] # "SP")}
ValueEnds(s) == {k \in 1 .. Len(s) - 2 : s[k] = "CR" /\ s[k + 1] = "LF" /\ s[k + 2] # "SP"}

(* it is stored without the blanks around each line, but with one for each  *)
(* end of line that was not the last;                                       *)
LineStart(s, b) == b = 1 \/ (s[b - 1] = "LF" /\ s[b - 2] = "CR")
Skipped(s, k) ==
    \/ s[k] = "LF" /\ k > 1 /\ s[k - 1] = "CR"
    \/ /\ \E b \in 1 .. k : LineStart(s, b) /\ \A j \in b .. k : s[j] = "SP"
       /\ k = 1 \/ ~LineStart(s, k)
Trimmed(v) == SubSeq(v, 1, Max({0} \cup {i \in DOMAIN v : v[i] # "SP"}))
Stored(s) ==
    LET after[k \in 0 .. Len(s)] ==
            IF k = 0 THEN <<>>
            ELSE IF s[k] = "CR" THEN Trimmed(after[k - 1])
            ELSE IF Skipped(s, k) THEN after[k - 1]
            ELSE Append(after[k - 1], s[k])
    IN after

(* and it is refused where it gets too long, at a byte that is not allowed, *)
(* and at a "CR" alone.                                                     *)
ValueRefused(s) ==
    {k \in 1 .. Len(s) : \/ /\ Len(Stored(s)[k - 1]) >= LineMax
                            /\ ~Skipped(s, k) /\ (s[k] = "SP" => ~LineStart(s, k))
                         \/ s[k] = "NUL" /\ k < Len(s)
                         \/ s[k] = "CR" /\ k < Len(s) /\ s[k + 1] # "LF"}

ParseHeaderValue(p) ==
    LET s == From(p, p.header_offset)
        ends == ValueEnds(s)
        e == Min(ends)
        value == Stored(s)[e]
    IN
    IF \E k \in ValueRefused(s) : \A l \in ends : k <= l THEN Returns(p, Bad)
    ELSE IF ends = {} THEN Returns(p, 0)
    ELSE Returns([AddHeader(p, p.namebuf, value) EXCEPT
                      !.header_offset = @ + e + 1, !.header_state = "header_name"], 1)

(* The loops of the parser, which every turn but the last advances. *)
Loop(Turn(_), p) ==
    LET after[i \in 0 .. Len(p.msgbuf) + 1] ==
            IF i = 0 THEN Returns(p, 1) ELSE Turn(after[i - 1])
    IN after[Len(p.msgbuf) + 1]

HeaderTurn(p) ==
    CASE p.ret <= 0 \/ p.header_state = "header_complete" -> p
    [] p.header_state = "start_line" -> ParseStartLine(p)
    [] p.header_state = "header_value" -> ParseHeaderValue(p)
    [] OTHER -> ParseHeaderName(p)
ParseMessageHeader(p) == Loop(HeaderTurn, p)

-----------------------------------------------------------------------------
(* The body, in chunks *)

CrlfForgotten(i, size) == i + size + 1                                          \* mutant
ChunkLength(i, size) == i + size + 3

ParseChunkData(p) ==
    LET s == From(p, p.chunk_offset)
        i == LineEnd(s)
    IN
    IF i <= 0 THEN Returns(p, i)
    ELSE IF s[1] \notin DOMAIN Number THEN Returns(p, Bad)
    ELSE IF Number[s[1]] = 0
    THEN Returns([p EXCEPT !.chunk_offset = @ + i + 1, !.chunk_state = "trailer_part"], 1)
    ELSE IF Len(s) < ChunkLength(i, Number[s[1]]) THEN Returns(p, 0)
    ELSE Returns([p EXCEPT !.chunk_offset = @ + ChunkLength(i, Number[s[1]])], 1)

ParseTrailerPart(p) ==
    LET s == From(p, p.chunk_offset)
        i == LineEnd(s)
    IN
    IF i <= 0 THEN Returns(p, i)
    ELSE Returns([p EXCEPT !.chunk_offset = @ + i + 1,
                           !.chunk_state = IF i = 1 THEN "chunk_complete" ELSE @], 1)

ChunkTurn(p) ==
    CASE p.ret <= 0 \/ p.chunk_state = "chunk_complete" -> p
    [] p.chunk_state = "chunk_data" -> ParseChunkData(p)
    [] OTHER -> ParseTrailerPart(p)
ParseChunk(p) == Loop(ChunkTurn, p)

-----------------------------------------------------------------------------
(* Messages *)

(* Once the header is complete: how the end of the message will be found.   *)
Framed(p) ==
    IF p.chunked THEN [p EXCEPT !.chunk_offset = p.header_offset]
    ELSE IF p.transfer_length = Unknown THEN [p EXCEPT !.transfer_length = p.content_length]
    ELSE p

(* Everything behind the end of the message is given back. *)
EndAt(p, total) ==
    IF Len(p.msgbuf) < total THEN Returns(p, 0)
    ELSE Returns([p EXCEPT !.msgbuf = SubSeq(@, 1, total), !.complete = TRUE], 1)

AfterChunks(p) == IF p.ret <= 0 THEN p ELSE EndAt(p, p.chunk_offset)
ParseBody(p) ==
    IF p.transfer_length # Unknown THEN EndAt(p, p.header_offset + p.transfer_length)
    ELSE IF ~p.chunked THEN Returns(p, 0)
    ELSE AfterChunks(ParseChunk(p))

AfterHeader(p) == IF p.ret <= 0 THEN p ELSE ParseBody(Framed(p))
ParseMessage(p) ==
    IF p.header_state = "header_complete" THEN ParseBody(p)
    ELSE AfterHeader(ParseMessageHeader(p))
http_parser_append_message(p, piece) ==
    IF p.complete THEN Returns(p, 1) ELSE ParseMessage([p EXCEPT !.msgbuf = @ \o piece])

(* HttpResponse: the parser, and how many tokens it has taken (cur_size).   *)
NewResponse == [parser |-> http_parser_init, cur_size |-> 0, ret |-> 0]

Counted(r, p) ==
    LET n == IF p.ret < 0 THEN r.cur_size
             ELSE r.cur_size + Len(p.msgbuf) - Len(r.parser.msgbuf)
    IN [parser |-> p, cur_size |-> n,
        ret |-> IF p.ret < 0 \/ n > SizeLimit THEN Error ELSE p.ret]
MessageAppend(r, piece) == Counted(r, http_parser_append_message(r.parser, piece))

(* A response with code 100 is followed by another. *)
InterimLeft(r) ==
    IF r.ret > 0 /\ r.parser.code = 100
    THEN [r EXCEPT !.parser = http_parser_init, !.ret = 0] ELSE r
ResponseAppend(r, piece) == InterimLeft(MessageAppend(r, piece))

(* The loop of __poller_handle_read over the bytes of one read: what        *)
(* was not taken is appended again, until the response is complete.         *)
ReadOn(r, left) == IF r.ret # 0 \/ left = <<>> THEN r ELSE ResponseAppend(r, left)
Untaken(r, bytes, start) == ReadOn(r, SubSeq(bytes, r.cur_size - start + 1, Len(bytes)))
Read(r, bytes) ==
    LET after[i \in 0 .. Len(bytes)] ==
            IF i = 0 THEN [r EXCEPT !.ret = 0] ELSE Untaken(after[i - 1], bytes, r.cur_size)
    IN after[Len(bytes)]

(* http_header_cursor_find *)
Find(p, name) ==
    LET i == SelectInSeq(p.header_list, LAMBDA h : h[1] = name)
    IN IF i = 0 THEN <<>> ELSE p.header_list[i][2]

(* HttpChunkCursor: the pieces of a complete response's body, joined. *)
ChunkCursor(p) ==
    LET body == From(p, p.header_offset)
        data[pos \in Nat] ==
            LET s == SubSeq(body, pos, Len(body))
                size == IF s = <<>> THEN 0 ELSE Number[s[1]]
                i == SelectInSeq(s, LAMBDA t : t = "CR")
            IN IF size = 0 THEN <<>>
               ELSE SubSeq(s, i + 2, i + 1 + size) \o data[pos + ChunkLength(i, size)]
    IN IF p.chunked THEN data[1] ELSE body

=============================================================================
