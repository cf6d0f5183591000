----------------------------- MODULE HttpParser -----------------------------
(***************************************************************************)
(* The incremental request parsers of codes/8/8-3httpparser.cpp and        *)
(* codes/15/15-5http_conn.cpp, fed with the same bytes in the same pieces, *)
(* and the answer that http_conn builds.  A byte is CR, LF or a run of     *)
(* other text: "G" a good request line, "k" Connection: keep-alive, "2" a  *)
(* Content-Length of two bytes, "x" anything else.  Offsets count from 0.  *)
(***************************************************************************)
EXTENDS Naturals, Sequences, SequencesExt

CONSTANTS
    Streams,            \* what the client may send
    WRITE_BUFFER_SIZE,
    MaxDigits           \* of the size of a file

Byte == {"CR", "LF", "G", "k", "2", "x"}

VARIABLES
    stream,     \* what the client sends in the end
    read_idx,   \* how much of it has been received
    p8, p15,    \* the two parsers
    cut         \* a recv() has ended inside the content

vars == <<stream, read_idx, p8, p15, cut>>

Start == [state |-> "REQUESTLINE", checked |-> 0, start |-> 0,
          clen |-> 0, linger |-> FALSE, code |-> "NO_REQUEST"]

(* parse_line() from offset i of buf: where it stops, and its LINE_STATUS *)
RECURSIVE parse_line(_, _)
parse_line_skips_cr(buf, i) ==
    IF i >= Len(buf) THEN <<i, "OPEN">>
    ELSE CASE buf[i+1] = "CR" /\ i + 1 = Len(buf) -> <<i + 1, "OPEN">>
           [] buf[i+1] = "CR" /\ i + 1 < Len(buf) /\ buf[i+2] = "LF" -> <<i + 2, "OK">>
           [] buf[i+1] \in {"CR", "LF"} -> <<i, "BAD">>
           [] OTHER -> parse_line(buf, i + 1)
parse_line(buf, i) ==
    IF i >= Len(buf) THEN <<i, "OPEN">>
    ELSE CASE buf[i+1] = "CR" ->
                IF i + 1 = Len(buf) THEN <<i, "OPEN">>
                ELSE IF buf[i+2] = "LF" THEN <<i + 2, "OK">> ELSE <<i, "BAD">>
           [] buf[i+1] = "LF" ->
                IF i > 1 /\ buf[i] = "CR" THEN <<i + 1, "OK">> ELSE <<i, "BAD">>
           [] OTHER -> parse_line(buf, i + 1)

(* the line that ends with the CR LF before offset i *)
Text(buf, p, i) == SubSeq(buf, p.start + 1, i - 2)

parse_request_line(p, text) ==
    IF text = <<"G">> THEN [p EXCEPT !.state = "HEADER"] ELSE [p EXCEPT !.code = "BAD_REQUEST"]

(* parse_headers() of chapter 8 *)
parse_headers8_strict(p, text) ==
    IF text = <<>> THEN [p EXCEPT !.code = "GET_REQUEST"]
    ELSE IF text = <<"k">> THEN p ELSE [p EXCEPT !.code = "BAD_REQUEST"]
parse_headers8(p, text) ==
    IF text = <<>> THEN [p EXCEPT !.code = "GET_REQUEST"] ELSE p

parse_headers_no_content(p, text) ==
    CASE text = <<>> -> [p EXCEPT !.code = "GET_REQUEST"]
      [] text = <<"k">> -> [p EXCEPT !.linger = TRUE]
      [] OTHER -> p
parse_headers(p, text) ==
    CASE text = <<>> -> IF p.clen # 0 THEN [p EXCEPT !.state = "CONTENT"]
                        ELSE [p EXCEPT !.code = "GET_REQUEST"]
      [] text = <<"k">> -> [p EXCEPT !.linger = TRUE]
      [] text # <<>> /\ text[1] = "2" -> [p EXCEPT !.clen = 2]
      [] OTHER -> p

(* the loop over complete lines; parse_content() of chapter 8, process_read() of 15 *)
RECURSIVE parse_content8(_, _)
parse_content8(p, buf) ==
    LET l == parse_line(buf, p.checked)
        q == [p EXCEPT !.checked = l[1]]
        r == [q EXCEPT !.start = l[1]]
    IN  CASE l[2] = "OPEN" -> q
          [] l[2] = "BAD" -> [q EXCEPT !.code = "BAD_REQUEST"]
          [] OTHER ->
               LET t == IF p.state = "REQUESTLINE" THEN parse_request_line(r, Text(buf, p, l[1]))
                        ELSE parse_headers8(r, Text(buf, p, l[1]))
               IN  IF t.code = "NO_REQUEST" THEN parse_content8(t, buf) ELSE t

RECURSIVE process_read(_, _)
process_read(p, buf) ==
    IF p.state = "CONTENT"
    THEN LET q == [p EXCEPT !.start = p.checked]
             l == parse_line(buf, p.checked)
         IN  CASE Len(buf) >= p.clen + p.checked -> [q EXCEPT !.code = "GET_REQUEST"]
               [] l[2] = "OK" /\ Len(buf) < p.clen + p.checked ->
                    process_read([q EXCEPT !.checked = l[1]], buf)
               [] OTHER -> [q EXCEPT !.checked = l[1]]   \* the loop condition calls parse_line()
    ELSE LET l == parse_line(buf, p.checked)
             q == [p EXCEPT !.checked = l[1]]
             r == [q EXCEPT !.start = l[1]]
         IN  IF l[2] # "OK" THEN q                \* a bad line is NO_REQUEST too
             ELSE LET t == IF p.state = "REQUESTLINE" THEN parse_request_line(r, Text(buf, p, l[1]))
                           ELSE parse_headers(r, Text(buf, p, l[1]))
                  IN  IF t.code = "NO_REQUEST" THEN process_read(t, buf) ELSE t
-----------------------------------------------------------------------------
Init ==
    /\ stream \in Streams
    /\ read_idx = 0
    /\ p8 = Start /\ p15 = Start
    /\ cut = FALSE

Received(n) == SubSeq(stream, 1, n)

(* A complete request, by its grammar: a good request line, header lines, an   *)
(* empty line, and the bytes that Content-Length announces.                    *)
Announced(s) == IF \E i \in 1..(Len(s) - 1) : s[i] = "LF" /\ s[i+1] = "2" THEN 2 ELSE 0
IsHeading(s) ==
    /\ Len(s) >= 5 /\ SubSeq(s, 1, 3) = <<"G", "CR", "LF">>
    /\ SubSeq(s, Len(s) - 2, Len(s)) = <<"LF", "CR", "LF">>
    /\ \A i \in 1..Len(s) :
         /\ s[i] = "CR" => i < Len(s) /\ s[i+1] = "LF"
         /\ s[i] = "LF" => i > 1 /\ s[i-1] = "CR"
         /\ (s[i] = "LF" /\ i + 2 <= Len(s) /\ s[i+1] = "CR") => i + 2 = Len(s)

InContent(n) ==
    \E h \in 0..(n - 1) : IsHeading(Received(h)) /\ n < h + Announced(Received(h))

recv(n) ==
    /\ read_idx' = read_idx + n
    /\ p8' = IF p8.code = "NO_REQUEST" THEN parse_content8(p8, Received(read_idx')) ELSE p8
    /\ p15' = IF p15.code = "NO_REQUEST" THEN process_read(p15, Received(read_idx')) ELSE p15
    /\ cut' = (cut \/ InContent(read_idx'))
    /\ UNCHANGED stream

Next == \E n \in 1..(Len(stream) - read_idx) : recv(n)

Spec == Init /\ [][Next]_vars
-----------------------------------------------------------------------------
(* do_request(): what a complete request becomes, by what m_url names *)
File == [kind : {"missing", "forbidden", "directory", "empty", "file"}, digits : 1..MaxDigits]

do_request(file) ==
    CASE file.kind = "missing" -> "NO_RESOURCE"
      [] file.kind = "forbidden" -> "FORBIDDEN_REQUEST"
      [] file.kind = "directory" -> "BAD_REQUEST"
      [] OTHER -> "FILE_REQUEST"

Code(file) == IF p15.code = "GET_REQUEST" THEN do_request(file) ELSE p15.code

(* add_response(): idx after a piece of len bytes, or the refusal *)
add_response_overwrites(w, len) == [w EXCEPT !.idx = len]
add_response(w, len) ==
    IF w.idx >= WRITE_BUFFER_SIZE \/ len >= WRITE_BUFFER_SIZE - 1 - w.idx
    THEN [w EXCEPT !.ok = FALSE] ELSE [w EXCEPT !.idx = @ + len]

(* the lengths of the pieces of an answer: status line, add_headers, content *)
Headers(digits) == <<18 + digits, IF p15.linger THEN 24 ELSE 19, 2>>
Pieces(file) ==
    LET code == Code(file) IN
    CASE code = "BAD_REQUEST" -> <<26>> \o Headers(2) \o <<68>>
      [] code = "NO_RESOURCE" -> <<24>> \o Headers(2) \o <<49>>
      [] code = "FORBIDDEN_REQUEST" -> <<24>> \o Headers(2) \o <<57>>
      [] code = "FILE_REQUEST" /\ file.kind = "empty" -> <<17>> \o Headers(2) \o <<26>>
      [] code = "FILE_REQUEST" -> <<17>> \o Headers(file.digits)
      [] OTHER -> <<>>

(* process_write(): the case of an empty file falls through to default *)
process_write(file) ==
    LET w == FoldLeft(add_response, [idx |-> 0, ok |-> TRUE], Pieces(file))
    IN  IF Code(file) = "FILE_REQUEST" /\ file.kind = "empty" THEN [w EXCEPT !.ok = FALSE] ELSE w
-----------------------------------------------------------------------------
(* However recv() cuts the request into pieces, each parser is where it would  *)
(* be had it received all of them at once: a CR that ends a piece waits for    *)
(* its LF, and an interrupted line is resumed where it was left.  Not so for   *)
(* http_conn once a piece ends inside the content: the loop condition of       *)
(* process_read() then moves m_checked_idx into the content.  Neither ever     *)
(* looks beyond what was received.                                             *)
CutAnywhere ==
    /\ \A p \in {p8, p15} : p.start <= p.checked /\ p.checked <= read_idx
    /\ read_idx > 0 =>
          /\ p8 = parse_content8(Start, Received(read_idx))
          /\ ~ cut => p15 = process_read(Start, Received(read_idx))

(* http_conn accepts nothing but complete requests, and accepts them as soon   *)
(* as they are complete if no piece ended inside the content; chapter 8        *)
(* accepts at the end of the heading and refuses whatever http_conn refuses:   *)
(* the two differ only in a line without CR LF (http_conn keeps waiting) and   *)
(* in content that is still to come.                                           *)
AcceptsGrammar ==
    LET complete == \E n \in 0..read_idx : /\ IsHeading(Received(n))
                                           /\ read_idx >= n + Announced(Received(n))
    IN  /\ p15.code = "GET_REQUEST" => complete
        /\ complete /\ ~ cut => p15.code = "GET_REQUEST"
        /\ p8.code = "GET_REQUEST" <=> \E n \in 0..read_idx : IsHeading(Received(n))
        /\ p15.code = "BAD_REQUEST" => p8.code = "BAD_REQUEST"
        /\ p8.code = "GET_REQUEST" => p15.code = "GET_REQUEST" \/ p15.state = "CONTENT"

(* Every answer fits the write buffer whole, although process_write looks at   *)
(* the result of the last add_response only; only an empty file has no answer. *)
AnswerFits ==
    p15.code # "NO_REQUEST" => \A file \in File :
        /\ process_write(file).ok <=> file.kind # "empty" \/ Code(file) # "FILE_REQUEST"
        /\ process_write(file).idx = FoldLeft(+, 0, Pieces(file))
        /\ process_write(file).idx < WRITE_BUFFER_SIZE
=============================================================================
