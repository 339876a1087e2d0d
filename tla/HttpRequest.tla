----------------------------- MODULE HttpRequest -----------------------------
(***************************************************************************)
(* web/http/HttpRequest.cpp, base/HttpRequestLine.cpp and base/HttpHeader.h: *)
(* the parser of one HTTP request, fed with whatever part of the input the *)
(* connection's buffer holds.                                              *)
(*                                                                         *)
(* The input is a sequence of tokens, records with a kind k:               *)
(*    line    the text of a request line: method, url, version             *)
(*    header  the text of a header line: name ("none": no colon), value,   *)
(*            and the number n the value reads as                          *)
(*    size    the text of a chunk size: digits, and its value n            *)
(*    byte    one byte of content;  eob  a closing multipart boundary      *)
(*    CR, LF  the two bytes of a line end                                  *)
(* so the input can be cut anywhere a line, a line end or content ends,    *)
(* and between the two bytes of a line end.                                *)
(*                                                                         *)
(* Every iteration of the loops of parseRequest and parseChunked is an     *)
(* action; they run inside one message callback.                           *)
(***************************************************************************)
EXTENDS Integers, Sequences, SequencesExt

CONSTANT MaxHeaderLen      \* max_requestHeader_len_, in header lines

ASSUME HttpRequestAssumption == MaxHeaderLen \in Nat

VARIABLES
    buf,            \* the readable part of the connection's input Buffer
    req,            \* the HttpRequest of the HttpContext
    busy,           \* "idle", "parsing" (in parseRequest) or "parsed"
    taken           \* tokens taken from buf for req, oldest first

requestVars == <<buf, req, busy, taken>>

chunk_size_str_limit == 5

\* HttpRequest::HttpRequest.  refused is a history: whether the header or the
\* content was found bad before, which the parser itself does not look at.
NewRequest ==
    [state |-> "CHECK_REQUESTLINE", ret |-> "AGAIN_REQUEST", method |-> "GET", url |-> "",
     version |-> "1.0", headers |-> <<>>, body |-> <<>>,
     chunkState |-> "NO_LEN", chunkSize |-> 0, refused |-> FALSE]

\* What parseKeepAlive, parseContentType, parseContentLength and
\* parseTransferEncoding keep of the headers.
Under(r, name) == {i \in DOMAIN r.headers : r.headers[i].name = name}
Has(r, name) == Under(r, name) # {}

\* HttpHeader::add and get: a header replaces the earlier ones of its name.
LastUnder(r, name) == CHOOSE i \in Under(r, name) : \A j \in Under(r, name) : j <= i
Get(r, name) == IF Has(r, name) THEN r.headers[LastUnder(r, name)].value ELSE ""
contentLength(r) == r.headers[LastUnder(r, "Content-Length")].n
chunked(r) == Get(r, "Transfer-Encoding") = "chunked"

\* HttpRequestLine::parseRequestLine with parseUrl: what they refuse.  A url
\* is "bad" when it is neither a path nor http(s)://host[/path].
GoodLine(t) ==
    /\ t.k = "line"
    /\ t.method \in {"GET", "POST", "HEAD"}
    /\ t.url # "bad"
    /\ t.version \in {"1.0", "1.1", "2.0"}

\* The tokens.  A length is read by stoul, into a size_t.  The request line
\* also has what the servlets read of the url and the content.
Tokens ==
    [k : {"line"}, method : STRING, url : STRING, version : STRING,
     form : STRING \X STRING, range : [beg : Int, end : Int], filePart : BOOLEAN]
    \cup [k : {"header"}, name : STRING, value : STRING, n : Nat]
    \cup [k : {"size"}, n : Int, digits : Nat]
    \cup [k : {"byte", "eob", "CR", "LF"}]

\* Buffer::findCRLF and find2CRLF: where the first one starts, 0 if nowhere.
At(s, i, kinds) ==
    i + Len(kinds) - 1 <= Len(s) /\ \A j \in DOMAIN kinds : s[i + j - 1].k = kinds[j]
Find(s, kinds) ==
    LET places == {i \in DOMAIN s : At(s, i, kinds)}
    IN  IF places = {} THEN 0 ELSE CHOOSE i \in places : \A j \in places : i <= j
CRLF == <<"CR", "LF">>
TwoCRLF == <<"CR", "LF", "CR", "LF">>

\* Buffer::retrieve
Retrieve(n) ==
    /\ buf' = SubSeq(buf, n + 1, Len(buf))
    /\ taken' = taken \o SubSeq(buf, 1, n)
RetrieveNothing == UNCHANGED <<buf, taken>>

\* parseRequest is left unless a part is complete and another one follows.
Return(r) ==
    /\ req' = r
    /\ busy' = IF r.ret # "OK_REQUEST" \/ r.state = "CHECK_DONE" THEN "parsed" ELSE "parsing"

Again == Return([req EXCEPT !.ret = "AGAIN_REQUEST"]) /\ RetrieveNothing
Refuse(r) == Return([r EXCEPT !.ret = "BAD_REQUEST", !.refused = TRUE])
Bad == Refuse(req)

-----------------------------------------------------------------------------
Parsing(state) == busy = "parsing" /\ req.state = state

\* parseRequestLine(): a complete line is taken out whether good or bad.
ParseRequestLine ==
    /\ Parsing("CHECK_REQUESTLINE")
    /\ LET crlf == Find(buf, CRLF)
       IN  \/ crlf = 0 /\ Again
           \/ /\ crlf > 0
              /\ Retrieve(crlf + 1)
              /\ IF crlf = 2 /\ GoodLine(buf[1])
                 THEN Return([req EXCEPT !.ret = "OK_REQUEST", !.state = "CHECK_HEADER",
                                         !.method = buf[1].method, !.url = buf[1].url,
                                         !.version = buf[1].version])
                 ELSE Return([req EXCEPT !.ret = "BAD_REQUEST"])

\* A header line, with a colon, at i.
HeaderLine(s, i) ==
    /\ i + 2 <= Len(s)
    /\ s[i].k = "header" /\ s[i].name # "none"
    /\ At(s, i + 1, CRLF)

\* How many header lines are added: those before the first one that is empty
\* or has no colon, or until there is too much of them.
Added ==
    LET stops == {n \in 0 .. Len(buf) :
                    ~(HeaderLine(buf, 3 * n + 1) /\ Len(req.headers) + n <= MaxHeaderLen)}
    IN  CHOOSE n \in stops : \A m \in stops : n <= m

\* parseRequestHeader(): waits for two line ends, and takes all up to there
\* even when an empty line comes before, as the first one.
ParseRequestHeader ==
    /\ Parsing("CHECK_HEADER")
    /\ LET end == Find(buf, TwoCRLF)
           r == [req EXCEPT !.headers = @ \o [i \in 1 .. Added |-> buf[3 * i - 2]]]
       IN  \/ end = 0 /\ Again
           \/ /\ end > 0
              /\ Retrieve(end + 3)
              /\ IF At(buf, 3 * Added + 1, CRLF)
                 THEN Return([r EXCEPT !.ret = "OK_REQUEST", !.state = "CHECK_CONTENT"])
                 ELSE Refuse(r)

\* The end of parseRequestContent(): content of a type that is looked into.
Content(body) ==
    LET type == Get(req, "Content-Type")
        r == [req EXCEPT !.body = body]
    IN  CASE type = "multipart without boundary" -> Refuse(r)
          [] type = "multipart" /\ Len(body) > 1 /\ Last(body).k # "eob" ->
                Return([r EXCEPT !.ret = "AGAIN_REQUEST"])
          [] OTHER -> Return([r EXCEPT !.ret = "OK_REQUEST", !.state = "CHECK_DONE"])

\* Mutant of ParseContentLength: one byte short.
ParseContentLengthShort ==
    /\ Parsing("CHECK_CONTENT")
    /\ ~Has(req, "Transfer-Encoding") /\ Has(req, "Content-Length")
    /\ LET missing == contentLength(req) - 1 - Len(req.body)
       IN  \/ missing > Len(buf) /\ Again
           \/ missing <= Len(buf) /\ Retrieve(missing) /\ Content(req.body \o SubSeq(buf, 1, missing))

\* parseRequestContent() with a Content-Length: all of it or nothing.  What is
\* missing, accept_size, is a size_t.
ParseContentLength ==
    /\ Parsing("CHECK_CONTENT")
    /\ ~Has(req, "Transfer-Encoding") /\ Has(req, "Content-Length")
    /\ LET missing == contentLength(req) - Len(req.body)
       IN  \/ missing > Len(buf) /\ Again
           \/ /\ missing \in 0 .. Len(buf)
              /\ Retrieve(missing) /\ Content(req.body \o SubSeq(buf, 1, missing))

\* parseRequestContent() when no header tells where the content ends.
ParseNoContent ==
    /\ Parsing("CHECK_CONTENT")
    /\ ~Has(req, "Transfer-Encoding") /\ ~Has(req, "Content-Length")
    /\ RetrieveNothing
    /\ IF req.method \in {"GET", "HEAD"}
       THEN Return([req EXCEPT !.ret = "OK_REQUEST", !.state = "CHECK_DONE"])
       ELSE Bad

ParseOtherEncoding ==
    /\ Parsing("CHECK_CONTENT")
    /\ Has(req, "Transfer-Encoding") /\ ~chunked(req)
    /\ RetrieveNothing /\ Bad

ParsingChunk(state) ==
    /\ Parsing("CHECK_CONTENT")
    /\ chunked(req) /\ req.chunkState = state

\* The line end at crlf is among the bytes that parseChunked looks at.
ShortSize(crlf) ==
    crlf > 0 /\ (buf[1].k = "size" => buf[1].digits <= chunk_size_str_limit)

\* parseChunked(), NO_LEN.  The line end is looked for in the first bytes
\* only, so a size with too many digits is waited for.
ChunkLength ==
    /\ ParsingChunk("NO_LEN")
    /\ LET crlf == Find(buf, CRLF)
       IN  \/ ~ShortSize(crlf) /\ Again
           \/ /\ ShortSize(crlf)
              /\ IF crlf # 2 \/ buf[1].k # "size" \/ buf[1].n < 0
                 THEN Bad /\ RetrieveNothing
                 ELSE /\ Retrieve(3)
                      /\ req' = [req EXCEPT !.chunkSize = buf[1].n,
                                            !.chunkState = IF buf[1].n = 0 THEN "DONE" ELSE "NO_DATA"]
                      /\ UNCHANGED busy

\* parseChunked(), NO_DATA
ChunkData ==
    /\ ParsingChunk("NO_DATA")
    /\ \/ Len(buf) < req.chunkSize + 2 /\ Again
       \/ /\ Len(buf) >= req.chunkSize + 2
          /\ IF At(buf, req.chunkSize + 1, CRLF)
             THEN /\ Retrieve(req.chunkSize + 2)
                  /\ req' = [req EXCEPT !.body = @ \o SubSeq(buf, 1, req.chunkSize),
                                        !.chunkState = "NO_LEN"]
                  /\ UNCHANGED busy
             ELSE Bad /\ RetrieveNothing

\* parseChunked(), DONE
ChunkDone ==
    /\ ParsingChunk("DONE")
    /\ \/ Len(buf) < 2 /\ Again
       \/ /\ Len(buf) >= 2
          /\ IF At(buf, 1, CRLF)
             THEN Retrieve(2) /\ Content(req.body)
             ELSE Bad /\ RetrieveNothing

ParseStep ==
    \/ ParseRequestLine \/ ParseRequestHeader
    \/ ParseContentLength \/ ParseNoContent \/ ParseOtherEncoding
    \/ ChunkLength \/ ChunkData \/ ChunkDone

-----------------------------------------------------------------------------
(* What a request is, without a parser.                                    *)

\* A request line, n header lines and an empty line.
IsHead(s, n) ==
    /\ 3 * n + 5 <= Len(s)
    /\ GoodLine(s[1]) /\ At(s, 2, CRLF)
    /\ \A i \in 1 .. n : HeaderLine(s, 3 * i + 1)
    /\ At(s, 3 * n + 4, CRLF)

\* What they say of the content.
HeadOf(s, n) == [NewRequest EXCEPT !.headers = [i \in 1 .. n |-> s[3 * i + 1]]]

\* A chunk, with its size and line ends, and a chunk that follows it; the last
\* one is empty.
IsChunk(s, starts, i) ==
    /\ s[i].n >= 0 /\ s[i].digits <= chunk_size_str_limit
    /\ At(s, i + 1, CRLF)
    /\ IF s[i].n = 0 THEN At(s, i + 3, CRLF) /\ Len(s) = i + 4
                     ELSE At(s, i + 3 + s[i].n, CRLF) /\ i + 5 + s[i].n \in starts

AreChunks(s, starts, from) ==
    from \in starts /\ \A i \in starts : IsChunk(s, starts, i)

IsChunked(s, from) ==
    \E starts \in SUBSET {i \in from .. Len(s) : s[i].k = "size"} : AreChunks(s, starts, from)

\* Multipart content of more than one byte, the last one at i, is closed.
IsClosed(s, r, more, i) ==
    /\ Get(r, "Content-Type") # "multipart without boundary"
    /\ Get(r, "Content-Type") = "multipart" /\ more => s[i].k = "eob"

\* The content that the headers announce.  (A chunk of one byte and the empty
\* chunk are 11 tokens, and seven follow the last byte of chunked content.)
IsContent(s, r, from) ==
    \/ /\ ~Has(r, "Transfer-Encoding") /\ ~Has(r, "Content-Length")
       /\ s[1].method \in {"GET", "HEAD"}
       /\ Len(s) = from - 1
    \/ /\ ~Has(r, "Transfer-Encoding") /\ Has(r, "Content-Length")
       /\ Len(s) = from - 1 + contentLength(r)
       /\ IsClosed(s, r, Len(s) > from, Len(s))
    \/ /\ chunked(r)
       /\ IsChunked(s, from)
       /\ IsClosed(s, r, Len(s) > from + 10, Len(s) - 7)

\* A head and the content that it announces.
IsRequest(s) ==
    \E n \in 1 .. MaxHeaderLen + 1 : IsHead(s, n) /\ IsContent(s, HeadOf(s, n), 3 * n + 6)

\* The parser asks for more only while it has no complete request
\* (the AGAIN_REQUEST returns of HttpRequest.cpp).
WaitsForARequest ==
    busy = "parsed" /\ req.ret = "AGAIN_REQUEST" =>
        \A n \in 0 .. Len(buf) : ~IsRequest(taken \o SubSeq(buf, 1, n))

\* However the input is cut into messages, what the parser takes for a
\* request is one, it ends exactly where the request ends, and it is not
\* waited for once it is there (HttpRequest::parseRequest, parseChunked).
\* Once a header or content was bad nothing is said of what follows on that
\* connection, nor of a request line that an empty line follows at once:
\* parseRequestHeader takes that one to the next empty line.
TakesARequest ==
    ~req.refused =>
        /\ req.state = "CHECK_DONE" /\ ~At(taken, 4, CRLF) => IsRequest(taken)
        /\ WaitsForARequest

=============================================================================
