---------------------------- MODULE MCHttpServer ----------------------------
(* Inputs for HttpServer.                                                  *)
EXTENDS HttpServer

CR == [k |-> "CR"]
LF == [k |-> "LF"]
B == [k |-> "byte"]
EOB == [k |-> "eob"]
Line(method, url, version) ==
    [k |-> "line", method |-> method, url |-> url, version |-> version,
     form |-> <<"u", "p">>, range |-> NoRange, filePart |-> TRUE]
Header(name, value) == [k |-> "header", name |-> name, value |-> value, n |-> 0]
Size(n, digits) == [k |-> "size", n |-> n, digits |-> digits]
E == <<CR, LF>>

Request(line, headers, content) ==
    <<line>> \o E \o FlattenSeq([i \in DOMAIN headers |-> <<headers[i]>> \o E]) \o E \o content

Host == Header("Host", "h")
Close == Header("Connection", "close")
Length(n) == [Header("Content-Length", "number") EXCEPT !.n = n]
Chunked == Header("Transfer-Encoding", "chunked")

Get1(url) == Request(Line("GET", url, "1.1"), <<Host>>, <<>>)
Post(url, form) == Request([Line("POST", url, "1.1") EXCEPT !.form = form], <<Length(1)>>, <<B>>)
Download(range) ==
    Request([Line("GET", "/filedownload-src", "1.1") EXCEPT !.range = range], <<Host>>, <<>>)
Range1(beg, end) == [beg |-> beg, end |-> end]

\* One request each, of every kind of content, good and bad.
Singles ==
    {Request(Line("GET", "/index", "1.0"), <<Host>>, <<>>),
     Request(Line("GET", "/nowhere", "1.1"), <<Close>>, <<>>),
     Request(Line("PUT", "/index", "1.1"), <<Host>>, <<>>),
     Request(Line("POST", "/video", "1.1"), <<Host>>, <<>>),
     Request(Line("POST", "/Aboutme", "1.1"), <<Length(2)>>, <<B, B>>),
     Request(Line("POST", "/msgboard", "1.1"), <<Header("Transfer-Encoding", "gzip")>>, <<>>),
     Request(Line("POST", "/video", "1.1"), <<Chunked>>,
             <<Size(2, 1)>> \o E \o <<B, B>> \o E \o <<Size(1, 5)>> \o E \o <<B>> \o E
             \o <<Size(0, 1)>> \o E \o E),
     Request(Line("POST", "/video", "1.1"), <<Chunked>>, <<Size(2, 1)>> \o E \o <<B>> \o E \o <<B, B>>),
     Request(Line("POST", "/video", "1.1"), <<Chunked>>, <<Size(1, 6)>> \o E \o <<B>> \o E),
     Request(Line("POST", "/video", "1.1"), <<Chunked>>, <<Size(-1, 2)>> \o E),
     Request(Line("POST", "/video", "1.1"), <<Chunked>>, <<Size(0, 1)>> \o E \o <<B, B>>),
     Request(Line("POST", "/fileupload", "1.1"),
             <<Length(2), Header("Content-Type", "multipart")>>, <<B, EOB>>),
     Request(Line("POST", "/fileupload", "1.1"),
             <<Length(2), Header("Content-Type", "multipart")>>, <<B, B>>),
     Request(Line("POST", "/fileupload", "1.1"), <<Chunked, Header("Content-Type", "multipart")>>,
             <<Size(1, 1)>> \o E \o <<B>> \o E \o <<Size(1, 1)>> \o E \o <<EOB>> \o E
             \o <<Size(0, 1)>> \o E \o E),
     Request(Line("POST", "/fileupload", "1.1"), <<Chunked, Header("Content-Type", "multipart")>>,
             <<Size(2, 1)>> \o E \o <<EOB, B>> \o E \o <<Size(0, 1)>> \o E \o E \o E),
     Request(Line("POST", "/fileupload", "1.1"),
             <<Header("Content-Type", "multipart without boundary"), Length(1)>>, <<B>>),
     Request(Line("HEAD", "/index", "1.1"), <<Header("none", "")>>, <<>>),
     Request(Line("GET", "/index", "1.1"), <<Host, Host, Host, Host>>, <<>>)}

\* Requests that follow one another on one connection, also after a line or a
\* header that is refused, and one without a header.
Pairs ==
    {Request(Line("PUT", "/index", "1.1"), <<>>, <<>>) \o Get1("/index"),
     Request(Line("GET", "/index", "1.1"), <<Host, Header("none", "")>>, <<>>) \o Get1("/video"),
     Request(Line("GET", "/index", "1.1"), <<>>, <<>>) \o Get1("/video"),
     Get1("/set-comments/:val") \o Get1("/get-comments"),
     Get1("/get-num-visits") \o Get1("/filedownload-gone"),
     Get1("/style.css") \o Get1("/filedownload"),
     Post("/register", <<"u", "p">>) \o Post("/login", <<"u", "p">>) \o Post("/login", <<"u", "q">>)}
    \cup {Download(r) : r \in {NoRange, Range1(0, 0), Range1(1, 2), Range1(1, -1), Range1(-1, 2)}}

AllStreams == Singles \cup Pairs

=============================================================================
