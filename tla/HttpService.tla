----------------------------- MODULE HttpService -----------------------------
(***************************************************************************)
(* web/http/HttpService.cpp, HttpResponse.{h,cpp}, HttpServlet.cpp and     *)
(* base/HttpRoute.cpp: from a parsed request to the response.              *)
(*                                                                         *)
(* store is what the servlets keep in MySQL and Redis:                     *)
(*    users     rows <<name, password>> of table user                      *)
(*    cache     the pairs <<name, password>> of logins kept in Redis       *)
(*    comments  the Redis list of comments, newest first                   *)
(* A body is the name of the page or text it holds, "" when it is empty.   *)
(***************************************************************************)
EXTENDS Integers, Sequences, FiniteSets

CONSTANTS
    FileLen,        \* bytes in the file that can be downloaded
    StaticFiles     \* paths under BASE_ROOT with an acceptable extension

ASSUME HttpServiceAssumption == FileLen \in Nat \ {0}

\* HttpResponse::HttpResponse.  declared is contentLength_ (-1: not set),
\* file what sendFile will send: an offset and a length, or nothing.
NoFile == [from |-> 0, len |-> -1]
NewResponse(close) ==
    [status |-> 200, body |-> "", declared |-> -1, file |-> NoFile, close |-> close]

setHtmlBody(resp, page) == [resp EXCEPT !.body = page]

\* DefaultHandle, with the case of 416 that falls through to the default.
DefaultHandle(resp) ==
    setHtmlBody(resp, CASE resp.status = 401 -> "/401.html"
                        [] resp.status = 403 -> "/403.html"
                        [] resp.status = 404 -> "/404.html"
                        [] resp.status = 405 -> "/405.html"
                        [] OTHER -> "/400.html")

Failed(resp, status) == DefaultHandle([resp EXCEPT !.status = status])
Page(resp, page) == setHtmlBody([resp EXCEPT !.status = 200], page)

\* Index, Picture, Video, BlogIndex, WebDetails: a page for GET only.
GetOnly == {"/", "/index", "/picture", "/video", "/blogindex", "/WebDetails"}
GetPage(resp, r) ==
    IF r.method = "GET" THEN Page(resp, r.url) ELSE Failed(resp, 400)

\* Mutant of CachedLogin: any password of the name will do.
CachedLoginByName(form, store) == \E c \in store.cache : c[1] = form[1]

\* Login: the password that Redis has for the name is the one given.
CachedLogin(form, store) == form \in store.cache

\* Login after the form was read: the cached password first, then the rows.
\* Another method than GET and POST leaves the response as it was made.
Login(resp, r, store) ==
    LET hit == CachedLogin(r.form, store)
        login == hit \/ r.form \in store.users
        known == {c \in store.cache : c[1] # r.form[1]} \cup {r.form}
    IN  CASE r.method = "GET" -> [resp |-> Page(resp, "/login.html"), store |-> store]
          [] r.method = "POST" ->
                [resp |-> Page(resp, IF login THEN "/welcome.html" ELSE "/error.html"),
                 store |-> IF login /\ ~hit THEN [store EXCEPT !.cache = known] ELSE store]
          [] OTHER -> [resp |-> resp, store |-> store]

\* Register: the row is inserted unless the table refuses the name.
Register(resp, r, store) ==
    LET inserted == \A u \in store.users : u[1] # r.form[1]
    IN  CASE r.method = "GET" -> [resp |-> Page(resp, "/register.html"), store |-> store]
          [] r.method = "POST" ->
                [resp |-> Page(resp, IF inserted THEN "/welcome.html" ELSE "/error.html"),
                 store |-> IF inserted THEN [store EXCEPT !.users = @ \cup {r.form}] ELSE store]
          [] OTHER -> [resp |-> resp, store |-> store]

\* The two numbers of "Range: bytes=beg-end", -1 for one that is not given.
NoRange == [beg |-> -1, end |-> -1]

\* Mutant of RangeOf: the end is taken as exclusive.
RangeOfExclusive(range) ==
    IF range.beg >= 0 /\ range.end >= 0 THEN [beg |-> range.beg, need |-> range.end - range.beg]
    ELSE IF range.beg >= 0 THEN [beg |-> range.beg, need |-> FileLen - range.beg]
    ELSE [beg |-> FileLen - range.end, need |-> range.end]

\* FileDownload, "Range: bytes=beg-end": where to start and how much to send.
RangeOf(range) ==
    LET last == IF range.beg >= 0 /\ range.end >= 0 THEN range.end ELSE FileLen - 1
        first == IF range.beg >= 0 THEN range.beg ELSE FileLen - range.end
    IN  [beg |-> first, need |-> last - first + 1]

\* FileDownload: a page, one file that is there and one that is not.
FileDownload(resp, r) ==
    IF r.url = "/filedownload" THEN Page(resp, "/filedownload.html")
    ELSE IF r.url = "/filedownload-gone" THEN Failed(resp, 404)
    ELSE IF r.range = NoRange
    THEN [resp EXCEPT !.file = [from |-> 0, len |-> FileLen], !.declared = FileLen]
    ELSE LET span == RangeOf(r.range)
         IN  [resp EXCEPT !.status = 206, !.file = [from |-> span.beg, len |-> span.need],
                          !.declared = span.need]

\* AboutMe does nothing for POST.
AboutMe(resp, r) ==
    CASE r.method = "GET" -> Page(resp, "/Aboutme.html")
      [] r.method = "POST" -> resp
      [] OTHER -> Failed(resp, 400)

\* FileUpload stores the file part of a POST if the pointer file, which it has
\* not set yet, happens not to be null.
FileUpload(resp, r, file) ==
    IF r.method = "GET" \/ (r.method = "POST" /\ r.filePart /\ file)
    THEN Page(resp, "/fileupload.html") ELSE Failed(resp, 400)

MsgBoard(resp) == Page(resp, "/msgboard.html")

\* What Redis has: the comments, the number of visits.
GetComments(resp, store) ==
    [resp EXCEPT !.body = IF store.comments = <<>> THEN "" ELSE "comments"]
SetComments(resp, store) ==
    [resp |-> [resp EXCEPT !.body = "set success"],
     store |-> [store EXCEPT !.comments = <<"val">> \o @]]
GetVisitNum(resp) == [resp EXCEPT !.body = "number of visits"]

\* The default servlet: a static file, or 404.
DefaultServlet(resp, r) ==
    LET path == IF r.url \in {"/", "/index"} THEN "/index.html" ELSE r.url
    IN  IF path \in StaticFiles THEN [resp EXCEPT !.body = path] ELSE Failed(resp, 404)

\* ServletDispatcher::dispatch with the servlets of test_hhtpserver.cpp: an
\* exact match of the path, else a route with a parameter, else the default.
Dispatch(resp, r, store, file) ==
    LET Keeping(new) == [resp |-> new, store |-> store]
    IN  CASE r.url \in GetOnly -> Keeping(GetPage(resp, r))
          [] r.url = "/login" -> Login(resp, r, store)
          [] r.url = "/register" -> Register(resp, r, store)
          [] r.url \in {"/filedownload", "/filedownload-src", "/filedownload-gone"} ->
                Keeping(FileDownload(resp, r))
          [] r.url = "/fileupload" -> Keeping(FileUpload(resp, r, file))
          [] r.url = "/Aboutme" -> Keeping(AboutMe(resp, r))
          [] r.url = "/msgboard" -> Keeping(MsgBoard(resp))
          [] r.url = "/get-comments" -> Keeping(GetComments(resp, store))
          [] r.url = "/get-num-visits" -> Keeping(GetVisitNum(resp))
          [] r.url = "/set-comments/:val" /\ r.method = "GET" -> SetComments(resp, store)
          [] OTHER -> Keeping(DefaultServlet(resp, r))

\* HttpResponse::appendToBuffer: without an announced close the length of
\* the body is filled in unless the servlet has set one.  (No servlet sets
\* isFileBody_.)
BodyLen(body) == IF body = "" THEN 0 ELSE 1
appendToBuffer(resp) ==
    IF resp.close \/ resp.declared # -1 THEN resp
    ELSE [resp EXCEPT !.declared = BodyLen(resp.body)]

\* The file's bytes that sendfile(2) finds for the response.
BytesSent(resp) ==
    {i \in 0 .. FileLen - 1 : resp.file.from <= i /\ i < resp.file.from + resp.file.len}

=============================================================================
