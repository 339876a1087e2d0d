--------------------------- MODULE HttpServer_proofs ---------------------------
(***************************************************************************)
(* What a connection of HttpServer takes for a request and what it answers, *)
(* for any set of inputs, however they are cut into messages, and any file  *)
(* and set of static files.                                                *)
(***************************************************************************)
EXTENDS HttpServer, FiniteSetTheorems, SequenceTheorems, WellFoundedInduction, TLAPS

-----------------------------------------------------------------------------
(* What the servlets make of a request.                                    *)

ResponseFields == {"status", "body", "declared", "file", "close"}

\* The response new is resp but for status and body.
SameButPage(new, resp) ==
    /\ DOMAIN new = ResponseFields
    /\ new.close = resp.close
    /\ new.file = resp.file
    /\ new.declared = resp.declared

\* What is cached of a login is a row of the table.
StoreOK(s) ==
    /\ DOMAIN s = {"users", "cache", "comments"}
    /\ s.cache \subseteq s.users

\* A page leaves the rest of the response as it was.
LEMMA PageFacts ==
  ASSUME NEW resp, DOMAIN resp = ResponseFields, NEW page
  PROVE  SameButPage(Page(resp, page), resp) /\ Page(resp, page).body = page
<1>1. DOMAIN Page(resp, page) = ResponseFields
  BY DEF Page, setHtmlBody, ResponseFields
<1>2. Page(resp, page).close = resp.close
  BY DEF Page, setHtmlBody, ResponseFields
<1>3. Page(resp, page).file = resp.file
  BY DEF Page, setHtmlBody, ResponseFields
<1>4. Page(resp, page).declared = resp.declared
  BY DEF Page, setHtmlBody, ResponseFields
<1>5. Page(resp, page).body = page
  BY DEF Page, setHtmlBody, ResponseFields
<1> QED
  BY <1>1, <1>2, <1>3, <1>4, <1>5 DEF SameButPage

\* So does a body that is set alone,
LEMMA BodyFacts ==
  ASSUME NEW resp, DOMAIN resp = ResponseFields, NEW page,
         NEW new, new = [resp EXCEPT !.body = page]
  PROVE  SameButPage(new, resp)
BY DEF SameButPage, ResponseFields

\* and DefaultHandle after a status.
LEMMA FailedFacts ==
  ASSUME NEW resp, DOMAIN resp = ResponseFields, NEW status
  PROVE  SameButPage(Failed(resp, status), resp)
<1>1. PICK r : r = [resp EXCEPT !.status = status]
  OBVIOUS
<1>2. SameButPage(r, resp)
  BY <1>1 DEF SameButPage, ResponseFields
<1>3. PICK page : page = CASE r.status = 401 -> "/401.html"
                           [] r.status = 403 -> "/403.html"
                           [] r.status = 404 -> "/404.html"
                           [] r.status = 405 -> "/405.html"
                           [] OTHER -> "/400.html"
  OBVIOUS
<1>4. Failed(resp, status) = [r EXCEPT !.body = page]
  BY <1>1, <1>3 DEF Failed, DefaultHandle, setHtmlBody
<1>5. SameButPage([r EXCEPT !.body = page], r)
  BY <1>2, BodyFacts DEF SameButPage
<1> QED
  BY <1>2, <1>4, <1>5 DEF SameButPage

\* A new HttpResponse has its fields and no header, cookie, body or file yet.
LEMMA NewResponseFacts ==
  ASSUME NEW close
  PROVE  /\ DOMAIN NewResponse(close) = ResponseFields
         /\ NewResponse(close).close = close
         /\ NewResponse(close).file = NoFile
         /\ NewResponse(close).declared = -1
         /\ NewResponse(close).body = ""
<1>1. DOMAIN NewResponse(close) = ResponseFields
  BY DEF NewResponse, ResponseFields
<1>2. NewResponse(close).close = close
  BY DEF NewResponse
<1>3. NewResponse(close).file = NoFile /\ NewResponse(close).declared = -1
  BY DEF NewResponse
<1>4. NewResponse(close).body = ""
  BY DEF NewResponse
<1> QED
  BY <1>1, <1>2, <1>3, <1>4

\* Login keeps the cache within the table, and welcomes the rows of the table
\* and nobody else, with or without the cache.
LEMMA LoginFacts ==
  ASSUME NEW resp, DOMAIN resp = ResponseFields, NEW r, NEW s, StoreOK(s)
  PROVE  /\ SameButPage(Login(resp, r, s).resp, resp)
         /\ StoreOK(Login(resp, r, s).store)
         /\ r.method = "POST" =>
                (Login(resp, r, s).resp.body = "/welcome.html" <=> r.form \in s.users)
<1>1. CASE r.method = "GET"
  <2>1. Login(resp, r, s) = [resp |-> Page(resp, "/login.html"), store |-> s]
    BY <1>1 DEF Login
  <2>2. Login(resp, r, s).resp = Page(resp, "/login.html") /\ Login(resp, r, s).store = s
    BY <2>1
  <2> QED
    BY <1>1, <2>2, PageFacts
<1>2. CASE r.method = "POST"
  <2>1. PICK page : page = IF r.form \in s.users THEN "/welcome.html" ELSE "/error.html"
    OBVIOUS
  <2>2. PICK known : known = {c \in s.cache : c[1] # r.form[1]} \cup {r.form}
    OBVIOUS
  <2>3. PICK new : new = IF r.form \in s.users /\ ~(r.form \in s.cache)
                         THEN [s EXCEPT !.cache = known] ELSE s
    OBVIOUS
  <2>4. r.form \in s.cache \/ r.form \in s.users <=> r.form \in s.users
    BY DEF StoreOK
  <2>5. Login(resp, r, s) = [resp |-> Page(resp, page), store |-> new]
    BY <1>2, <2>1, <2>2, <2>3, <2>4 DEF Login, CachedLogin
  <2>6. Login(resp, r, s).resp = Page(resp, page) /\ Login(resp, r, s).store = new
    BY <2>5
  <2>7. StoreOK(new)
    <3>1. CASE r.form \in s.users /\ ~(r.form \in s.cache)
      <4>1. new = [s EXCEPT !.cache = known]
        BY <2>3, <3>1
      <4>2. DOMAIN new = {"users", "cache", "comments"} /\ new.cache = known /\ new.users = s.users
        BY <4>1 DEF StoreOK
      <4>3. known \subseteq s.users
        BY <2>2, <3>1 DEF StoreOK
      <4> QED
        BY <4>2, <4>3 DEF StoreOK
    <3>2. CASE ~(r.form \in s.users /\ ~(r.form \in s.cache))
      BY <2>3, <3>2
    <3> QED
      BY <3>1, <3>2
  <2>8. Login(resp, r, s).resp.body = page
    BY <2>6, PageFacts
  <2>9. page = "/welcome.html" <=> r.form \in s.users
    BY <2>1
  <2> QED
    BY <2>6, <2>7, <2>8, <2>9, PageFacts
<1>3. CASE r.method \notin {"GET", "POST"}
  <2>1. Login(resp, r, s) = [resp |-> resp, store |-> s]
    BY <1>3 DEF Login
  <2>2. Login(resp, r, s).resp = resp /\ Login(resp, r, s).store = s
    BY <2>1
  <2> QED
    BY <1>3, <2>2 DEF SameButPage
<1> QED
  BY <1>1, <1>2, <1>3

\* Register adds rows only, so what is cached stays in the table.
LEMMA RegisterFacts ==
  ASSUME NEW resp, DOMAIN resp = ResponseFields, NEW r, NEW s, StoreOK(s)
  PROVE  /\ SameButPage(Register(resp, r, s).resp, resp)
         /\ StoreOK(Register(resp, r, s).store)
<1>1. CASE r.method = "GET"
  <2>1. Register(resp, r, s) = [resp |-> Page(resp, "/register.html"), store |-> s]
    BY <1>1 DEF Register
  <2>2. Register(resp, r, s).resp = Page(resp, "/register.html") /\ Register(resp, r, s).store = s
    BY <2>1
  <2> QED
    BY <2>2, PageFacts
<1>2. CASE r.method = "POST"
  <2>1. PICK page : page = IF \A u \in s.users : u[1] # r.form[1]
                           THEN "/welcome.html" ELSE "/error.html"
    OBVIOUS
  <2>2. PICK new : new = IF \A u \in s.users : u[1] # r.form[1]
                         THEN [s EXCEPT !.users = @ \cup {r.form}] ELSE s
    OBVIOUS
  <2>3. Register(resp, r, s) = [resp |-> Page(resp, page), store |-> new]
    BY <1>2, <2>1, <2>2 DEF Register
  <2>4. Register(resp, r, s).resp = Page(resp, page) /\ Register(resp, r, s).store = new
    BY <2>3
  <2>5. CASE new = [s EXCEPT !.users = @ \cup {r.form}]
    <3>1. DOMAIN new = {"users", "cache", "comments"} /\ new.cache = s.cache
          /\ new.users = s.users \cup {r.form}
      BY <2>5 DEF StoreOK
    <3>2. StoreOK(new)
      BY <3>1 DEF StoreOK
    <3> QED
      BY <2>4, <3>2, PageFacts
  <2>6. CASE new = s
    BY <2>4, <2>6, PageFacts
  <2> QED
    BY <2>2, <2>5, <2>6
<1>3. CASE r.method \notin {"GET", "POST"}
  <2>1. Register(resp, r, s) = [resp |-> resp, store |-> s]
    BY <1>3 DEF Register
  <2>2. Register(resp, r, s).resp = resp /\ Register(resp, r, s).store = s
    BY <2>1
  <2> QED
    BY <2>2 DEF SameButPage
<1> QED
  BY <1>1, <1>2, <1>3

\* A range as the client may ask for: none, or one that lies in the file.
RangeInFile(range) ==
    \/ range = NoRange
    \/ /\ range.beg \in 0 .. FileLen - 1
       /\ range.end = -1 \/ range.end \in range.beg .. FileLen - 1
    \/ range.beg = -1 /\ range.end \in 0 .. FileLen

\* The bytes of the file that a request line asks for.
AskedBytes(line) ==
    IF line.url # "/filedownload-src" THEN {}
    ELSE IF line.range = NoRange THEN 0 .. FileLen - 1
    ELSE {b \in 0 .. FileLen - 1 :
            IF line.range.beg < 0 THEN b >= FileLen - line.range.end
            ELSE b >= line.range.beg /\ (line.range.end < 0 \/ b <= line.range.end)}

\* A response declares what it sends, and sends what was asked for.
Declares(resp, line) ==
    /\ BytesSent(resp) = AskedBytes(line)
    /\ resp.declared # -1 => resp.declared = BodyLen(resp.body) + Cardinality(AskedBytes(line))
    /\ resp.declared = -1 => resp.close

\* The response sends and declares one span of the file.
SendsSpan(resp, bytes) ==
    \E a, b \in Int :
        /\ 0 <= a /\ a <= b /\ b <= FileLen
        /\ resp.declared = b - a
        /\ resp.file.from = a /\ resp.file.len = b - a
        /\ bytes = a .. b - 1

\* There is no page, and the close is announced.
NoPage(resp, close) ==
    /\ DOMAIN resp = ResponseFields
    /\ resp.close = close
    /\ resp.body = ""

\* FileDownload announces the close it was given, whatever the range.
LEMMA FileDownloadClose ==
  ASSUME NEW close, NEW r, r.url = "/filedownload-src",
         NEW new, new = FileDownload(NewResponse(close), r)
  PROVE  DOMAIN new = ResponseFields /\ new.close = close
<1>1. PICK resp : resp = NewResponse(close)
  OBVIOUS
<1>2. DOMAIN resp = ResponseFields /\ resp.close = close
  BY <1>1, NewResponseFacts
<1>3. CASE r.range = NoRange
  <2>1. PICK span : span = [from |-> 0, len |-> FileLen]
    OBVIOUS
  <2>2. new = [resp EXCEPT !.file = span, !.declared = FileLen]
    BY <1>1, <1>3, <2>1 DEF FileDownload
  <2> QED
    BY <1>2, <2>2 DEF ResponseFields
<1>4. CASE r.range # NoRange
  <2>1. PICK a, n : a = RangeOf(r.range).beg /\ n = RangeOf(r.range).need
    OBVIOUS
  <2>2. PICK span : span = [from |-> a, len |-> n]
    OBVIOUS
  <2>3. new = [resp EXCEPT !.status = 206, !.file = span, !.declared = n]
    BY <1>1, <1>4, <2>1, <2>2 DEF FileDownload
  <2> QED
    BY <1>2, <2>3 DEF ResponseFields
<1> QED
  BY <1>3, <1>4

\* FileDownload of the file: one span of it, which is declared.
LEMMA FileDownloadFacts ==
  ASSUME NEW close, NEW r, r.url = "/filedownload-src",
         r.range \in [beg : Int, end : Int], RangeInFile(r.range),
         NEW new, new = FileDownload(NewResponse(close), r)
  PROVE  NoPage(new, close) /\ SendsSpan(new, AskedBytes(r))
<1>1. FileLen \in Nat \ {0}
  BY HttpServiceAssumption
<1>2. PICK resp : resp = NewResponse(close)
  OBVIOUS
<1>3. DOMAIN resp = ResponseFields /\ resp.close = close /\ resp.body = ""
  BY <1>2, NewResponseFacts
<1>4. CASE r.range = NoRange
  <2>1. new = [resp EXCEPT !.file = [from |-> 0, len |-> FileLen], !.declared = FileLen]
    BY <1>2, <1>4 DEF FileDownload
  <2>2. DOMAIN new = ResponseFields /\ new.body = "" /\ new.declared = FileLen
        /\ new.file = [from |-> 0, len |-> FileLen]
    BY <1>3, <2>1 DEF ResponseFields
  <2>3. new.close = close
    BY <1>3, <2>1 DEF ResponseFields
  <2>4. AskedBytes(r) = 0 .. FileLen - 1
    BY <1>4 DEF AskedBytes
  <2>5. PICK span : span = [from |-> 0, len |-> FileLen]
    OBVIOUS
  <2>6. span.from = 0 /\ span.len = FileLen
    BY <2>5
  <2>7. new.file.from = 0 /\ new.file.len = FileLen
    BY <2>2, <2>5, <2>6
  <2>9. SendsSpan(new, AskedBytes(r))
    <3>1. PICK a, b \in Int : a = 0 /\ b = FileLen
      BY <1>1
    <3>2. b - a = FileLen /\ 0 <= a /\ a <= b /\ b <= FileLen
      BY <1>1, <3>1
    <3>3. new.declared = b - a /\ new.file.from = a /\ new.file.len = b - a
      BY <2>2, <2>7, <3>1, <3>2
    <3>4. AskedBytes(r) = a .. b - 1
      BY <2>4, <3>1
    <3> QED
      BY <3>2, <3>3, <3>4 DEF SendsSpan
  <2> QED
    BY <2>2, <2>3, <2>9 DEF NoPage
<1>5. CASE r.range # NoRange
  <2>1. PICK beg, end \in Int : beg = r.range.beg /\ end = r.range.end
    OBVIOUS
  <2>2. PICK a : a = IF beg >= 0 THEN beg ELSE FileLen - end
    OBVIOUS
  <2>3. PICK b : b = (IF beg >= 0 /\ end >= 0 THEN end ELSE FileLen - 1) + 1
    OBVIOUS
  <2>4. \/ beg \in 0 .. FileLen - 1 /\ (end = -1 \/ end \in beg .. FileLen - 1)
        \/ beg = -1 /\ end \in 0 .. FileLen
    BY <1>5, <2>1 DEF RangeInFile
  <2>5. a \in Int /\ b \in Int /\ 0 <= a /\ a <= b /\ b <= FileLen
    BY <1>1, <2>2, <2>3, <2>4
  <2>6. RangeOf(r.range) = [beg |-> a, need |-> b - 1 - a + 1]
    BY <1>1, <2>1, <2>2, <2>3 DEF RangeOf
  <2>7. RangeOf(r.range).beg = a /\ RangeOf(r.range).need = b - a
    BY <2>5, <2>6
  <2>8. new = [resp EXCEPT !.status = 206, !.file = [from |-> a, len |-> b - a], !.declared = b - a]
    BY <1>2, <1>5, <2>7 DEF FileDownload
  <2>9. DOMAIN new = ResponseFields /\ new.body = "" /\ new.declared = b - a
        /\ new.file = [from |-> a, len |-> b - a]
    BY <1>3, <2>8 DEF ResponseFields
  <2>10. new.close = close
    BY <1>3, <2>8 DEF ResponseFields
  <2>11. AskedBytes(r) = a .. b - 1
    <3>1. AskedBytes(r) = {i \in 0 .. FileLen - 1 :
                             IF beg < 0 THEN i >= FileLen - end
                             ELSE i >= beg /\ (end < 0 \/ i <= end)}
      BY <1>5, <2>1 DEF AskedBytes
    <3>2. ASSUME NEW i \in Int
          PROVE  i \in a .. b - 1 <=>
                    /\ i \in 0 .. FileLen - 1
                    /\ IF beg < 0 THEN i >= FileLen - end
                       ELSE i >= beg /\ (end < 0 \/ i <= end)
      BY <1>1, <2>2, <2>3, <2>4
    <3> QED
      BY <1>1, <2>5, <3>1, <3>2
  <2>12. PICK span : span = [from |-> a, len |-> b - a]
    OBVIOUS
  <2>13. span.from = a /\ span.len = b - a
    BY <2>12
  <2>14. new.file.from = a /\ new.file.len = b - a
    BY <2>9, <2>12, <2>13
  <2> QED
    BY <2>5, <2>9, <2>10, <2>11, <2>14 DEF SendsSpan, NoPage
<1> QED
  BY <1>4, <1>5

\* Dispatch, whatever servlet answers: the close that onRequest decided on is
\* announced; only the download sends a file; the store stays sound.
LEMMA DispatchFacts ==
  ASSUME NEW close, NEW r, NEW s, StoreOK(s), NEW file,
         NEW made, made = Dispatch(NewResponse(close), r, s, file)
  PROVE  /\ StoreOK(made.store)
         /\ r.url # "/filedownload-src" => SameButPage(made.resp, NewResponse(close))
         /\ r.url = "/filedownload-src" => made.resp = FileDownload(NewResponse(close), r)
         /\ r.url = "/login" /\ r.method = "POST" =>
                (made.resp.body = "/welcome.html" <=> r.form \in s.users)
<1>1. PICK resp : resp = NewResponse(close)
  OBVIOUS
<1>2. DOMAIN resp = ResponseFields /\ SameButPage(resp, resp)
  BY <1>1, NewResponseFacts DEF SameButPage
<1>3. CASE r.url \in GetOnly
  <2>1. made = [resp |-> GetPage(resp, r), store |-> s]
    BY <1>1, <1>3 DEF Dispatch, GetOnly
  <2>2. made.resp = GetPage(resp, r) /\ made.store = s
    BY <2>1
  <2>3. SameButPage(GetPage(resp, r), resp)
    BY <1>2, PageFacts, FailedFacts DEF GetPage
  <2>4. r.url # "/filedownload-src" /\ r.url # "/login"
    BY <1>3 DEF GetOnly
  <2> QED
    BY <1>1, <2>2, <2>3, <2>4
<1>4. CASE r.url = "/login"
  <2>1. made = Login(resp, r, s)
    BY <1>1, <1>4 DEF Dispatch, GetOnly
  <2> QED
    BY <1>1, <1>2, <1>4, <2>1, LoginFacts
<1>5. CASE r.url = "/register"
  <2>1. made = Register(resp, r, s)
    BY <1>1, <1>5 DEF Dispatch, GetOnly
  <2> QED
    BY <1>1, <1>2, <1>5, <2>1, RegisterFacts
<1>6. CASE r.url \in {"/filedownload", "/filedownload-src", "/filedownload-gone"}
  <2>1. made = [resp |-> FileDownload(resp, r), store |-> s]
    BY <1>1, <1>6 DEF Dispatch, GetOnly
  <2>2. made.resp = FileDownload(resp, r) /\ made.store = s
    BY <2>1
  <2>3. CASE r.url = "/filedownload-src"
    BY <1>1, <2>2, <2>3
  <2>4. CASE r.url = "/filedownload"
    <3>1. FileDownload(resp, r) = Page(resp, "/filedownload.html")
      BY <2>4 DEF FileDownload
    <3> QED
      BY <1>1, <1>2, <2>2, <2>4, <3>1, PageFacts
  <2>5. CASE r.url = "/filedownload-gone"
    <3>1. FileDownload(resp, r) = Failed(resp, 404)
      BY <2>5 DEF FileDownload
    <3> QED
      BY <1>1, <1>2, <2>2, <2>5, <3>1, FailedFacts
  <2> QED
    BY <1>6, <2>3, <2>4, <2>5
<1>7. CASE r.url = "/fileupload"
  <2>1. made = [resp |-> FileUpload(resp, r, file), store |-> s]
    BY <1>1, <1>7 DEF Dispatch, GetOnly
  <2>2. made.resp = FileUpload(resp, r, file) /\ made.store = s
    BY <2>1
  <2>3. FileUpload(resp, r, file) = Page(resp, "/fileupload.html")
        \/ FileUpload(resp, r, file) = Failed(resp, 400)
    BY DEF FileUpload
  <2> QED
    BY <1>1, <1>2, <1>7, <2>2, <2>3, PageFacts, FailedFacts
<1>8. CASE r.url = "/Aboutme"
  <2>1. made = [resp |-> AboutMe(resp, r), store |-> s]
    BY <1>1, <1>8 DEF Dispatch, GetOnly
  <2>2. made.resp = AboutMe(resp, r) /\ made.store = s
    BY <2>1
  <2>3. \/ AboutMe(resp, r) = Page(resp, "/Aboutme.html")
        \/ AboutMe(resp, r) = resp
        \/ AboutMe(resp, r) = Failed(resp, 400)
    BY DEF AboutMe
  <2> QED
    BY <1>1, <1>2, <1>8, <2>2, <2>3, PageFacts, FailedFacts
<1>9. CASE r.url = "/msgboard"
  <2>1. made = [resp |-> MsgBoard(resp), store |-> s]
    BY <1>1, <1>9 DEF Dispatch, GetOnly
  <2>2. made.resp = Page(resp, "/msgboard.html") /\ made.store = s
    BY <2>1 DEF MsgBoard
  <2> QED
    BY <1>1, <1>2, <1>9, <2>2, PageFacts
<1>10. CASE r.url = "/get-comments"
  <2>1. made = [resp |-> GetComments(resp, s), store |-> s]
    BY <1>1, <1>10 DEF Dispatch, GetOnly
  <2>2. PICK page : page = IF s.comments = <<>> THEN "" ELSE "comments"
    OBVIOUS
  <2>3. GetComments(resp, s) = [resp EXCEPT !.body = page]
    BY <2>2 DEF GetComments
  <2>4. made.resp = GetComments(resp, s) /\ made.store = s
    BY <2>1
  <2>5. SameButPage(made.resp, resp)
    BY <1>2, <2>3, <2>4, BodyFacts
  <2> QED
    BY <1>1, <1>10, <2>4, <2>5
<1>11. CASE r.url = "/get-num-visits"
  <2>1. made = [resp |-> GetVisitNum(resp), store |-> s]
    BY <1>1, <1>11 DEF Dispatch, GetOnly
  <2>2. GetVisitNum(resp) = [resp EXCEPT !.body = "number of visits"]
    BY DEF GetVisitNum
  <2>3. made.resp = GetVisitNum(resp) /\ made.store = s
    BY <2>1
  <2>4. SameButPage(made.resp, resp)
    BY <1>2, <2>2, <2>3, BodyFacts
  <2> QED
    BY <1>1, <1>11, <2>3, <2>4
<1>12. CASE r.url = "/set-comments/:val" /\ r.method = "GET"
  <2>1. made = SetComments(resp, s)
    BY <1>1, <1>12 DEF Dispatch, GetOnly
  <2>2. PICK comments : comments = <<"val">> \o s.comments
    OBVIOUS
  <2>3. PICK new : new = [resp EXCEPT !.body = "set success"]
    OBVIOUS
  <2>4. PICK later : later = [s EXCEPT !.comments = comments]
    OBVIOUS
  <2>5. made = [resp |-> new, store |-> later]
    BY <2>1, <2>2, <2>3, <2>4 DEF SetComments
  <2>6. made.resp = new /\ made.store = later
    BY <2>5
  <2>7. StoreOK(later)
    BY <2>4 DEF StoreOK
  <2>8. SameButPage(made.resp, resp)
    BY <1>2, <2>3, <2>6, BodyFacts
  <2> QED
    BY <1>1, <1>12, <2>6, <2>7, <2>8
<1>13. CASE /\ r.url \notin GetOnly
            /\ r.url \notin {"/login", "/register", "/filedownload", "/filedownload-src",
                             "/filedownload-gone", "/fileupload", "/Aboutme", "/msgboard",
                             "/get-comments", "/get-num-visits"}
            /\ ~(r.url = "/set-comments/:val" /\ r.method = "GET")
  <2>1. made = [resp |-> DefaultServlet(resp, r), store |-> s]
    BY <1>1, <1>13 DEF Dispatch
  <2>2. PICK path : path = IF r.url \in {"/", "/index"} THEN "/index.html" ELSE r.url
    OBVIOUS
  <2>3. made.resp = DefaultServlet(resp, r) /\ made.store = s
    BY <2>1
  <2>4. DefaultServlet(resp, r) = [resp EXCEPT !.body = path]
        \/ DefaultServlet(resp, r) = Failed(resp, 404)
    BY <2>2 DEF DefaultServlet
  <2> QED
    BY <1>1, <1>2, <1>13, <2>3, <2>4, BodyFacts, FailedFacts
<1> QED
  BY <1>3, <1>4, <1>5, <1>6, <1>7, <1>8, <1>9, <1>10, <1>11, <1>12, <1>13

\* appendToBuffer fills in the length only.
LEMMA AppendToBufferFacts ==
  ASSUME NEW resp, DOMAIN resp = ResponseFields, NEW new, new = appendToBuffer(resp)
  PROVE  /\ new.close = resp.close /\ new.file = resp.file /\ new.body = resp.body
         /\ resp.declared # -1 => new.declared = resp.declared
         /\ resp.declared = -1 /\ resp.close => new.declared = -1
         /\ resp.declared = -1 /\ ~resp.close => new.declared = BodyLen(resp.body)
<1>1. CASE resp.close \/ resp.declared # -1
  <2>1. new = resp
    BY <1>1 DEF appendToBuffer
  <2> QED
    BY <1>1, <2>1
<1>2. CASE ~(resp.close \/ resp.declared # -1)
  <2>1. PICK len : len = BodyLen(resp.body)
    OBVIOUS
  <2>2. new = [resp EXCEPT !.declared = len]
    BY <1>2, <2>1 DEF appendToBuffer
  <2>3. new.file = resp.file /\ new.body = resp.body /\ new.declared = len
    BY <2>2 DEF ResponseFields
  <2>4. new.close = resp.close
    BY <2>2 DEF ResponseFields
  <2> QED
    BY <1>2, <2>1, <2>3, <2>4
<1> QED
  BY <1>1, <1>2

\* The response to a request, as it goes out.
LEMMA ResponseFacts ==
  ASSUME NEW close \in BOOLEAN, NEW s, StoreOK(s), NEW file,
         NEW r, NEW line,
         r.url = line.url, r.method = line.method, r.form = line.form, r.range = line.range,
         line.range \in [beg : Int, end : Int],
         NEW made, made = Dispatch(NewResponse(close), r, s, file),
         NEW resp, resp = appendToBuffer(made.resp)
  PROVE  /\ resp.close = close
         /\ RangeInFile(line.range) => Declares(resp, line)
         /\ StoreOK(made.store)
         /\ line.url = "/login" /\ line.method = "POST" =>
                (resp.body = "/welcome.html" <=> line.form \in s.users)
<1>1. FileLen \in Nat \ {0}
  BY HttpServiceAssumption
<1>2. /\ StoreOK(made.store)
      /\ r.url # "/filedownload-src" => SameButPage(made.resp, NewResponse(close))
      /\ r.url = "/filedownload-src" => made.resp = FileDownload(NewResponse(close), r)
      /\ r.url = "/login" /\ r.method = "POST" =>
             (made.resp.body = "/welcome.html" <=> r.form \in s.users)
  BY DispatchFacts
<1>3. ASSUME line.url # "/filedownload-src"
      PROVE  /\ resp.close = close /\ Declares(resp, line) /\ resp.body = made.resp.body
  <2>1. PICK m : m = made.resp
    OBVIOUS
  <2>n. SameButPage(m, NewResponse(close))
    BY <1>2, <1>3, <2>1
  <2>2. DOMAIN m = ResponseFields /\ m.close = close /\ m.file = NoFile /\ m.declared = -1
    BY <2>n, NewResponseFacts DEF SameButPage
  <2>3. /\ resp.close = m.close /\ resp.file = m.file /\ resp.body = m.body
        /\ m.close => resp.declared = -1
        /\ ~m.close => resp.declared = BodyLen(m.body)
    BY <2>1, <2>2, AppendToBufferFacts
  <2>4. resp.file.from = 0 /\ resp.file.len = -1
    BY <2>2, <2>3 DEF NoFile
  <2>5. BytesSent(resp) = {}
    BY <1>1, <2>4 DEF BytesSent
  <2>6. AskedBytes(line) = {}
    BY <1>3 DEF AskedBytes
  <2>7. Cardinality({}) = 0
    BY FS_EmptySet
  <2>8. BodyLen(m.body) \in {0, 1}
    BY DEF BodyLen
  <2>9. CASE close
    <3>1. resp.close /\ resp.declared = -1
      BY <2>2, <2>3, <2>9
    <3>2. Declares(resp, line)
      BY <2>5, <2>6, <3>1 DEF Declares
    <3> QED
      BY <2>1, <2>2, <2>3, <3>2
  <2>10. CASE ~close
    <3>1. resp.declared = BodyLen(resp.body)
      BY <2>2, <2>3, <2>10
    <3>2. BodyLen(resp.body) = BodyLen(resp.body) + 0 /\ BodyLen(resp.body) # -1
      BY <2>3, <2>8
    <3>3. Declares(resp, line)
      BY <2>5, <2>6, <2>7, <3>1, <3>2 DEF Declares
    <3> QED
      BY <2>1, <2>2, <2>3, <3>3
  <2> QED
    BY <2>9, <2>10
<1>4. ASSUME line.url = "/filedownload-src", RangeInFile(line.range)
      PROVE  resp.close = close /\ Declares(resp, line)
  <2>1. PICK m : m = made.resp
    OBVIOUS
  <2>2. m = FileDownload(NewResponse(close), r)
    BY <1>2, <1>4, <2>1
  <2>u. r.url = "/filedownload-src"
    BY <1>4
  <2>3. r.range \in [beg : Int, end : Int] /\ RangeInFile(r.range)
    BY <1>4
  <2>c. PICK c : c = close
    OBVIOUS
  <2>d. m = FileDownload(NewResponse(c), r)
    BY <2>2, <2>c
  <2>4. /\ DOMAIN m = ResponseFields /\ m.close = c /\ m.body = ""
        /\ SendsSpan(m, AskedBytes(r))
    <3>1. NoPage(m, c) /\ SendsSpan(m, AskedBytes(r))
      BY <2>3, <2>d, <2>u, FileDownloadFacts
    <3> QED
      BY <3>1 DEF NoPage
  <2>5. PICK a, b \in Int :
              /\ 0 <= a /\ a <= b /\ b <= FileLen
              /\ m.declared = b - a
              /\ m.file.from = a /\ m.file.len = b - a
              /\ AskedBytes(r) = a .. b - 1
    BY <2>4 DEF SendsSpan
  <2>6. b - a # -1 /\ m.declared # -1
    BY <2>5
  <2>7. resp = appendToBuffer(m)
    BY <2>1
  <2>8. /\ resp.close = m.close /\ resp.file = m.file /\ resp.body = m.body
        /\ resp.declared = m.declared
    BY <2>4, <2>6, <2>7, AppendToBufferFacts
  <2>9. AskedBytes(line) = a .. b - 1
    BY <2>5 DEF AskedBytes
  <2>10. BytesSent(resp) = a .. b - 1
    <3>1. resp.file.from = a /\ resp.file.len = b - a
      BY <2>5, <2>8
    <3>2. BytesSent(resp) = {i \in 0 .. FileLen - 1 : a <= i /\ i < a + (b - a)}
      BY <3>1 DEF BytesSent
    <3> QED
      BY <1>1, <2>5, <3>2
  <2>11. Cardinality(a .. b - 1) = b - a
    <3>1. b - 1 \in Int
      OBVIOUS
    <3>2. Cardinality(a .. b - 1) = IF a > b - 1 THEN 0 ELSE b - 1 - a + 1
      BY <3>1, FS_Interval
    <3> QED
      BY <2>5, <3>2
  <2>12. BodyLen(resp.body) = 0
    BY <2>4, <2>8 DEF BodyLen
  <2>13. resp.declared = b - a /\ 0 + (b - a) = b - a
    BY <2>5, <2>8
  <2>14. Declares(resp, line)
    BY <2>6, <2>9, <2>10, <2>11, <2>12, <2>13 DEF Declares
  <2> QED
    BY <2>4, <2>8, <2>14, <2>c
<1>5. ASSUME line.url = "/filedownload-src"
      PROVE  resp.close = close
  <2>1. PICK m : m = made.resp
    OBVIOUS
  <2>2. DOMAIN m = ResponseFields /\ m.close = close
    BY <1>2, <1>5, <2>1, FileDownloadClose
  <2> QED
    BY <2>1, <2>2, AppendToBufferFacts
<1> QED
  BY <1>2, <1>3, <1>4, <1>5

-----------------------------------------------------------------------------
(* Sequences and the induction they need: every set of numbers that is not *)
(* empty has a least one, so a statement about all of them has no first    *)
(* counterexample.                                                         *)

\* The least counterexample.
LEMMA SmallestNat ==
  ASSUME NEW T, T \subseteq Nat, T # {}
  PROVE  \E n \in T : \A m \in T : n <= m
<1>1. PICK R : R = {p \in Nat \X Nat : p[1] < p[2]}
  OBVIOUS
<1>2. IsWellFoundedOn(R, Nat)
  BY NatLessThanWellFounded, <1>1 DEF OpToRel
<1>3. PICK n \in T : \A m \in T : ~(<<m, n>> \in R)
  BY <1>2, WFMin
<1>4. \A m \in T : ~(m < n)
  BY <1>3, <1>1
<1> QED
  BY <1>4

\* g is what FlattenSeq computes of ss, up to place n.
IsFlatten(g, ss, n) ==
  g = [i \in 1 .. n |-> IF i = 1 THEN ss[i] ELSE g[i - 1] \o ss[i]]

\* There is such a function,
LEMMA FlattenExists ==
  ASSUME NEW ss, NEW n \in Nat
  PROVE  \E g : IsFlatten(g, ss, n)
<1> SUFFICES ASSUME ~ \E g : IsFlatten(g, ss, n) PROVE FALSE
  OBVIOUS
<1>1. PICK T : T = {k \in Nat : ~ \E g : IsFlatten(g, ss, k)}
  OBVIOUS
<1>2. PICK k \in T : \A m \in T : k <= m
  <2>1. n \in T BY <1>1
  <2> QED BY <1>1, <2>1, SmallestNat
<1>3. k \in Nat /\ k # 0
  <2>1. \E g : IsFlatten(g, ss, 0)
    <3>1. IsFlatten([i \in 1 .. 0 |-> 0], ss, 0) BY DEF IsFlatten
    <3> QED BY <3>1
  <2> QED BY <1>1, <1>2, <2>1
<1>4. PICK g : IsFlatten(g, ss, k - 1)
  BY <1>1, <1>2, <1>3
<1>5. PICK h : h = [i \in 1 .. k |-> IF i = k THEN (IF k = 1 THEN ss[k] ELSE g[k - 1] \o ss[k]) ELSE g[i]]
  OBVIOUS
<1>6. h = [i \in 1 .. k |-> IF i = 1 THEN ss[i] ELSE h[i - 1] \o ss[i]]
  <2>1. ASSUME NEW i \in 1 .. k PROVE h[i] = IF i = 1 THEN ss[i] ELSE h[i - 1] \o ss[i]
    <3>1. CASE i = k
      BY <3>1, <1>3, <1>5
    <3>2. CASE i # k
      <4>1. i \in 1 .. k - 1 /\ (i # 1 => i - 1 \in 1 .. k - 1 /\ i - 1 # k)
        BY <3>2, <1>3
      <4>2. h[i] = g[i] /\ (i # 1 => h[i - 1] = g[i - 1])
        BY <4>1, <1>5, <1>3, <3>2
      <4>3. g[i] = IF i = 1 THEN ss[i] ELSE g[i - 1] \o ss[i]
        BY <4>1, <1>4 DEF IsFlatten
      <4> QED BY <4>2, <4>3
    <3> QED BY <3>1, <3>2
  <2> QED BY <2>1, <1>5
<1>7. IsFlatten(h, ss, k)
  BY <1>6 DEF IsFlatten
<1> QED
  BY <1>1, <1>2, <1>7

\* and only one.
LEMMA FlattenUnique ==
  ASSUME NEW ss, NEW n \in Nat, NEW g, NEW h, IsFlatten(g, ss, n), NEW m \in Nat, IsFlatten(h, ss, m), m <= n
  PROVE  \A i \in 1 .. m : g[i] = h[i]
<1> SUFFICES ASSUME NEW j \in 1 .. m, g[j] # h[j] PROVE FALSE
  OBVIOUS
<1>1. PICK T : T = {i \in 1 .. m : g[i] # h[i]}
  OBVIOUS
<1>2. PICK i \in T : \A k \in T : i <= k
  BY <1>1, SmallestNat
<1>3. i \in 1 .. m /\ i \in 1 .. n
  BY <1>1, <1>2
<1>4. g[i] = (IF i = 1 THEN ss[i] ELSE g[i - 1] \o ss[i])
  BY <1>3 DEF IsFlatten
<1>5. h[i] = (IF i = 1 THEN ss[i] ELSE h[i - 1] \o ss[i])
  BY <1>3 DEF IsFlatten
<1>6. i # 1 => g[i - 1] = h[i - 1]
  BY <1>1, <1>2, <1>3
<1> QED
  BY <1>1, <1>2, <1>4, <1>5, <1>6

\* Its value at each place.
LEMMA FlattenAt ==
  ASSUME NEW ss, NEW n \in Nat, NEW h, IsFlatten(h, ss, n), NEW i \in 1 .. n
  PROVE  h[i] = IF i = 1 THEN ss[i] ELSE h[i - 1] \o ss[i]
BY DEF IsFlatten

\* FlattenSeq is its last value,
LEMMA FlattenIs ==
  ASSUME NEW ss, NEW n \in Nat, n = Len(ss), n # 0, NEW h, IsFlatten(h, ss, n)
  PROVE  FlattenSeq(ss) = h[n]
<1>1. PICK f : f = CHOOSE g : g = [i \in 1 .. n |-> IF i = 1 THEN ss[i] ELSE g[i - 1] \o ss[i]]
  OBVIOUS
<1>2. h = [i \in 1 .. n |-> IF i = 1 THEN ss[i] ELSE h[i - 1] \o ss[i]]
  BY DEF IsFlatten
<1>3. f = [i \in 1 .. n |-> IF i = 1 THEN ss[i] ELSE f[i - 1] \o ss[i]]
  BY <1>1, <1>2
<1>4. IsFlatten(f, ss, n)
  BY <1>3 DEF IsFlatten
<1>5. n <= n /\ n \in 1 .. n
  OBVIOUS
<1>6. \A i \in 1 .. n : f[i] = h[i]
  BY <1>4, <1>5, FlattenUnique
<1>7. FlattenSeq(ss) = f[n]
  BY <1>1 DEF FlattenSeq
<1> QED
  BY <1>5, <1>6, <1>7

\* which is a sequence,
LEMMA FlattenType ==
  ASSUME NEW S, NEW ss \in Seq(Seq(S))
  PROVE  FlattenSeq(ss) \in Seq(S)
<1>1. PICK n \in Nat : n = Len(ss)
  BY LenProperties
<1>2. CASE n = 0
  BY <1>1, <1>2, EmptySeq DEF FlattenSeq
<1>3. CASE n # 0
  <2>1. PICK h : IsFlatten(h, ss, n)
    BY FlattenExists
  <2>2. ASSUME NEW j \in 1 .. n, h[j] \notin Seq(S) PROVE FALSE
    <3>1. PICK T : T = {i \in 1 .. n : h[i] \notin Seq(S)}
      OBVIOUS
    <3>2. T \subseteq Nat /\ T # {}
      BY <2>2, <3>1
    <3>3. PICK i \in T : \A k \in T : i <= k
      BY <3>2, SmallestNat
    <3>4. i \in 1 .. n /\ h[i] \notin Seq(S)
      BY <3>1, <3>3
    <3>5. h[i] = IF i = 1 THEN ss[i] ELSE h[i - 1] \o ss[i]
      BY <2>1, <3>4 DEF IsFlatten
    <3>6. ss[i] \in Seq(S)
      BY <1>1, <3>4
    <3>7. i # 1 => h[i - 1] \in Seq(S)
      BY <3>1, <3>3, <3>4
    <3> QED
      BY <3>4, <3>5, <3>6, <3>7
  <2>3. h[n] \in Seq(S)
    BY <1>3, <2>2
  <2> QED
    BY <1>1, <1>3, <2>1, <2>3, FlattenIs
<1> QED
  BY <1>2, <1>3

\* and one more sequence comes at its end.
LEMMA FlattenAppend ==
  ASSUME NEW S, NEW ss \in Seq(Seq(S)), NEW s \in Seq(S)
  PROVE  FlattenSeq(Append(ss, s)) = FlattenSeq(ss) \o s
<1>1. PICK n \in Nat : n = Len(ss)
  BY LenProperties
<1>2. PICK tt : tt = Append(ss, s)
  OBVIOUS
<1>3. /\ tt \in Seq(Seq(S)) /\ Len(tt) = n + 1 /\ tt[n + 1] = s
      /\ \A i \in 1 .. n : tt[i] = ss[i]
  BY <1>1, <1>2, AppendProperties
<1>m. PICK m \in Nat : m = n + 1 /\ m # 0 /\ m - 1 = n /\ m \in 1 .. m /\ \A i \in 1 .. n : i \in 1 .. m
  <2>1. n + 1 # 0 /\ n + 1 - 1 = n /\ n + 1 \in 1 .. n + 1 /\ \A i \in 1 .. n : i \in 1 .. n + 1
    OBVIOUS
  <2> QED
    BY <2>1
<1>4. PICK h : IsFlatten(h, tt, m)
  BY FlattenExists
<1>5. FlattenSeq(tt) = h[m]
  <2>1. m = Len(tt) /\ m # 0
    BY <1>3, <1>m
  <2> QED
    BY <2>1, <1>4, FlattenIs
<1>6. h[m] = IF m = 1 THEN tt[m] ELSE h[m - 1] \o tt[m]
  BY <1>m, <1>4, FlattenAt
<1>7. CASE n = 0
  <2>1. FlattenSeq(ss) = <<>>
    BY <1>1, <1>7, EmptySeq DEF FlattenSeq
  <2>2. <<>> \o s = s
    OBVIOUS
  <2>3. h[m] = s
    BY <1>3, <1>6, <1>7, <1>m
  <2> QED
    BY <1>2, <1>5, <2>1, <2>2, <2>3
<1>8. CASE n # 0
  <2>1. PICK g : g = [i \in 1 .. n |-> h[i]]
    OBVIOUS
  <2>2. ASSUME NEW i \in 1 .. n
        PROVE  g[i] = IF i = 1 THEN ss[i] ELSE g[i - 1] \o ss[i]
    <3>1. h[i] = IF i = 1 THEN tt[i] ELSE h[i - 1] \o tt[i]
      <4>1. i \in 1 .. m
        BY <1>m
      <4> QED
        BY <4>1, <1>4, FlattenAt
    <3>2. g[i] = h[i] /\ (i # 1 => g[i - 1] = h[i - 1]) /\ tt[i] = ss[i]
      BY <1>3, <2>1
    <3> QED
      BY <3>1, <3>2
  <2>3. g = [i \in 1 .. n |-> IF i = 1 THEN ss[i] ELSE g[i - 1] \o ss[i]]
    BY <2>1, <2>2
  <2>4. IsFlatten(g, ss, n)
    BY <2>3 DEF IsFlatten
  <2>5. FlattenSeq(ss) = g[n]
    BY <1>1, <1>8, <2>4, FlattenIs
  <2>6. g[n] = h[n]
    BY <1>8, <2>1
  <2>7. m # 1 /\ m - 1 = n /\ tt[m] = s
    BY <1>3, <1>8, <1>m
  <2>8. h[m] = h[n] \o s
    BY <1>6, <2>7
  <2> QED
    BY <1>2, <1>5, <2>5, <2>6, <2>8
<1> QED
  BY <1>7, <1>8

\* Parts of the input; n tokens move from the front of one behind another.
Joined(a, b, c) == (a \o b) \o c
WithFront(b, c, n) == b \o SubSeq(c, 1, n)
Rest(c, n) == SubSeq(c, n + 1, Len(c))

\* Three sequences give the same whole in whichever order they are put together.
Assoc(x, y, z) == (x \o y) \o z = x \o (y \o z)

\* Any three sequences over one set do.
LEMMA Associates ==
  ASSUME NEW S, NEW x \in Seq(S), NEW y \in Seq(S), NEW z \in Seq(S)
  PROVE  Assoc(x, y, z)
BY ConcatAssociative DEF Assoc

\* What is taken off the front of a sequence and put behind another is in the
\* same place of the whole.
LEMMA FrontMoved ==
  ASSUME NEW S, NEW a \in Seq(S), NEW b \in Seq(S), NEW n \in 0 .. Len(b)
  PROVE  /\ WithFront(a, b, n) \in Seq(S) /\ Rest(b, n) \in Seq(S)
         /\ WithFront(a, b, n) \o Rest(b, n) = a \o b
<1>1. PICK c : c = SubSeq(b, 1, n)
  OBVIOUS
<1>2. PICK d : d = SubSeq(b, n + 1, Len(b))
  OBVIOUS
<1>3. c \in Seq(S)
  BY <1>1
<1>4. d \in Seq(S)
  BY <1>2
<1>5. c \o d = b
  <2>1. 1 \in 1 .. Len(b) + 1 /\ n \in 1 - 1 .. Len(b) /\ Len(b) \in n .. Len(b)
    OBVIOUS
  <2>2. SubSeq(b, 1, n) \o SubSeq(b, n + 1, Len(b)) = SubSeq(b, 1, Len(b))
    BY <2>1, ConcatAdjacentSubSeq
  <2>3. SubSeq(b, 1, Len(b)) = b
    BY SubSeqFull
  <2> QED
    BY <1>1, <1>2, <2>2, <2>3
<1>6. (a \o c) \o d = a \o (c \o d)
  <2>1. Assoc(a, c, d)
    BY <1>3, <1>4, Associates
  <2> QED
    BY <2>1 DEF Assoc
<1>7. a \o c \in Seq(S)
  BY <1>3
<1>8. WithFront(a, b, n) = a \o c
  BY <1>1 DEF WithFront
<1>9. Rest(b, n) = d
  BY <1>2 DEF Rest
<1> QED
  BY <1>4, <1>5, <1>6, <1>7, <1>8, <1>9

\* The same, written out.
LEMMA MovedInPlace ==
  ASSUME NEW S, NEW a \in Seq(S), NEW b \in Seq(S), NEW n \in 0 .. Len(b)
  PROVE  /\ a \o SubSeq(b, 1, n) \in Seq(S)
         /\ SubSeq(b, n + 1, Len(b)) \in Seq(S)
         /\ (a \o SubSeq(b, 1, n)) \o SubSeq(b, n + 1, Len(b)) = a \o b
<1>1. PICK c : c = SubSeq(b, 1, n)
  OBVIOUS
<1>2. PICK d : d = SubSeq(b, n + 1, Len(b))
  OBVIOUS
<1>3. WithFront(a, b, n) = a \o c
  BY <1>1 DEF WithFront
<1>4. Rest(b, n) = d
  BY <1>2 DEF Rest
<1>5. /\ WithFront(a, b, n) \in Seq(S) /\ Rest(b, n) \in Seq(S)
      /\ WithFront(a, b, n) \o Rest(b, n) = a \o b
  BY FrontMoved
<1>6. a \o c \in Seq(S) /\ d \in Seq(S) /\ (a \o c) \o d = a \o b
  BY <1>3, <1>4, <1>5
<1> QED
  BY <1>1, <1>2, <1>6

-----------------------------------------------------------------------------
(* The parser.                                                             *)

\* The tokens that occur in the inputs.
Given == UNION {{s[i] : i \in DOMAIN s} : s \in Streams}

\* The inputs consist of them, and they are tokens.
LEMMA GivenFacts == Streams \subseteq Seq(Given) /\ Given \subseteq Tokens
<1>1. ASSUME NEW s \in Streams PROVE s \in Seq(Given)
  <2>1. s \in Seq(Tokens)
    BY HttpServerAssumption
  <2>2. \A i \in 1 .. Len(s) : s[i] \in Given
    BY <2>1 DEF Given
  <2> QED
    BY <2>1, <2>2, LenProperties, SeqEqual
<1>2. ASSUME NEW t \in Given PROVE t \in Tokens
  <2>1. PICK s \in Streams : \E i \in DOMAIN s : t = s[i]
    BY DEF Given
  <2>2. s \in Seq(Tokens)
    BY HttpServerAssumption
  <2> QED
    BY <2>1, <2>2
<1> QED
  BY <1>1, <1>2

\* What a token is by its kind.
LEMMA TokenFacts ==
  ASSUME NEW t \in Tokens
  PROVE  /\ t.k = "size" => t.n \in Int
         /\ t.k = "header" => t.n \in Nat
         /\ t.k = "line" => t.range \in [beg : Int, end : Int]
<1>1. CASE t \in [k : {"line"}, method : STRING, url : STRING, version : STRING,
                  form : STRING \X STRING, range : [beg : Int, end : Int], filePart : BOOLEAN]
  <2>1. t.k = "line" /\ t.range \in [beg : Int, end : Int]
    BY <1>1
  <2> QED
    BY <2>1
<1>2. CASE t \in [k : {"header"}, name : STRING, value : STRING, n : Nat]
  BY <1>2
<1>3. CASE t \in [k : {"size"}, n : Int, digits : Nat]
  BY <1>3
<1>4. CASE t \in [k : {"byte", "eob", "CR", "LF"}]
  BY <1>4
<1> QED
  BY <1>1, <1>2, <1>3, <1>4 DEF Tokens

\* What Find finds is there.
LEMMA FindFacts ==
  ASSUME NEW S, NEW s \in Seq(S), NEW kinds, NEW i, i = Find(s, kinds), i # 0
  PROVE  i \in 1 .. Len(s) /\ At(s, i, kinds)
<1>1. PICK places : places = {j \in DOMAIN s : At(s, j, kinds)}
  OBVIOUS
<1>2. i = IF places = {} THEN 0 ELSE CHOOSE j \in places : \A k \in places : j <= k
  BY <1>1 DEF Find
<1>3. places \subseteq Nat /\ places # {}
  BY <1>1, <1>2
<1>4. \E j \in places : \A k \in places : j <= k
  BY <1>3, SmallestNat
<1>5. i \in places
  BY <1>2, <1>3, <1>4
<1> QED
  BY <1>1, <1>5

\* So a line end and an empty line fit into what is there.
LEMMA FindFits ==
  ASSUME NEW S, NEW s \in Seq(S), NEW i
  PROVE  /\ i = Find(s, CRLF) /\ i # 0 => i \in 1 .. Len(s) /\ i + 1 <= Len(s)
         /\ i = Find(s, TwoCRLF) /\ i # 0 => i \in 1 .. Len(s) /\ i + 3 <= Len(s)
<1>1. ASSUME i = Find(s, CRLF), i # 0 PROVE i \in 1 .. Len(s) /\ i + 1 <= Len(s)
  <2>1. i \in 1 .. Len(s) /\ At(s, i, CRLF)
    BY <1>1, FindFacts
  <2>2. i + 2 - 1 <= Len(s)
    BY <2>1 DEF At, CRLF
  <2> QED
    BY <2>1, <2>2
<1>2. ASSUME i = Find(s, TwoCRLF), i # 0 PROVE i \in 1 .. Len(s) /\ i + 3 <= Len(s)
  <2>1. i \in 1 .. Len(s) /\ At(s, i, TwoCRLF)
    BY <1>2, FindFacts
  <2>2. i + 4 - 1 <= Len(s)
    BY <2>1 DEF At, TwoCRLF
  <2> QED
    BY <2>1, <2>2
<1> QED
  BY <1>1, <1>2

RequestFields ==
    {"state", "ret", "method", "url", "version", "headers", "body", "chunkState", "chunkSize",
     "refused"}

ParserTypes ==
    /\ buf \in Seq(Given) /\ taken \in Seq(Given) /\ stream \in Seq(Given)
    /\ DOMAIN req = RequestFields
    /\ req.chunkSize \in Nat

\* The request line that was parsed is the first token taken.
LineIsFirst ==
    req.state # "CHECK_REQUESTLINE" =>
        /\ Len(taken) > 0 /\ taken[1].k = "line"
              /\ req.method = taken[1].method /\ req.url = taken[1].url

\* Nothing was taken for a request that has not begun.
NoLineYet == busy = "parsing" /\ req.state = "CHECK_REQUESTLINE" => taken = <<>>
NotBegun ==
    /\ busy = "idle" => taken = <<>> /\ req = NewRequest
    /\ NoLineYet

\* Part of the buffer was taken.
Taken(n) ==
    /\ taken' = taken \o SubSeq(buf, 1, n)
    /\ buf' = SubSeq(buf, n + 1, Len(buf))

\* A step of the parser that leaves the request line alone.
LineLeft ==
    /\ DOMAIN req' = RequestFields
    /\ req'.chunkSize \in Nat
    /\ req'.method = req.method /\ req'.url = req.url
    /\ \/ req'.state = req.state
       \/ req.state # "CHECK_REQUESTLINE" /\ req'.state # "CHECK_REQUESTLINE"

\* The two ways to leave the buffer as it is or to take from it.
LEMMA NothingTaken ==
  ASSUME ParserTypes, RetrieveNothing
  PROVE  \E n \in 0 .. Len(buf) : Taken(n)
<1>1. PICK b \in Seq(Given) : b = buf
  BY DEF ParserTypes
<1>2. PICK t \in Seq(Given) : t = taken
  BY DEF ParserTypes
<1>3. SubSeq(b, 1, 0) = <<>> /\ t \o <<>> = t
  BY ConcatEmptySeq, SubSeqEmpty
<1>4. SubSeq(b, 0 + 1, Len(b)) = b
  BY SubSeqFull
<1>5. 0 \in 0 .. Len(b)
  OBVIOUS
<1>6. taken' = t /\ buf' = b
  BY <1>1, <1>2 DEF RetrieveNothing
<1> QED
  BY <1>1, <1>2, <1>3, <1>4, <1>5, <1>6 DEF Taken

\* Buffer::retrieve takes a prefix of what is received.
LEMMA SomeTaken ==
  ASSUME NEW n \in Nat, n <= Len(buf), ParserTypes, Retrieve(n)
  PROVE  \E m \in 0 .. Len(buf) : Taken(m)
<1>1. n \in 0 .. Len(buf)
  BY DEF ParserTypes
<1> QED
  BY <1>1 DEF Retrieve, Taken

\* Return, with a request that is req but for its result, body and state.
LEMMA AgainFacts ==
  ASSUME ParserTypes, Again
  PROVE  LineLeft /\ (\E n \in 0 .. Len(buf) : Taken(n)) /\ busy' = "parsed"
<1>1. req' = [req EXCEPT !.ret = "AGAIN_REQUEST"]
  BY DEF Again, Return
<1>2. LineLeft
  BY <1>1 DEF LineLeft, ParserTypes, RequestFields
<1>3. PICK r : r = [req EXCEPT !.ret = "AGAIN_REQUEST"]
  OBVIOUS
<1>4. r.ret = "AGAIN_REQUEST"
  BY <1>3 DEF ParserTypes, RequestFields
<1>5. busy' = "parsed"
  BY <1>3, <1>4 DEF Again, Return
<1> QED
  BY <1>2, <1>5, NothingTaken DEF Again

\* So does a request that is refused, with what was added to it.
LEMMA RefuseFacts ==
  ASSUME NEW r, DOMAIN r = RequestFields, r.chunkSize \in Nat,
         r.method = req.method, r.url = req.url, r.state = req.state, Refuse(r)
  PROVE  LineLeft /\ busy' = "parsed"
<1>1. PICK q : q = [r EXCEPT !.ret = "BAD_REQUEST", !.refused = TRUE]
  OBVIOUS
<1>2. /\ DOMAIN q = RequestFields /\ q.ret = "BAD_REQUEST" /\ q.chunkSize \in Nat
      /\ q.method = r.method /\ q.url = r.url /\ q.state = r.state
  BY <1>1 DEF RequestFields
<1>3. req' = q /\ busy' = "parsed"
  BY <1>1, <1>2 DEF Refuse, Return
<1> QED
  BY <1>2, <1>3 DEF LineLeft

\* A parse that ends with BAD_REQUEST leaves the request line as it was.
LEMMA BadFacts ==
  ASSUME ParserTypes, Bad
  PROVE  LineLeft /\ busy' = "parsed"
BY RefuseFacts DEF Bad, ParserTypes

\* parseRequestContent leaves the request line as it was, and goes on or ends.
LEMMA ContentFacts ==
  ASSUME ParserTypes, req.state = "CHECK_CONTENT", NEW body, Content(body)
  PROVE  LineLeft /\ busy' \in {"parsing", "parsed"}
<1>1. PICK r : r = [req EXCEPT !.body = body]
  OBVIOUS
<1>2. /\ DOMAIN r = RequestFields /\ r.chunkSize \in Nat
      /\ r.method = req.method /\ r.url = req.url /\ r.state = "CHECK_CONTENT"
  BY <1>1 DEF ParserTypes, RequestFields
<1>3. \/ Refuse(r)
      \/ Return([r EXCEPT !.ret = "AGAIN_REQUEST"])
      \/ Return([r EXCEPT !.ret = "OK_REQUEST", !.state = "CHECK_DONE"])
  <2>1. CASE Get(req, "Content-Type") = "multipart without boundary"
    BY <1>1, <2>1 DEF Content
  <2>2. CASE /\ Get(req, "Content-Type") = "multipart"
             /\ Len(body) > 1 /\ Last(body).k # "eob"
    BY <1>1, <2>2 DEF Content
  <2>3. CASE /\ Get(req, "Content-Type") # "multipart without boundary"
             /\ ~ /\ Get(req, "Content-Type") = "multipart"
                  /\ Len(body) > 1 /\ Last(body).k # "eob"
    BY <1>1, <2>3 DEF Content
  <2> QED
    BY <2>1, <2>2, <2>3
<1>4. CASE Refuse(r)
  BY <1>2, <1>4, RefuseFacts
<1>5. CASE Return([r EXCEPT !.ret = "AGAIN_REQUEST"])
  BY <1>2, <1>5 DEF LineLeft, RequestFields, Return
<1>6. CASE Return([r EXCEPT !.ret = "OK_REQUEST", !.state = "CHECK_DONE"])
  BY <1>2, <1>6 DEF LineLeft, RequestFields, Return
<1> QED
  BY <1>3, <1>4, <1>5, <1>6

\* A step of the parser that leaves the line alone keeps what is known of it.
LEMMA LineLeftFacts ==
  ASSUME ParserTypes, LineIsFirst, LineLeft, UNCHANGED stream,
         NEW n \in 0 .. Len(buf), Taken(n)
  PROVE  ParserTypes' /\ LineIsFirst'
<1>1. taken' \in Seq(Given) /\ buf' \in Seq(Given)
  <2>1. PICK a \in Seq(Given) : a = taken
    BY DEF ParserTypes
  <2>2. PICK b \in Seq(Given) : b = buf
    BY DEF ParserTypes
  <2>3. /\ a \o SubSeq(b, 1, n) \in Seq(Given)
        /\ SubSeq(b, n + 1, Len(b)) \in Seq(Given)
    BY <2>2, MovedInPlace
  <2> QED
    BY <2>1, <2>2, <2>3 DEF Taken
<1>2. ParserTypes'
  BY <1>1 DEF ParserTypes, LineLeft
<1>3. LineIsFirst'
  <2>1. CASE req'.state = "CHECK_REQUESTLINE"
    BY <2>1 DEF LineIsFirst
  <2>2. CASE req'.state # "CHECK_REQUESTLINE"
    <3>1. Len(taken) > 0 /\ taken[1].k = "line"
          /\ req.method = taken[1].method /\ req.url = taken[1].url
      BY <2>2 DEF LineLeft, LineIsFirst
    <3>2. PICK a \in Seq(Given) : a = taken
      BY DEF ParserTypes
    <3>b. PICK b \in Seq(Given) : b = buf
      BY DEF ParserTypes
    <3>n. n \in 0 .. Len(b)
      BY <3>b
    <3>3. PICK c : c = SubSeq(b, 1, n)
      OBVIOUS
    <3>c. c \in Seq(Given)
      BY <3>3, <3>n
    <3>4. Len(a \o c) > 0 /\ (a \o c)[1] = a[1]
      BY <3>1, <3>2, <3>c, ConcatProperties
    <3>5. taken' = a \o c
      BY <3>2, <3>3, <3>b DEF Taken
    <3>6. Len(taken') > 0
      BY <3>4, <3>5
    <3>7. taken'[1] = taken[1]
      BY <3>2, <3>4, <3>5
    <3>8. taken'[1].k = "line" /\ req'.method = taken'[1].method /\ req'.url = taken'[1].url
      BY <3>1, <3>7 DEF LineLeft
    <3> QED
      BY <3>6, <3>8 DEF LineIsFirst
  <2> QED
    BY <2>1, <2>2
<1> QED
  BY <1>2, <1>3

\* parseRequestLine
LEMMA RequestLineFacts ==
  ASSUME ParserTypes, LineIsFirst, NoLineYet, UNCHANGED stream, ParseRequestLine
  PROVE  /\ \E n \in 0 .. Len(buf) : Taken(n)
         /\ ParserTypes' /\ LineIsFirst' /\ NotBegun'
<1>1. busy = "parsing" /\ req.state = "CHECK_REQUESTLINE" /\ taken = <<>>
  BY DEF ParseRequestLine, Parsing, NoLineYet
<1>2. PICK crlf : crlf = Find(buf, CRLF)
  OBVIOUS
<1>3. CASE crlf = 0 /\ Again
  <2>1. LineLeft /\ (\E n \in 0 .. Len(buf) : Taken(n)) /\ busy' = "parsed"
    BY <1>3, AgainFacts
  <2>2. ParserTypes' /\ LineIsFirst'
    BY <2>1, LineLeftFacts
  <2>3. NotBegun'
    BY <2>1 DEF NotBegun, NoLineYet
  <2> QED
    BY <2>1, <2>2, <2>3
<1>4. CASE crlf > 0 /\ Retrieve(crlf + 1)
  <2>1. crlf \in 1 .. Len(buf) /\ crlf + 1 <= Len(buf) /\ crlf + 1 \in Nat
    BY <1>2, <1>4, FindFits DEF ParserTypes
  <2>2. \E n \in 0 .. Len(buf) : Taken(n)
    BY <1>4, <2>1, SomeTaken
  <2>3. CASE ~(crlf = 2 /\ GoodLine(buf[1]))
    <3>1. PICK q : q = [req EXCEPT !.ret = "BAD_REQUEST"]
      OBVIOUS
    <3>q. /\ DOMAIN q = RequestFields /\ q.ret = "BAD_REQUEST" /\ q.chunkSize \in Nat
          /\ q.method = req.method /\ q.url = req.url /\ q.state = req.state
      BY <3>1 DEF RequestFields, ParserTypes
    <3>r. req' = q /\ busy' = "parsed"
      BY <1>2, <1>4, <2>3, <3>1, <3>q DEF ParseRequestLine, Return
    <3>2. LineLeft /\ busy' = "parsed"
      BY <3>q, <3>r DEF LineLeft
    <3>3. ParserTypes' /\ LineIsFirst'
      BY <2>2, <3>2, LineLeftFacts
    <3>4. NotBegun'
      BY <3>2 DEF NotBegun, NoLineYet
    <3> QED
      BY <2>2, <3>3, <3>4
  <2>4. CASE crlf = 2 /\ GoodLine(buf[1])
    <3>1. Return([req EXCEPT !.ret = "OK_REQUEST", !.state = "CHECK_HEADER",
                             !.method = buf[1].method, !.url = buf[1].url,
                             !.version = buf[1].version])
      BY <1>2, <1>4, <2>4 DEF ParseRequestLine
    <3>2. req' = [req EXCEPT !.ret = "OK_REQUEST", !.state = "CHECK_HEADER",
                             !.method = buf[1].method, !.url = buf[1].url,
                             !.version = buf[1].version]
      BY <3>1 DEF Return
    <3>3. /\ DOMAIN req' = RequestFields /\ req'.chunkSize \in Nat
          /\ req'.state = "CHECK_HEADER"
          /\ req'.method = buf[1].method /\ req'.url = buf[1].url
      BY <3>2 DEF ParserTypes, RequestFields
    <3>4. PICK b \in Seq(Given) : b = buf
      BY DEF ParserTypes
    <3>5. PICK c : c = SubSeq(b, 1, 3)
      OBVIOUS
    <3>6. 3 <= Len(b)
      BY <2>1, <2>4, <3>4
    <3>7. c \in Seq(Given) /\ Len(c) = 3 /\ c[1] = b[1]
      BY <3>5, <3>6
    <3>8. <<>> \o c = c
      BY <3>7, ConcatEmptySeq
    <3>9. taken' = c
      BY <1>1, <1>4, <2>4, <3>4, <3>5, <3>8 DEF Retrieve
    <3>10. buf' \in Seq(Given)
      <4>1. buf' = SubSeq(b, 3 + 1, Len(b))
        BY <1>4, <2>4, <3>4 DEF Retrieve
      <4> QED
        BY <3>6, <4>1
    <3>11. ParserTypes'
      BY <3>3, <3>7, <3>9, <3>10 DEF ParserTypes
    <3>12. taken'[1].k = "line"
      BY <2>4, <3>4, <3>7, <3>9 DEF GoodLine
    <3>13. LineIsFirst'
      <4>0. Len(c) > 0
        BY <3>7
      <4>1. Len(taken') > 0
        BY <3>9, <4>0
      <4>2. taken'[1] = buf[1]
        BY <3>4, <3>7, <3>9
      <4>3. req'.method = taken'[1].method /\ req'.url = taken'[1].url
        BY <3>3, <4>2
      <4> QED
        BY <3>12, <4>1, <4>3 DEF LineIsFirst
    <3>14. busy' \in {"parsing", "parsed"}
      BY <3>1 DEF Return
    <3>15. NotBegun'
      BY <3>3, <3>14 DEF NotBegun, NoLineYet
    <3> QED
      BY <2>2, <3>11, <3>13, <3>15
  <2> QED
    BY <2>3, <2>4
<1>5. (crlf = 0 /\ Again) \/ (crlf > 0 /\ Retrieve(crlf + 1))
  BY <1>2 DEF ParseRequestLine
<1> QED
  BY <1>3, <1>4, <1>5

\* Every other step of the parser leaves the line alone.
LEMMA OtherPartsFacts ==
  ASSUME ParserTypes,
         \/ ParseRequestHeader
         \/ ParseContentLength \/ ParseNoContent \/ ParseOtherEncoding
         \/ ChunkLength \/ ChunkData \/ ChunkDone
  PROVE  /\ req.state # "CHECK_REQUESTLINE"
         /\ LineLeft
         /\ \E n \in 0 .. Len(buf) : Taken(n)
         /\ busy' \in {"parsing", "parsed"}
<1> USE DEF Parsing
<1>0. Again => LineLeft /\ (\E n \in 0 .. Len(buf) : Taken(n)) /\ busy' \in {"parsing", "parsed"}
  BY AgainFacts
<1>1. ASSUME ParseRequestHeader
      PROVE  /\ req.state # "CHECK_REQUESTLINE"
             /\ LineLeft
             /\ \E n \in 0 .. Len(buf) : Taken(n)
             /\ busy' \in {"parsing", "parsed"}
  <2>1. req.state = "CHECK_HEADER"
    BY <1>1 DEF ParseRequestHeader
  <2>2. PICK end : end = Find(buf, TwoCRLF)
    OBVIOUS
  <2>3. PICK headers : headers = req.headers \o [i \in 1 .. Added |-> buf[3 * i - 2]]
    OBVIOUS
  <2>r. PICK r : r = [req EXCEPT !.headers = headers]
    OBVIOUS
  <2>q. /\ DOMAIN r = RequestFields /\ r.chunkSize \in Nat
        /\ r.method = req.method /\ r.url = req.url /\ r.state = "CHECK_HEADER"
    BY <2>1, <2>r DEF ParserTypes, RequestFields
  <2>4. CASE end = 0 /\ Again
    BY <1>0, <2>1, <2>4
  <2>5. CASE /\ end > 0 /\ Retrieve(end + 3)
             /\ \/ Return([r EXCEPT !.ret = "OK_REQUEST", !.state = "CHECK_CONTENT"])
                \/ Refuse(r)
    <3>1. end \in 1 .. Len(buf) /\ end + 3 <= Len(buf) /\ end + 3 \in Nat
      BY <2>2, <2>5, FindFits DEF ParserTypes
    <3>2. \E n \in 0 .. Len(buf) : Taken(n)
      BY <2>5, <3>1, SomeTaken
    <3>3. CASE Refuse(r)
      BY <2>1, <2>q, <3>2, <3>3, RefuseFacts
    <3>4. CASE Return([r EXCEPT !.ret = "OK_REQUEST", !.state = "CHECK_CONTENT"])
      <4>1. req' = [r EXCEPT !.ret = "OK_REQUEST", !.state = "CHECK_CONTENT"]
        BY <3>4 DEF Return
      <4>2. LineLeft
        BY <2>1, <2>q, <4>1 DEF LineLeft, RequestFields
      <4>3. busy' \in {"parsing", "parsed"}
        BY <3>4 DEF Return
      <4> QED
        BY <2>1, <3>2, <4>2, <4>3
    <3> QED
      BY <2>5, <3>3, <3>4
  <2>6. \/ end = 0 /\ Again
        \/ /\ end > 0 /\ Retrieve(end + 3)
           /\ \/ Return([r EXCEPT !.ret = "OK_REQUEST", !.state = "CHECK_CONTENT"])
              \/ Refuse(r)
    BY <1>1, <2>2, <2>3, <2>r DEF ParseRequestHeader
  <2> QED
    BY <2>4, <2>5, <2>6
<1>2. ASSUME ParseContentLength
      PROVE  /\ req.state # "CHECK_REQUESTLINE"
             /\ LineLeft
             /\ \E n \in 0 .. Len(buf) : Taken(n)
             /\ busy' \in {"parsing", "parsed"}
  <2>1. req.state = "CHECK_CONTENT"
    BY <1>2 DEF ParseContentLength
  <2>2. PICK missing : missing = contentLength(req) - Len(req.body)
    OBVIOUS
  <2>3. CASE Again
    BY <1>0, <2>1, <2>3
  <2>4. CASE /\ missing \in 0 .. Len(buf)
             /\ Retrieve(missing) /\ Content(req.body \o SubSeq(buf, 1, missing))
    <3>1. missing \in Nat /\ missing <= Len(buf)
      BY <2>4 DEF ParserTypes
    <3> QED
      BY <2>1, <2>4, <3>1, SomeTaken, ContentFacts
  <2> QED
    BY <1>2, <2>2, <2>3, <2>4 DEF ParseContentLength
<1>3. ASSUME ParseNoContent
      PROVE  /\ req.state # "CHECK_REQUESTLINE"
             /\ LineLeft
             /\ \E n \in 0 .. Len(buf) : Taken(n)
             /\ busy' \in {"parsing", "parsed"}
  <2>1. req.state = "CHECK_CONTENT" /\ \E n \in 0 .. Len(buf) : Taken(n)
    BY <1>3, NothingTaken DEF ParseNoContent
  <2>2. CASE Bad
    BY <2>1, <2>2, BadFacts
  <2>3. CASE Return([req EXCEPT !.ret = "OK_REQUEST", !.state = "CHECK_DONE"])
    <3>1. req' = [req EXCEPT !.ret = "OK_REQUEST", !.state = "CHECK_DONE"]
      BY <2>3 DEF Return
    <3>2. LineLeft
      BY <2>1, <3>1 DEF LineLeft, ParserTypes, RequestFields
    <3>3. busy' \in {"parsing", "parsed"}
      BY <2>3 DEF Return
    <3> QED
      BY <2>1, <3>2, <3>3
  <2> QED
    BY <1>3, <2>2, <2>3 DEF ParseNoContent
<1>4. ASSUME ParseOtherEncoding
      PROVE  /\ req.state # "CHECK_REQUESTLINE"
             /\ LineLeft
             /\ \E n \in 0 .. Len(buf) : Taken(n)
             /\ busy' \in {"parsing", "parsed"}
  BY <1>4, NothingTaken, BadFacts DEF ParseOtherEncoding
<1>5. ASSUME ChunkLength
      PROVE  /\ req.state # "CHECK_REQUESTLINE"
             /\ LineLeft
             /\ \E n \in 0 .. Len(buf) : Taken(n)
             /\ busy' \in {"parsing", "parsed"}
  <2>1. req.state = "CHECK_CONTENT" /\ busy = "parsing"
    BY <1>5 DEF ChunkLength, ParsingChunk
  <2>2. PICK crlf : crlf = Find(buf, CRLF)
    OBVIOUS
  <2>3. CASE Again
    BY <1>0, <2>1, <2>3
  <2>4. CASE Bad /\ RetrieveNothing
    BY <2>1, <2>4, NothingTaken, BadFacts
  <2>5. CASE /\ crlf = 2 /\ buf[1].k = "size" /\ ~(buf[1].n < 0)
             /\ Retrieve(3)
             /\ req' = [req EXCEPT !.chunkSize = buf[1].n,
                                   !.chunkState = IF buf[1].n = 0 THEN "DONE" ELSE "NO_DATA"]
             /\ UNCHANGED busy
    <3>1. 3 \in Nat /\ 3 <= Len(buf) /\ 1 \in 1 .. Len(buf)
      <4>1. crlf = 2 /\ crlf # 0
        BY <2>5
      <4>2. crlf \in 1 .. Len(buf) /\ crlf + 1 <= Len(buf)
        BY <2>2, <4>1, FindFits DEF ParserTypes
      <4> QED
        BY <4>1, <4>2 DEF ParserTypes
    <3>2. \E n \in 0 .. Len(buf) : Taken(n)
      BY <2>5, <3>1, SomeTaken
    <3>3. buf[1].n \in Nat
      <4>1. buf[1] \in Given
        BY <3>1 DEF ParserTypes
      <4>2. PICK t \in Tokens : t = buf[1]
        BY <4>1, GivenFacts
      <4>3. t.n \in Int
        BY <2>5, <4>2, TokenFacts
      <4> QED
        BY <2>5, <4>2, <4>3
    <3>4. PICK state : state = IF buf[1].n = 0 THEN "DONE" ELSE "NO_DATA"
      OBVIOUS
    <3>5. req' = [req EXCEPT !.chunkSize = buf[1].n, !.chunkState = state]
      BY <2>5, <3>4
    <3>6. LineLeft
      BY <2>1, <3>3, <3>5 DEF LineLeft, ParserTypes, RequestFields
    <3> QED
      BY <2>1, <2>5, <3>2, <3>6
  <2> QED
    BY <1>5, <2>2, <2>3, <2>4, <2>5 DEF ChunkLength
<1>6. ASSUME ChunkData
      PROVE  /\ req.state # "CHECK_REQUESTLINE"
             /\ LineLeft
             /\ \E n \in 0 .. Len(buf) : Taken(n)
             /\ busy' \in {"parsing", "parsed"}
  <2>1. req.state = "CHECK_CONTENT" /\ busy = "parsing"
    BY <1>6 DEF ChunkData, ParsingChunk
  <2>2. CASE Again
    BY <1>0, <2>1, <2>2
  <2>3. CASE Bad /\ RetrieveNothing
    BY <2>1, <2>3, NothingTaken, BadFacts
  <2>4. CASE /\ Len(buf) >= req.chunkSize + 2
             /\ Retrieve(req.chunkSize + 2)
             /\ req' = [req EXCEPT !.body = @ \o SubSeq(buf, 1, req.chunkSize),
                                   !.chunkState = "NO_LEN"]
             /\ UNCHANGED busy
    <3>1. req.chunkSize + 2 \in Nat /\ req.chunkSize + 2 <= Len(buf)
      BY <2>4 DEF ParserTypes
    <3>2. \E n \in 0 .. Len(buf) : Taken(n)
      BY <2>4, <3>1, SomeTaken
    <3>3. PICK body : body = req.body \o SubSeq(buf, 1, req.chunkSize)
      OBVIOUS
    <3>4. req' = [req EXCEPT !.body = body, !.chunkState = "NO_LEN"]
      BY <2>4, <3>3
    <3>5. LineLeft
      BY <2>1, <3>4 DEF LineLeft, ParserTypes, RequestFields
    <3> QED
      BY <2>1, <2>4, <3>2, <3>5
  <2> QED
    BY <1>6, <2>2, <2>3, <2>4 DEF ChunkData
<1>7. ASSUME ChunkDone
      PROVE  /\ req.state # "CHECK_REQUESTLINE"
             /\ LineLeft
             /\ \E n \in 0 .. Len(buf) : Taken(n)
             /\ busy' \in {"parsing", "parsed"}
  <2>1. req.state = "CHECK_CONTENT" /\ busy = "parsing"
    BY <1>7 DEF ChunkDone, ParsingChunk
  <2>2. CASE Again
    BY <1>0, <2>1, <2>2
  <2>3. CASE Bad /\ RetrieveNothing
    BY <2>1, <2>3, NothingTaken, BadFacts
  <2>4. CASE Len(buf) >= 2 /\ Retrieve(2) /\ Content(req.body)
    <3>1. 2 \in Nat /\ 2 <= Len(buf)
      BY <2>4 DEF ParserTypes
    <3> QED
      BY <2>1, <2>4, <3>1, SomeTaken, ContentFacts
  <2> QED
    BY <1>7, <2>2, <2>3, <2>4 DEF ChunkDone
<1> QED
  BY <1>1, <1>2, <1>3, <1>4, <1>5, <1>6, <1>7

\* Whatever step the parser makes, it takes the front of the buffer and knows
\* the line of the request that it is in.
LEMMA ParseFacts ==
  ASSUME ParserTypes, LineIsFirst, NoLineYet, UNCHANGED stream, ParseStep
  PROVE  /\ \E n \in 0 .. Len(buf) : Taken(n)
         /\ ParserTypes' /\ LineIsFirst' /\ NotBegun'
<1>1. CASE ParseRequestLine
  BY <1>1, RequestLineFacts
<1>2. CASE \/ ParseRequestHeader
           \/ ParseContentLength \/ ParseNoContent \/ ParseOtherEncoding
           \/ ChunkLength \/ ChunkData \/ ChunkDone
  <2>1. /\ req.state # "CHECK_REQUESTLINE"
        /\ LineLeft
        /\ \E n \in 0 .. Len(buf) : Taken(n)
        /\ busy' \in {"parsing", "parsed"}
    BY <1>2, OtherPartsFacts
  <2>2. ParserTypes' /\ LineIsFirst'
    BY <2>1, LineLeftFacts
  <2>3. req'.state # "CHECK_REQUESTLINE"
    BY <2>1 DEF LineLeft
  <2>4. NotBegun'
    BY <2>1, <2>3 DEF NotBegun, NoLineYet
  <2> QED
    BY <2>1, <2>2, <2>4
<1> QED
  BY <1>1, <1>2 DEF ParseStep

-----------------------------------------------------------------------------
(* The parser against what a request is.                                   *)

\* A line end, token by token,
LEMMA AtLineEnd ==
  ASSUME NEW s, Len(s) \in Nat, NEW i \in Int
  PROVE  At(s, i, CRLF) <=> i + 1 <= Len(s) /\ s[i].k = "CR" /\ s[i + 1].k = "LF"
<1>1. At(s, i, CRLF) <=> i + 2 - 1 <= Len(s) /\ \A j \in {1, 2} : s[i + j - 1].k = CRLF[j]
  BY DEF At, CRLF
<1>2. CRLF[1] = "CR" /\ CRLF[2] = "LF"
  BY DEF CRLF
<1>3. i + 1 - 1 = i /\ i + 2 - 1 = i + 1
  OBVIOUS
<1>4. (\A j \in {1, 2} : s[i + j - 1].k = CRLF[j]) <=> s[i].k = "CR" /\ s[i + 1].k = "LF"
  BY <1>2, <1>3
<1> QED
  BY <1>1, <1>3, <1>4

\* and two of them.
LEMMA AtTwoLineEnds ==
  ASSUME NEW s, Len(s) \in Nat, NEW i \in Int
  PROVE  At(s, i, TwoCRLF) <=> At(s, i, CRLF) /\ At(s, i + 2, CRLF)
<1>1. At(s, i, TwoCRLF) <=> i + 4 - 1 <= Len(s) /\ \A j \in {1, 2, 3, 4} : s[i + j - 1].k = TwoCRLF[j]
  <2>1. Len(TwoCRLF) = 4 /\ DOMAIN TwoCRLF = {1, 2, 3, 4}
    BY DEF TwoCRLF
  <2> QED
    BY <2>1 DEF At
<1>2. TwoCRLF[1] = "CR" /\ TwoCRLF[2] = "LF" /\ TwoCRLF[3] = "CR" /\ TwoCRLF[4] = "LF"
  BY DEF TwoCRLF
<1>3. i + 1 - 1 = i /\ i + 2 - 1 = i + 1 /\ i + 3 - 1 = i + 2 /\ i + 4 - 1 = i + 3
      /\ (i + 2) + 1 = i + 3
  OBVIOUS
<1>4. (\A j \in {1, 2, 3, 4} : s[i + j - 1].k = TwoCRLF[j])
        <=> /\ s[i].k = "CR" /\ s[i + 1].k = "LF" /\ s[i + 2].k = "CR" /\ s[i + 3].k = "LF"
  BY <1>2, <1>3
<1>5. At(s, i, CRLF) <=> i + 1 <= Len(s) /\ s[i].k = "CR" /\ s[i + 1].k = "LF"
  BY AtLineEnd
<1>6. At(s, i + 2, CRLF) <=> i + 3 <= Len(s) /\ s[i + 2].k = "CR" /\ s[i + 3].k = "LF"
  BY AtLineEnd, <1>3
<1>7. i + 3 <= Len(s) => i + 1 <= Len(s)
  OBVIOUS
<1> QED
  BY <1>1, <1>3, <1>4, <1>5, <1>6, <1>7

\* Where Find finds nothing there is nothing, and it finds the first one.
LEMMA FindFirst ==
  ASSUME NEW S, NEW s \in Seq(S), NEW kinds, NEW j \in 1 .. Len(s), At(s, j, kinds)
  PROVE  Find(s, kinds) \in 1 .. j
<1>1. PICK places : places = {i \in DOMAIN s : At(s, i, kinds)}
  OBVIOUS
<1>2. j \in places /\ places \subseteq Nat /\ places \subseteq 1 .. Len(s)
  BY <1>1
<1>3. Find(s, kinds) = CHOOSE i \in places : \A k \in places : i <= k
  BY <1>1, <1>2 DEF Find
<1>4. \E i \in places : \A k \in places : i <= k
  BY <1>2, SmallestNat
<1>5. Find(s, kinds) \in places /\ \A k \in places : Find(s, kinds) <= k
  BY <1>3, <1>4
<1>6. PICK f : f = Find(s, kinds)
  OBVIOUS
<1>7. f \in 1 .. Len(s) /\ f <= j
  BY <1>2, <1>5, <1>6
<1> QED
  BY <1>6, <1>7

\* s begins with t.
Begins(s, t) ==
    /\ s \in Seq(Given) /\ t \in Seq(Given)
    /\ Len(t) <= Len(s)
    /\ \A i \in 1 .. Len(t) : s[i] = t[i]

\* s is t and then some of b.
Reads(s, t, b) ==
    /\ Begins(s, t)
    /\ b \in Seq(Given)
    /\ Len(s) <= Len(t) + Len(b)
    /\ \A i \in 1 .. Len(s) - Len(t) : s[Len(t) + i] = b[i]

\* What was taken and a part of the buffer.
LEMMA ReadsFacts ==
  ASSUME NEW t \in Seq(Given), NEW b \in Seq(Given), NEW m \in 0 .. Len(b)
  PROVE  Reads(t \o SubSeq(b, 1, m), t, b) /\ Len(t \o SubSeq(b, 1, m)) = Len(t) + m
<1>1. PICK x : x = SubSeq(b, 1, m)
  OBVIOUS
<1>2. x \in Seq(Given) /\ Len(x) = m /\ \A i \in 1 .. m : x[i] = b[i]
  BY <1>1
<1>3. /\ t \o x \in Seq(Given) /\ Len(t \o x) = Len(t) + Len(x)
      /\ \A i \in 1 .. Len(t) + Len(x) : (t \o x)[i] = IF i <= Len(t) THEN t[i] ELSE x[i - Len(t)]
  BY <1>2, ConcatProperties
<1>4. PICK u : u = t \o x
  OBVIOUS
<1>5. u \in Seq(Given) /\ Len(u) = Len(t) + m /\ Len(t) \in Nat /\ Len(b) \in Nat /\ m \in Nat
      /\ m <= Len(b)
  BY <1>2, <1>3, <1>4
<1>6. ASSUME NEW i \in 1 .. Len(t) PROVE u[i] = t[i]
  <2>1. i \in 1 .. Len(t) + Len(x) /\ i <= Len(t)
    BY <1>2, <1>5
  <2> QED
    BY <1>3, <1>4, <2>1
<1>7. ASSUME NEW i \in 1 .. m PROVE u[Len(t) + i] = b[i]
  <2>1. Len(t) + i \in 1 .. Len(t) + Len(x) /\ ~(Len(t) + i <= Len(t)) /\ Len(t) + i - Len(t) = i
    BY <1>2, <1>5
  <2> QED
    BY <1>2, <1>3, <1>4, <2>1
<1>8. Len(u) - Len(t) = m /\ Len(t) <= Len(u) /\ Len(u) <= Len(t) + Len(b)
  BY <1>5
<1>9. Reads(u, t, b)
  BY <1>5, <1>6, <1>7, <1>8 DEF Reads, Begins
<1> QED
  BY <1>1, <1>4, <1>5, <1>9

\* All begins with itself,
LEMMA BeginsItself ==
  ASSUME NEW t \in Seq(Given)
  PROVE  Begins(t, t)
BY DEF Begins

\* and what begins with s begins with what s begins with.
LEMMA BeginsOn ==
  ASSUME NEW s, NEW t, NEW u, Begins(u, s), Begins(s, t)
  PROVE  Begins(u, t)
<1>1. Len(t) \in Nat /\ Len(s) \in Nat /\ Len(u) \in Nat
  BY DEF Begins
<1>2. Len(t) <= Len(u)
  BY <1>1 DEF Begins
<1>3. ASSUME NEW i \in 1 .. Len(t) PROVE u[i] = t[i]
  <2>1. i \in 1 .. Len(s)
    BY <1>1 DEF Begins
  <2> QED
    BY <2>1 DEF Begins
<1> QED
  BY <1>2, <1>3 DEF Begins

\* What is at a place of t is there in all that begins with t.
LEMMA StaysAt ==
  ASSUME NEW s, NEW t, Begins(s, t), NEW i \in Nat \ {0}, i + 1 <= Len(t)
  PROVE  At(s, i, CRLF) <=> At(t, i, CRLF)
<1>1. Len(s) \in Nat /\ Len(t) \in Nat /\ Len(t) <= Len(s)
  BY DEF Begins
<1>2. i \in 1 .. Len(t) /\ i + 1 \in 1 .. Len(t) /\ i + 1 <= Len(s)
  BY <1>1
<1>3. At(s, i, CRLF) <=> i + 1 <= Len(s) /\ s[i].k = "CR" /\ s[i + 1].k = "LF"
  BY <1>1, AtLineEnd
<1>4. At(t, i, CRLF) <=> i + 1 <= Len(t) /\ t[i].k = "CR" /\ t[i + 1].k = "LF"
  BY <1>1, AtLineEnd
<1>5. s[i] = t[i] /\ s[i + 1] = t[i + 1]
  BY <1>2 DEF Begins
<1> QED
  BY <1>2, <1>3, <1>4, <1>5

\* What the headers say depends on the headers only.
LEMMA SameHeaders ==
  ASSUME NEW r, NEW q, r.headers = q.headers, NEW name
  PROVE  /\ Has(r, name) <=> Has(q, name)
         /\ Get(r, name) = Get(q, name)
         /\ contentLength(r) = contentLength(q)
         /\ chunked(r) <=> chunked(q)
<1>1. \A other : Under(r, other) = Under(q, other)
  BY DEF Under
<1>2. \A other : Has(r, other) <=> Has(q, other)
  BY <1>1 DEF Has
<1>3. \A other : LastUnder(r, other) = LastUnder(q, other)
  BY <1>1 DEF LastUnder
<1>4. \A other : Get(r, other) = Get(q, other)
  BY <1>2, <1>3 DEF Get
<1>5. contentLength(r) = contentLength(q)
  BY <1>3 DEF contentLength
<1>6. chunked(r) <=> chunked(q)
  BY <1>4 DEF chunked
<1> QED
  BY <1>2, <1>4, <1>5, <1>6

\* So does whether some content is what they announce.
LEMMA SameContent ==
  ASSUME NEW r, NEW q, r.headers = q.headers, NEW s, NEW from
  PROVE  IsContent(s, r, from) <=> IsContent(s, q, from)
<1>1. /\ \A name : (Has(r, name) <=> Has(q, name)) /\ Get(r, name) = Get(q, name)
      /\ contentLength(r) = contentLength(q) /\ (chunked(r) <=> chunked(q))
  BY SameHeaders
<1>2. \A more, i : IsClosed(s, r, more, i) <=> IsClosed(s, q, more, i)
  BY <1>1 DEF IsClosed
<1> QED
  BY <1>1, <1>2 DEF IsContent

\* The head of the request r was taken: n header lines.
HeadTaken(r, t, n) ==
    /\ n \in 1 .. MaxHeaderLen + 1
    /\ IsHead(t, n)
    /\ r.headers = [i \in 1 .. n |-> t[3 * i + 1]]

\* The header lines of a head.
LEMMA HeadFacts ==
  ASSUME NEW S, NEW t \in Seq(S), NEW n \in Nat
  PROVE  IsHead(t, n) <=>
            /\ 3 * n + 5 <= Len(t)
            /\ GoodLine(t[1]) /\ At(t, 2, CRLF) /\ At(t, 3 * n + 4, CRLF)
            /\ \A i \in 1 .. n : /\ t[3 * i + 1].k = "header" /\ t[3 * i + 1].name # "none"
                                 /\ At(t, 3 * i + 2, CRLF)
<1>1. ASSUME NEW i \in 1 .. n, 3 * n + 5 <= Len(t)
      PROVE  HeaderLine(t, 3 * i + 1) <=>
                /\ t[3 * i + 1].k = "header" /\ t[3 * i + 1].name # "none"
                /\ At(t, 3 * i + 2, CRLF)
  <2>1. 3 * i + 1 + 2 <= Len(t) /\ 3 * i + 1 + 1 = 3 * i + 2
    BY <1>1
  <2> QED
    BY <2>1 DEF HeaderLine
<1> QED
  BY <1>1 DEF IsHead

\* Once the head was taken, all that begins with it has the same head.
LEMMA OneHead ==
  ASSUME NEW s, NEW t, Begins(s, t),
         NEW n \in Nat \ {0}, NEW m \in Nat \ {0}, IsHead(t, n)
  PROVE  /\ IsHead(s, m) <=> m = n
         /\ \A i \in 1 .. n : s[3 * i + 1] = t[3 * i + 1]
<1>1. /\ s \in Seq(Given) /\ t \in Seq(Given) /\ Len(t) <= Len(s)
      /\ Len(s) \in Nat /\ Len(t) \in Nat
      /\ \A i \in 1 .. Len(t) : s[i] = t[i]
  BY DEF Begins
<1>2. /\ 3 * n + 5 <= Len(t)
      /\ GoodLine(t[1]) /\ At(t, 2, CRLF) /\ At(t, 3 * n + 4, CRLF)
      /\ \A i \in 1 .. n : /\ t[3 * i + 1].k = "header" /\ t[3 * i + 1].name # "none"
                           /\ At(t, 3 * i + 2, CRLF)
  BY <1>1, HeadFacts
<1>3. \A i \in 1 .. n : s[3 * i + 1] = t[3 * i + 1]
  BY <1>1, <1>2
<1>4. IsHead(s, n)
  <2>1. 3 * n + 5 <= Len(s) /\ s[1] = t[1]
    BY <1>1, <1>2
  <2>2. At(s, 2, CRLF)
    <3>1. 2 \in Nat \ {0} /\ 2 + 1 <= Len(t)
      BY <1>1, <1>2
    <3> QED
      BY <1>2, <3>1, StaysAt
  <2>3. At(s, 3 * n + 4, CRLF)
    <3>1. 3 * n + 4 \in Nat \ {0} /\ 3 * n + 4 + 1 <= Len(t)
      BY <1>1, <1>2
    <3> QED
      BY <1>2, <3>1, StaysAt
  <2>4. ASSUME NEW i \in 1 .. n PROVE At(s, 3 * i + 2, CRLF)
    <3>1. PICK j \in Nat \ {0} : j = 3 * i + 2
      OBVIOUS
    <3>2. 3 * i + 3 <= 3 * n + 5 /\ 3 * n + 5 <= Len(t) /\ j + 1 = 3 * i + 3
      BY <1>2, <3>1
    <3>3. j + 1 <= Len(t)
      BY <1>1, <3>2
    <3>4. At(t, j, CRLF)
      BY <1>2, <3>1
    <3>5. At(s, j, CRLF)
      BY <3>3, <3>4, StaysAt
    <3> QED
      BY <3>1, <3>5
  <2> QED
    BY <1>1, <1>2, <1>3, <2>1, <2>2, <2>3, <2>4, HeadFacts
<1>5. ASSUME IsHead(s, m) PROVE m = n
  <2>1. /\ 3 * m + 5 <= Len(s) /\ At(s, 3 * m + 4, CRLF)
        /\ \A i \in 1 .. m : s[3 * i + 1].k = "header"
    BY <1>1, <1>5, HeadFacts
  <2>2. s[3 * m + 4].k = "CR"
    <3>1. 3 * m + 4 \in Int
      OBVIOUS
    <3> QED
      BY <1>1, <2>1, <3>1, AtLineEnd
  <2>3. s[3 * n + 4].k = "CR"
    <3>1. At(s, 3 * n + 4, CRLF) /\ 3 * n + 4 \in Int
      BY <1>1, <1>4, HeadFacts
    <3> QED
      BY <1>1, <3>1, AtLineEnd
  <2>4. CASE m < n
    <3>1. m + 1 \in 1 .. n /\ 3 * (m + 1) + 1 = 3 * m + 4
      BY <2>4
    <3>2. s[3 * m + 4].k = "header"
      BY <1>2, <1>3, <3>1
    <3> QED
      BY <2>2, <3>2
  <2>5. CASE n < m
    <3>1. n + 1 \in 1 .. m /\ 3 * (n + 1) + 1 = 3 * n + 4
      BY <2>5
    <3>2. s[3 * n + 4].k = "header"
      BY <2>1, <3>1
    <3> QED
      BY <2>3, <3>2
  <2> QED
    BY <2>4, <2>5
<1> QED
  BY <1>3, <1>4, <1>5

\* Whether all of a request is there is then a matter of its content,
LEMMA ContentDecides ==
  ASSUME NEW s, NEW t, Begins(s, t), NEW r, NEW n, HeadTaken(r, t, n)
  PROVE  IsRequest(s) <=> IsContent(s, r, 3 * n + 6)
<1>1. n \in Nat \ {0} /\ n \in 1 .. MaxHeaderLen + 1 /\ IsHead(t, n)
  BY HttpRequestAssumption DEF HeadTaken
<1>2. ASSUME NEW m \in 1 .. MaxHeaderLen + 1 PROVE IsHead(s, m) <=> m = n
  <2>1. m \in Nat \ {0}
    BY HttpRequestAssumption
  <2> QED
    BY <1>1, <2>1, OneHead
<1>3. IsRequest(s) <=> IsContent(s, HeadOf(s, n), 3 * n + 6)
  BY <1>1, <1>2 DEF IsRequest
<1>4. \A i \in 1 .. n : s[3 * i + 1] = t[3 * i + 1]
  BY <1>1, OneHead
<1>5. HeadOf(s, n).headers = [i \in 1 .. n |-> s[3 * i + 1]]
  BY DEF HeadOf, NewRequest
<1>6. HeadOf(s, n).headers = r.headers
  BY <1>4, <1>5 DEF HeadTaken
<1> QED
  BY <1>3, <1>6, SameContent

\* and none begins with a line that an empty line follows at once.
LEMMA NoHeader ==
  ASSUME NEW s, NEW t, Begins(s, t), At(t, 4, CRLF)
  PROVE  At(s, 4, CRLF) /\ ~IsRequest(s)
<1>1. /\ s \in Seq(Given) /\ Len(s) \in Nat /\ Len(t) \in Nat
  BY DEF Begins
<1>2. 4 + 1 <= Len(t) /\ 4 \in Nat \ {0}
  BY <1>1, AtLineEnd
<1>3. At(s, 4, CRLF)
  BY <1>2, StaysAt
<1>4. s[4].k = "CR"
  BY <1>1, <1>3, AtLineEnd
<1>5. ASSUME NEW n \in 1 .. MaxHeaderLen + 1, IsHead(s, n) PROVE FALSE
  <2>1. n \in Nat /\ 1 \in 1 .. n /\ 3 * 1 + 1 = 4
    BY HttpRequestAssumption
  <2>2. s[3 * 1 + 1].k = "header"
    BY <1>1, <1>5, <2>1, HeadFacts
  <2> QED
    BY <1>4, <2>1, <2>2
<1> QED
  BY <1>3, <1>5 DEF IsRequest

\* The places where a chunk may start.
Sizes(s, from) == {i \in from .. Len(s) : s[i].k = "size"}

\* The size of a chunk, and its line end.
SizeAt(t, i, n) ==
    /\ t[i].k = "size" /\ t[i].n = n /\ t[i].digits <= chunk_size_str_limit
    /\ At(t, i + 1, CRLF)

\* A chunk that is not empty, and one of starts that follows it.
FullChunk(t, i, starts) ==
    \E n \in Nat \ {0} :
        SizeAt(t, i, n) /\ At(t, i + 3 + n, CRLF) /\ i + 5 + n \in starts

\* There are chunks from from up to p,
Reached(t, from, p) ==
    \E starts \in SUBSET (from .. p - 1) :
        /\ from \in starts \cup {p}
        /\ \A i \in starts : FullChunk(t, i, starts \cup {p})

\* and what begins like this and is chunked has a chunk at p.
Forced(t, from, p) ==
    \A s : Begins(s, t) =>
        \A starts \in SUBSET Sizes(s, from) : AreChunks(s, starts, from) => p \in starts

\* More input changes neither.
LEMMA ReachedOn ==
  ASSUME NEW s, NEW t, Begins(s, t), NEW from \in Nat \ {0}, NEW p \in Nat, p - 1 <= Len(t),
         Reached(t, from, p)
  PROVE  Reached(s, from, p)
<1>1. PICK starts \in SUBSET (from .. p - 1) :
            /\ from \in starts \cup {p}
            /\ \A i \in starts : FullChunk(t, i, starts \cup {p})
  BY DEF Reached
<1>2. ASSUME NEW i \in starts PROVE FullChunk(s, i, starts \cup {p})
  <2>1. PICK n \in Nat \ {0} :
            SizeAt(t, i, n) /\ At(t, i + 3 + n, CRLF) /\ i + 5 + n \in starts \cup {p}
    BY <1>1 DEF FullChunk
  <2>2. i \in Nat \ {0} /\ i + 5 + n <= p /\ Len(t) \in Nat
    BY <1>1, <2>1 DEF Begins
  <2>3. s[i] = t[i]
    BY <2>2 DEF Begins
  <2>4. At(s, i + 1, CRLF) <=> At(t, i + 1, CRLF)
    <3>1. i + 1 \in Nat \ {0} /\ i + 1 + 1 <= Len(t)
      BY <2>2
    <3> QED
      BY <3>1, StaysAt
  <2>5. At(s, i + 3 + n, CRLF) <=> At(t, i + 3 + n, CRLF)
    <3>1. i + 3 + n \in Nat \ {0} /\ i + 3 + n + 1 <= Len(t)
      BY <2>2
    <3> QED
      BY <3>1, StaysAt
  <2> QED
    BY <2>1, <2>3, <2>4, <2>5 DEF FullChunk, SizeAt
<1> QED
  BY <1>1, <1>2 DEF Reached

\* Nor what is forced.
LEMMA ForcedOn ==
  ASSUME NEW s, NEW t, Begins(s, t), NEW from, NEW p, Forced(t, from, p)
  PROVE  Forced(s, from, p)
BY BeginsOn DEF Forced

\* The first chunk is forced,
LEMMA FirstForced ==
  ASSUME NEW t, NEW from \in Nat
  PROVE  Forced(t, from, from) /\ Reached(t, from, from)
<1>1. Forced(t, from, from)
  BY DEF Forced, AreChunks
<1>2. {} \in SUBSET (from .. from - 1) /\ from \in {} \cup {from}
  OBVIOUS
<1>3. \A i \in {} : FullChunk(t, i, {} \cup {from})
  OBVIOUS
<1> QED
  BY <1>1, <1>2, <1>3 DEF Reached

\* and so is the one that follows a chunk.
LEMMA NextReached ==
  ASSUME NEW t \in Seq(Given), NEW from \in Nat \ {0}, NEW p \in Nat, p >= from,
         NEW n \in Nat \ {0},
         SizeAt(t, p, n), At(t, p + 3 + n, CRLF),
         Reached(t, from, p), Forced(t, from, p)
  PROVE  Reached(t, from, p + 5 + n) /\ Forced(t, from, p + 5 + n)
<1>1. PICK q \in Nat : q = p + 5 + n
  OBVIOUS
<1>2. PICK starts \in SUBSET (from .. p - 1) :
            /\ from \in starts \cup {p}
            /\ \A i \in starts : FullChunk(t, i, starts \cup {p})
  BY DEF Reached
<1>3. PICK more : more = starts \cup {p}
  OBVIOUS
<1>4. more \in SUBSET (from .. q - 1) /\ from \in more \cup {q}
  BY <1>1, <1>2, <1>3
<1>5. ASSUME NEW i \in more PROVE FullChunk(t, i, more \cup {q})
  <2>1. CASE i \in starts
    <3>1. PICK k \in Nat \ {0} :
              SizeAt(t, i, k) /\ At(t, i + 3 + k, CRLF) /\ i + 5 + k \in more
      BY <1>2, <1>3, <2>1 DEF FullChunk
    <3> QED
      BY <3>1 DEF FullChunk
  <2>2. CASE i = p
    <3>1. SizeAt(t, i, n) /\ At(t, i + 3 + n, CRLF) /\ i + 5 + n \in more \cup {q}
      BY <1>1, <2>2
    <3> QED
      BY <3>1 DEF FullChunk
  <2> QED
    BY <1>3, <2>1, <2>2
<1>6. Reached(t, from, q)
  BY <1>4, <1>5 DEF Reached
<1>7. ASSUME NEW s, Begins(s, t), NEW S \in SUBSET Sizes(s, from), AreChunks(s, S, from)
      PROVE  q \in S
  <2>1. p \in S /\ IsChunk(s, S, p)
    BY <1>7 DEF Forced, AreChunks
  <2>2. p + 1 \in Int /\ Len(t) \in Nat
    OBVIOUS
  <2>3. At(t, p + 1, CRLF)
    BY DEF SizeAt
  <2>4. p + 1 + 1 <= Len(t)
    BY <2>2, <2>3, AtLineEnd
  <2>5. p \in 1 .. Len(t)
    BY <2>2, <2>4
  <2>6. s[p].n = n
    BY <1>7, <2>5 DEF Begins, SizeAt
  <2>7. p + 5 + s[p].n \in S
    BY <2>1, <2>6 DEF IsChunk
  <2> QED
    BY <1>1, <2>6, <2>7
<1>8. Forced(t, from, q)
  BY <1>7 DEF Forced
<1> QED
  BY <1>1, <1>6, <1>8

\* With the empty chunk the content is complete,
LEMMA LastChunk ==
  ASSUME NEW t \in Seq(Given), NEW from \in Nat \ {0}, NEW p \in Nat, p >= from,
         SizeAt(t, p, 0), At(t, p + 3, CRLF), Len(t) = p + 4, Reached(t, from, p)
  PROVE  IsChunked(t, from)
<1>1. PICK starts \in SUBSET (from .. p - 1) :
            /\ from \in starts \cup {p}
            /\ \A i \in starts : FullChunk(t, i, starts \cup {p})
  BY DEF Reached
<1>2. PICK all : all = starts \cup {p}
  OBVIOUS
<1>3. ASSUME NEW i \in all
      PROVE  i \in from .. Len(t) /\ t[i].k = "size" /\ IsChunk(t, all, i)
  <2>1. CASE i \in starts
    <3>1. PICK n \in Nat \ {0} : SizeAt(t, i, n) /\ At(t, i + 3 + n, CRLF) /\ i + 5 + n \in all
      BY <1>1, <1>2, <2>1 DEF FullChunk
    <3>2. i \in from .. Len(t)
      BY <1>1, <2>1
    <3>3. t[i].k = "size" /\ t[i].n = n /\ t[i].digits <= chunk_size_str_limit
          /\ At(t, i + 1, CRLF)
      BY <3>1 DEF SizeAt
    <3>4. t[i].n >= 0 /\ t[i].n # 0
      BY <3>3
    <3> QED
      BY <3>1, <3>2, <3>3, <3>4 DEF IsChunk
  <2>2. CASE i = p
    <3>1. t[i].k = "size" /\ t[i].n = 0 /\ t[i].digits <= chunk_size_str_limit
          /\ At(t, i + 1, CRLF)
      BY <2>2 DEF SizeAt
    <3>2. i \in from .. Len(t) /\ 0 >= 0
      BY <2>2
    <3> QED
      BY <2>2, <3>1, <3>2 DEF IsChunk
  <2> QED
    BY <1>2, <2>1, <2>2
<1>4. all \in SUBSET {i \in from .. Len(t) : t[i].k = "size"} /\ from \in all
  BY <1>1, <1>2, <1>3
<1> QED
  BY <1>3, <1>4 DEF IsChunked, AreChunks

\* and only with it.
LEMMA ChunkAt ==
  ASSUME NEW s, NEW t, Begins(s, t), NEW from \in Nat \ {0}, NEW p, Forced(t, from, p),
         IsChunked(s, from)
  PROVE  /\ p \in from .. Len(s)
         /\ s[p].k = "size" /\ s[p].n >= 0 /\ s[p].digits <= chunk_size_str_limit
         /\ At(s, p + 1, CRLF)
         /\ s[p].n = 0 => At(s, p + 3, CRLF) /\ Len(s) = p + 4
         /\ s[p].n # 0 => At(s, p + 3 + s[p].n, CRLF)
<1>1. PICK starts \in SUBSET Sizes(s, from) : AreChunks(s, starts, from)
  BY DEF IsChunked, Sizes
<1>2. p \in starts
  BY <1>1 DEF Forced
<1>3. IsChunk(s, starts, p)
  BY <1>1, <1>2 DEF AreChunks
<1>4. p \in from .. Len(s) /\ s[p].k = "size"
  BY <1>1, <1>2 DEF Sizes
<1> QED
  BY <1>3, <1>4 DEF IsChunk

\* Content-Length is a number.
LEMMA LengthIsNat ==
  ASSUME NEW t \in Seq(Given), NEW r, NEW n, HeadTaken(r, t, n), Has(r, "Content-Length")
  PROVE  contentLength(r) \in Nat
<1>1. PICK T : T = Under(r, "Content-Length")
  OBVIOUS
<1>2. n \in Nat /\ DOMAIN r.headers = 1 .. n /\ \A i \in 1 .. n : r.headers[i] = t[3 * i + 1]
  BY HttpRequestAssumption DEF HeadTaken
<1>3. T \subseteq 1 .. n /\ T # {}
  BY <1>1, <1>2 DEF Under, Has
<1>4. PICK D : D = {n - i : i \in T}
  OBVIOUS
<1>5. D \subseteq Nat /\ D # {}
  <2>1. ASSUME NEW i \in T PROVE n - i \in Nat
    <3>1. i \in 1 .. n
      BY <1>3
    <3> QED
      BY <1>2, <3>1
  <2> QED
    BY <1>3, <1>4, <2>1
<1>6. PICK d \in D : \A e \in D : d <= e
  BY <1>5, SmallestNat
<1>7. PICK i \in T : d = n - i
  BY <1>4, <1>6
<1>8. ASSUME NEW j \in T PROVE j <= i
  <2>1. n - j \in D /\ j \in Int /\ i \in Int
    BY <1>2, <1>3, <1>4
  <2>2. n - i <= n - j
    BY <1>6, <1>7, <2>1
  <2> QED
    BY <1>2, <2>1, <2>2
<1>9. LastUnder(r, "Content-Length") \in T
  BY <1>1, <1>7, <1>8 DEF LastUnder
<1>10. PICK l \in 1 .. n : l = LastUnder(r, "Content-Length")
  BY <1>3, <1>9
<1>11. /\ 3 * n + 5 <= Len(t) /\ \A j \in 1 .. n : t[3 * j + 1].k = "header"
  BY <1>2, HeadFacts DEF HeadTaken
<1>12. 3 * l + 1 \in 1 .. Len(t) /\ t[3 * l + 1].k = "header"
  BY <1>2, <1>10, <1>11
<1>13. PICK token \in Tokens : token = t[3 * l + 1]
  BY <1>12, GivenFacts
<1>14. token.n \in Nat
  BY <1>12, <1>13, TokenFacts
<1>15. contentLength(r) = token.n
  BY <1>2, <1>10, <1>13 DEF contentLength
<1> QED
  BY <1>14, <1>15

\* Chunked content is announced as such.
LEMMA ChunkedIsSaid ==
  ASSUME NEW r, chunked(r)
  PROVE  Has(r, "Transfer-Encoding")
BY DEF chunked, Get

-----------------------------------------------------------------------------
(* What the parser knows of what it took, part by part.                    *)

\* The request line was taken.
Begun(r, t) ==
    /\ Len(t) = 3 /\ GoodLine(t[1]) /\ At(t, 2, CRLF)
    /\ r.headers = <<>> /\ r.body = <<>> /\ r.chunkState = "NO_LEN"

\* With a Content-Length: what follows the head is the body.
LengthPart(r, t, from) ==
    /\ Len(t) = from - 1 + Len(r.body)
    /\ Len(r.body) <= contentLength(r)
    /\ Len(r.body) > 0 => r.body[Len(r.body)] = t[Len(t)]

\* The body that the chunks up to p make.
BodyPart(r, t, from, p) ==
    /\ p = from => Len(r.body) = 0
    /\ p > from => /\ p >= from + 6
                   /\ Len(r.body) > 0 /\ r.body[Len(r.body)] = t[p - 3]
                   /\ (Len(r.body) > 1 <=> p > from + 6)

\* Multipart content that is complete and not closed.
NotClosed(r, t, from, p) ==
    Get(r, "Content-Type") = "multipart" /\ p > from + 6 /\ t[p - 3].k # "eob"

\* Chunks up to p, and what was taken of the one at p.
ChunkPart(r, t, from, p) ==
    /\ p \in Nat /\ p >= from
    /\ Reached(t, from, p) /\ Forced(t, from, p)
    /\ BodyPart(r, t, from, p)
    /\ r.chunkState = "NO_LEN" => Len(t) = p - 1
    /\ r.chunkState = "NO_DATA" =>
          Len(t) = p + 2 /\ SizeAt(t, p, r.chunkSize) /\ r.chunkSize > 0
    /\ r.chunkState = "DONE" =>
          /\ Len(t) >= p + 2 /\ SizeAt(t, p, 0)
          /\ Len(t) > p + 2 => NotClosed(r, t, from, p)

ContentPart(r, t, from) ==
    /\ ~Has(r, "Transfer-Encoding") /\ ~Has(r, "Content-Length") => Len(t) = from - 1
    /\ ~Has(r, "Transfer-Encoding") /\ Has(r, "Content-Length") => LengthPart(r, t, from)
    /\ chunked(r) => \E p : ChunkPart(r, t, from, p)

PartOf(r, t) ==
    /\ r.state = "CHECK_REQUESTLINE" =>
          r.headers = <<>> /\ r.body = <<>> /\ r.chunkState = "NO_LEN"
    /\ r.state = "CHECK_HEADER" /\ ~r.refused => Begun(r, t)
    /\ r.state = "CHECK_CONTENT" /\ ~r.refused =>
          At(t, 4, CRLF) \/ \E n : HeadTaken(r, t, n) /\ ContentPart(r, t, 3 * n + 6)
    /\ r.state = "CHECK_DONE" /\ ~r.refused => At(t, 4, CRLF) \/ IsRequest(t)

\* The parser waits, and there is no request yet.
Waits(r, t, b, w) ==
    w = "parsed" /\ r.ret = "AGAIN_REQUEST" /\ ~r.refused =>
        \A s : Reads(s, t, b) => ~IsRequest(s)

Fine(r, t, b, w) ==
    /\ r.headers \in Seq(Given) /\ r.body \in Seq(Given)
    /\ PartOf(r, t)
    /\ Waits(r, t, b, w)

\* Nothing more is said of a request that was refused,
LEMMA RefusedFine ==
  ASSUME NEW r, NEW t, NEW b, NEW w, r.headers \in Seq(Given), r.body \in Seq(Given),
         r.refused, r.state # "CHECK_REQUESTLINE"
  PROVE  Fine(r, t, b, w)
BY DEF Fine, PartOf, Waits

\* and little of one without a header.
LEMMA HeadlessFine ==
  ASSUME NEW r, NEW t, NEW u, NEW b, NEW w,
         r.headers \in Seq(Given), r.body \in Seq(Given),
         r.state \in {"CHECK_CONTENT", "CHECK_DONE"}, At(t, 4, CRLF), Begins(u, t)
  PROVE  Fine(r, u, b, w)
<1>1. At(u, 4, CRLF)
  BY NoHeader
<1>2. ASSUME NEW s, Reads(s, u, b) PROVE ~IsRequest(s)
  BY <1>1, <1>2, NoHeader DEF Reads
<1> QED
  BY <1>1, <1>2 DEF Fine, PartOf, Waits

\* The result that the parser returns changes nothing of what it knows.
LEMMA SamePart ==
  ASSUME NEW r, NEW q, NEW t, PartOf(r, t),
         q.state = r.state, q.headers = r.headers, q.body = r.body, q.refused = r.refused,
         q.chunkState = r.chunkState, q.chunkSize = r.chunkSize
  PROVE  PartOf(q, t)
<1>1. \A n : HeadTaken(r, t, n) => HeadTaken(q, t, n)
  BY DEF HeadTaken
<1>2. /\ \A name : (Has(r, name) <=> Has(q, name)) /\ Get(r, name) = Get(q, name)
      /\ contentLength(r) = contentLength(q) /\ (chunked(r) <=> chunked(q))
  BY SameHeaders
<1>3. \A from, p : ChunkPart(r, t, from, p) => ChunkPart(q, t, from, p)
  BY <1>2 DEF ChunkPart, BodyPart, NotClosed
<1>4. \A from : LengthPart(r, t, from) => LengthPart(q, t, from)
  BY <1>2 DEF LengthPart
<1>5. \A from : ContentPart(r, t, from) => ContentPart(q, t, from)
  BY <1>2, <1>3, <1>4 DEF ContentPart
<1>6. Begun(r, t) => Begun(q, t)
  BY DEF Begun
<1> QED
  BY <1>1, <1>5, <1>6 DEF PartOf

\* So the parser may ask for more where no request can be there yet.
LEMMA AgainFine ==
  ASSUME ParserTypes, Fine(req, taken, buf, busy), Again,
         \/ req.refused
         \/ \A s : Reads(s, taken, buf) => ~IsRequest(s)
  PROVE  Fine(req', taken', buf', busy')
<1>1. PICK q : q = [req EXCEPT !.ret = "AGAIN_REQUEST"]
  OBVIOUS
<1>2. /\ q.state = req.state /\ q.headers = req.headers /\ q.body = req.body
      /\ q.refused = req.refused
      /\ q.chunkState = req.chunkState /\ q.chunkSize = req.chunkSize
  BY <1>1 DEF ParserTypes, RequestFields
<1>3. req' = q /\ taken' = taken /\ buf' = buf
  BY <1>1 DEF Again, Return, RetrieveNothing
<1>4. PartOf(q, taken)
  BY <1>2, SamePart DEF Fine
<1>5. Waits(q, taken, buf, busy')
  BY <1>2 DEF Waits
<1>6. Fine(q, taken, buf, busy')
  BY <1>2, <1>4, <1>5 DEF Fine
<1> QED
  BY <1>3, <1>6

\* A part that was bad.
LEMMA RefuseFine ==
  ASSUME NEW r, DOMAIN r = RequestFields, Refuse(r), r.headers \in Seq(Given), r.body \in Seq(Given),
         r.state # "CHECK_REQUESTLINE"
  PROVE  Fine(req', taken', buf', busy')
<1>1. PICK q : q = [r EXCEPT !.ret = "BAD_REQUEST", !.refused = TRUE]
  OBVIOUS
<1>2. /\ q.headers \in Seq(Given) /\ q.body \in Seq(Given) /\ q.refused
      /\ q.state # "CHECK_REQUESTLINE"
  BY <1>1 DEF RequestFields
<1>3. req' = q
  BY <1>1 DEF Refuse, Return
<1> QED
  BY <1>2, <1>3, RefusedFine

-----------------------------------------------------------------------------
(* The request line and the header.                                        *)

\* What was retrieved was taken.
LEMMA TakenFacts ==
  ASSUME ParserTypes, NEW n \in Nat, n <= Len(buf), Retrieve(n)
  PROVE  /\ Reads(taken', taken, buf) /\ Begins(taken', taken)
         /\ Len(taken') = Len(taken) + n /\ Len(taken) \in Nat
         /\ \A i \in 1 .. n : taken'[Len(taken) + i] = buf[i]
         /\ taken' \in Seq(Given)
<1>1. PICK t \in Seq(Given) : t = taken
  BY DEF ParserTypes
<1>2. PICK b \in Seq(Given) : b = buf
  BY DEF ParserTypes
<1>3. n \in 0 .. Len(b)
  BY <1>2
<1>4. PICK u : u = t \o SubSeq(b, 1, n)
  OBVIOUS
<1>r. Reads(t \o SubSeq(b, 1, n), t, b) /\ Len(t \o SubSeq(b, 1, n)) = Len(t) + n
  BY <1>3, ReadsFacts
<1>5. Reads(u, t, b) /\ Len(u) = Len(t) + n
  BY <1>4, <1>r
<1>6. taken' = u
  BY <1>1, <1>2, <1>4 DEF Retrieve
<1>7. \A i \in 1 .. n : u[Len(t) + i] = b[i]
  <2>1. Len(u) - Len(t) = n
    BY <1>5
  <2> QED
    BY <1>5, <2>1 DEF Reads
<1>8. Begins(u, t) /\ u \in Seq(Given)
  BY <1>5 DEF Reads, Begins
<1> QED
  BY <1>1, <1>2, <1>5, <1>6, <1>7, <1>8

\* Places of the buffer are places of what was read.
LEMMA AtRead ==
  ASSUME NEW s, NEW t, NEW b, Reads(s, t, b), NEW i \in Nat \ {0},
         NEW j \in Nat, j = Len(t) + i, j + 1 <= Len(s)
  PROVE  At(s, j, CRLF) <=> At(b, i, CRLF)
<1>1. Len(s) \in Nat /\ Len(t) \in Nat /\ Len(b) \in Nat /\ Len(s) <= Len(t) + Len(b)
  BY DEF Reads, Begins
<1>2. i \in 1 .. Len(s) - Len(t) /\ i + 1 \in 1 .. Len(s) - Len(t)
  BY <1>1
<1>3. s[Len(t) + i] = b[i] /\ s[Len(t) + (i + 1)] = b[i + 1]
  BY <1>2 DEF Reads
<1>4. Len(t) + (i + 1) = j + 1 /\ i + 1 <= Len(b)
  BY <1>1
<1>5. At(s, j, CRLF) <=> j + 1 <= Len(s) /\ s[j].k = "CR" /\ s[j + 1].k = "LF"
  BY <1>1, AtLineEnd
<1>6. At(b, i, CRLF) <=> i + 1 <= Len(b) /\ b[i].k = "CR" /\ b[i + 1].k = "LF"
  BY <1>1, AtLineEnd
<1> QED
  BY <1>3, <1>4, <1>5, <1>6

\* parseRequestLine
LEMMA LineFine ==
  ASSUME ParserTypes, Fine(req, taken, buf, busy), NoLineYet, ParseRequestLine
  PROVE  Fine(req', taken', buf', busy')
<1>1. busy = "parsing" /\ req.state = "CHECK_REQUESTLINE" /\ taken = <<>>
  BY DEF ParseRequestLine, Parsing, NoLineYet
<1>2. PICK crlf : crlf = Find(buf, CRLF)
  OBVIOUS
<1>b. PICK b \in Seq(Given) : b = buf
  BY DEF ParserTypes
<1>t. PICK t \in Seq(Given) : t = taken /\ Len(t) = 0
  BY <1>1 DEF ParserTypes
<1>3. CASE crlf = 0 /\ Again
  <2>1. ASSUME NEW s, Reads(s, t, b), IsRequest(s) PROVE FALSE
    <3>1. PICK n \in 1 .. MaxHeaderLen + 1 : IsHead(s, n)
      BY <2>1 DEF IsRequest
    <3>2. s \in Seq(Given) /\ Len(s) \in Nat /\ n \in Nat /\ Len(s) <= Len(t) + Len(b)
      BY <2>1, HttpRequestAssumption DEF Reads, Begins
    <3>3. 3 * n + 5 <= Len(s) /\ At(s, 2, CRLF)
      BY <3>1, <3>2, HeadFacts
    <3>4. 2 = Len(t) + 2 /\ 2 + 1 <= Len(s) /\ 2 \in Nat /\ 2 \in Nat \ {0} /\ 2 \in 1 .. Len(b)
      BY <1>t, <3>2, <3>3
    <3>5. At(b, 2, CRLF)
      BY <2>1, <3>3, <3>4, AtRead
    <3>6. Find(b, CRLF) \in 1 .. 2
      BY <3>4, <3>5, FindFirst
    <3>7. Find(b, CRLF) = 0
      BY <1>2, <1>3, <1>b
    <3> QED
      BY <3>6, <3>7
  <2> QED
    BY <1>3, <1>b, <1>t, <2>1, AgainFine
<1>4. CASE crlf > 0 /\ Retrieve(crlf + 1)
  <2>1. crlf \in 1 .. Len(buf) /\ crlf + 1 <= Len(buf) /\ crlf + 1 \in Nat
    BY <1>2, <1>4, FindFits DEF ParserTypes
  <2>3. CASE ~(crlf = 2 /\ GoodLine(buf[1]))
    <3>1. PICK q : q = [req EXCEPT !.ret = "BAD_REQUEST"]
      OBVIOUS
    <3>2. /\ q.state = req.state /\ q.headers = req.headers /\ q.body = req.body
          /\ q.refused = req.refused /\ q.ret = "BAD_REQUEST"
          /\ q.chunkState = req.chunkState /\ q.chunkSize = req.chunkSize
      BY <3>1 DEF RequestFields, ParserTypes
    <3>3. req' = q
      BY <1>2, <1>4, <2>3, <3>1 DEF ParseRequestLine, Return
    <3>4. Fine(q, taken', buf', busy')
      BY <1>1, <3>2 DEF Fine, PartOf, Waits
    <3> QED
      BY <3>3, <3>4
  <2>4. CASE crlf = 2 /\ GoodLine(buf[1])
    <3>1. PICK q : q = [req EXCEPT !.ret = "OK_REQUEST", !.state = "CHECK_HEADER",
                                   !.method = buf[1].method, !.url = buf[1].url,
                                   !.version = buf[1].version]
      OBVIOUS
    <3>2. /\ q.state = "CHECK_HEADER" /\ q.headers = req.headers /\ q.body = req.body
          /\ q.ret = "OK_REQUEST" /\ q.chunkState = req.chunkState
      BY <3>1 DEF RequestFields, ParserTypes
    <3>3. req' = q
      BY <1>2, <1>4, <2>4, <3>1 DEF ParseRequestLine, Return
    <3>4. /\ Reads(taken', taken, buf) /\ Len(taken') = Len(taken) + 3 /\ Len(taken) \in Nat
          /\ \A i \in 1 .. 3 : taken'[Len(taken) + i] = buf[i]
      <4>1. crlf + 1 = 3 /\ 3 \in Nat /\ 3 <= Len(buf)
        BY <2>1, <2>4
      <4>2. Retrieve(3)
        BY <1>4, <4>1
      <4> QED
        BY <4>1, <4>2, TakenFacts
    <3>5. PICK u : u = taken'
      OBVIOUS
    <3>6. Reads(u, t, b) /\ Len(u) = 3 /\ u[1] = b[1]
      BY <1>b, <1>t, <3>4, <3>5
    <3>7. At(b, 2, CRLF)
      <4>1. crlf = Find(b, CRLF) /\ crlf # 0
        BY <1>2, <1>b, <2>4
      <4>2. At(b, crlf, CRLF)
        BY <4>1, FindFacts
      <4> QED
        BY <2>4, <4>2
    <3>8. 2 = Len(t) + 2 /\ 2 + 1 <= Len(u) /\ 2 \in Nat /\ 2 \in Nat \ {0}
      BY <1>t, <3>6
    <3>9. At(u, 2, CRLF)
      BY <3>6, <3>7, <3>8, AtRead
    <3>10. Begun(q, u)
      BY <1>1, <1>b, <2>4, <3>2, <3>6, <3>9 DEF Begun, Fine, PartOf
    <3>11. Fine(q, u, buf', busy')
      BY <3>2, <3>10 DEF Fine, PartOf, Waits
    <3> QED
      BY <3>3, <3>5, <3>11
  <2> QED
    BY <2>3, <2>4
<1> QED
  BY <1>2, <1>3, <1>4 DEF ParseRequestLine

\* The loop of parseRequestHeader adds header lines, and stops where one is
\* not.
LEMMA AddedFacts ==
  ASSUME NEW b \in Seq(Given), b = buf, Len(req.headers) \in Nat
  PROVE  /\ Added \in Nat
         /\ \A i \in 1 .. Added :
                /\ 3 * i <= Len(b) /\ b[3 * i - 2].k = "header" /\ b[3 * i - 2].name # "none"
                /\ At(b, 3 * i - 1, CRLF)
                /\ Len(req.headers) + i - 1 <= MaxHeaderLen
<1>1. PICK stops : stops = {n \in 0 .. Len(b) :
                    ~(HeaderLine(b, 3 * n + 1) /\ Len(req.headers) + n <= MaxHeaderLen)}
  OBVIOUS
<1>2. Len(b) \in stops
  <2>1. Len(b) \in 0 .. Len(b) /\ ~(3 * Len(b) + 1 + 2 <= Len(b))
    OBVIOUS
  <2> QED
    BY <1>1, <2>1 DEF HeaderLine
<1>3. stops \subseteq Nat /\ stops # {}
  BY <1>1, <1>2
<1>4. Added = CHOOSE n \in stops : \A m \in stops : n <= m
  BY <1>1 DEF Added
<1>5. \E n \in stops : \A m \in stops : n <= m
  BY <1>3, SmallestNat
<1>6. PICK a \in stops : a = Added /\ \A m \in stops : a <= m
  BY <1>4, <1>5
<1>7. a \in Nat /\ a <= Len(b) /\ Len(b) \in Nat
  BY <1>1, <1>6
<1>8. ASSUME NEW i \in 1 .. a
      PROVE  /\ 3 * i <= Len(b) /\ b[3 * i - 2].k = "header" /\ b[3 * i - 2].name # "none"
             /\ At(b, 3 * i - 1, CRLF)
             /\ Len(req.headers) + i - 1 <= MaxHeaderLen
  <2>1. PICK n \in 0 .. Len(b) : n = i - 1
    BY <1>7
  <2>2. ~(n \in stops)
    BY <1>6, <1>7, <2>1
  <2>3. HeaderLine(b, 3 * n + 1) /\ Len(req.headers) + n <= MaxHeaderLen
    BY <1>1, <2>2
  <2>4. 3 * n + 1 = 3 * i - 2 /\ 3 * n + 1 + 1 = 3 * i - 1 /\ 3 * n + 1 + 2 = 3 * i
        /\ Len(req.headers) + n = Len(req.headers) + i - 1
    BY <1>7, <2>1
  <2>5. 3 * i <= Len(b) /\ b[3 * i - 2].k = "header" /\ b[3 * i - 2].name # "none"
        /\ At(b, 3 * i - 1, CRLF)
    BY <2>3, <2>4 DEF HeaderLine
  <2> QED
    BY <2>3, <2>4, <2>5
<1> QED
  BY <1>6, <1>7, <1>8

\* The headers that are added are tokens of the input.
LEMMA AddedType ==
  ASSUME NEW b \in Seq(Given), b = buf, req.headers \in Seq(Given), NEW added,
         added = [i \in 1 .. Added |-> b[3 * i - 2]]
  PROVE  added \in Seq(Given) /\ Len(added) = Added /\ req.headers \o added \in Seq(Given)
<1>1. PICK a \in Nat : a = Added
  BY AddedFacts
<1>2. ASSUME NEW i \in 1 .. a PROVE b[3 * i - 2] \in Given
  <2>1. 3 * i <= Len(b)
    BY <1>1, AddedFacts
  <2>2. 3 * i - 2 \in 1 .. Len(b)
    BY <1>1, <2>1
  <2> QED
    BY <2>2
<1>3. [i \in 1 .. a |-> b[3 * i - 2]] \in Seq(Given) /\ Len([i \in 1 .. a |-> b[3 * i - 2]]) = a
  BY <1>1, <1>2, IsASeq
<1>4. added = [i \in 1 .. a |-> b[3 * i - 2]]
  BY <1>1
<1>5. added \in Seq(Given) /\ Len(added) = a
  BY <1>3, <1>4
<1>6. PICK x \in Seq(Given) : x = added
  BY <1>5
<1>7. PICK h \in Seq(Given) : h = req.headers
  OBVIOUS
<1>8. h \o x \in Seq(Given)
  BY ConcatProperties
<1> QED
  BY <1>1, <1>5, <1>6, <1>7, <1>8

\* Where no empty line is in the buffer, there is no head.
LEMMA HeaderWaits ==
  ASSUME NEW s, NEW t, NEW b, Reads(s, t, b), Len(t) = 3, Find(b, TwoCRLF) = 0
  PROVE  ~IsRequest(s)
<1> SUFFICES ASSUME IsRequest(s) PROVE FALSE
  OBVIOUS
<1>1. PICK n \in 1 .. MaxHeaderLen + 1 : IsHead(s, n)
  BY DEF IsRequest
<1>2. /\ s \in Seq(Given) /\ b \in Seq(Given) /\ Len(s) \in Nat /\ Len(b) \in Nat
      /\ n \in Nat \ {0} /\ Len(s) <= 3 + Len(b) /\ n \in 1 .. n
  BY HttpRequestAssumption DEF Reads, Begins
<1>3. 3 * n + 5 <= Len(s) /\ At(s, 3 * n + 4, CRLF) /\ At(s, 3 * n + 2, CRLF)
  BY <1>1, <1>2, HeadFacts
<1>4. PICK i \in Nat \ {0} : i = 3 * n - 1
  BY <1>2
<1>5. PICK j \in Nat : j = 3 * n + 2
  BY <1>2
<1>6. At(b, i, CRLF)
  <2>1. j = Len(t) + i /\ j + 1 <= Len(s)
    BY <1>2, <1>3, <1>4, <1>5
  <2>2. At(s, j, CRLF)
    BY <1>3, <1>5
  <2> QED
    BY <2>1, <2>2, AtRead
<1>7. At(b, i + 2, CRLF)
  <2>1. PICK k \in Nat \ {0} : k = i + 2
    OBVIOUS
  <2>2. PICK l \in Nat : l = 3 * n + 4
    BY <1>2
  <2>3. l = Len(t) + k /\ l + 1 <= Len(s)
    BY <1>2, <1>3, <1>4, <2>1, <2>2
  <2>s. At(s, l, CRLF)
    BY <1>3, <2>2
  <2>4. At(b, k, CRLF)
    BY <2>3, <2>s, AtRead
  <2> QED
    BY <2>1, <2>4
<1>8. At(b, i, TwoCRLF)
  BY <1>2, <1>6, <1>7, AtTwoLineEnds
<1>9. i \in 1 .. Len(b)
  BY <1>2, <1>3, <1>4
<1>10. Find(b, TwoCRLF) \in 1 .. i
  BY <1>2, <1>8, <1>9, FindFirst
<1> QED
  BY <1>10

\* Header lines and an empty line: the first two line ends are after the last
\* header line.
LEMMA HeaderEnds ==
  ASSUME NEW b \in Seq(Given), NEW a \in Nat \ {0}, At(b, 3 * a + 1, CRLF),
         \A i \in 1 .. a : b[3 * i - 2].k = "header" /\ At(b, 3 * i - 1, CRLF),
         NEW end, end = Find(b, TwoCRLF)
  PROVE  end = 3 * a - 1
<1>1. Len(b) \in Nat
  OBVIOUS
<1>2. ASSUME NEW i \in 1 .. a
      PROVE  3 * i <= Len(b) /\ b[3 * i - 1].k = "CR" /\ b[3 * i].k = "LF"
  <2>1. PICK j \in Int : j = 3 * i - 1
    OBVIOUS
  <2>2. At(b, j, CRLF)
    BY <2>1
  <2>3. j + 1 <= Len(b) /\ b[j].k = "CR" /\ b[j + 1].k = "LF"
    BY <1>1, <2>2, AtLineEnd
  <2> QED
    BY <2>1, <2>3
<1>3. PICK j \in Nat \ {0} : j = 3 * a - 1
  OBVIOUS
<1>4. At(b, j, TwoCRLF)
  <2>1. At(b, j, CRLF) /\ At(b, j + 2, CRLF)
    BY <1>3
  <2> QED
    BY <1>1, <2>1, AtTwoLineEnds
<1>5. j \in 1 .. Len(b)
  BY <1>1, <1>2, <1>3
<1>6. Find(b, TwoCRLF) \in 1 .. j
  BY <1>4, <1>5, FindFirst
<1>7. PICK e \in 1 .. j : e = Find(b, TwoCRLF) /\ e # 0
  BY <1>6
<1>8. At(b, e, TwoCRLF)
  BY <1>7, FindFacts
<1>9. b[e].k = "CR" /\ b[e + 2].k = "CR"
  <2>1. At(b, e, CRLF) /\ At(b, e + 2, CRLF) /\ e \in Int /\ e + 2 \in Int
    BY <1>1, <1>8, AtTwoLineEnds
  <2> QED
    BY <1>1, <2>1, AtLineEnd
<1>10. PICK i \in Int : i = (e + 2) \div 3
  OBVIOUS
<1>11. (e = 3 * i - 2 \/ e = 3 * i - 1 \/ e = 3 * i) /\ i \in 1 .. a
  BY <1>3, <1>10
<1>12. e # 3 * i - 2
  BY <1>9, <1>11
<1>13. e # 3 * i
  BY <1>2, <1>9, <1>11
<1>14. ASSUME i < a PROVE FALSE
  <2>1. i + 1 \in 1 .. a /\ 3 * (i + 1) - 2 = e + 2
    BY <1>11, <1>12, <1>13, <1>14
  <2> QED
    BY <1>9, <2>1
<1>15. e = 3 * i - 1 /\ i = a
  BY <1>11, <1>12, <1>13, <1>14
<1> QED
  BY <1>7, <1>15

\* What is known where the content begins.
LEMMA ContentBegins ==
  ASSUME NEW t \in Seq(Given), NEW r, NEW n, HeadTaken(r, t, n), NEW from \in Nat \ {0},
         Len(t) = from - 1, r.body = <<>>, r.chunkState = "NO_LEN"
  PROVE  ContentPart(r, t, from)
<1>1. Len(r.body) = 0
  OBVIOUS
<1>2. ASSUME Has(r, "Content-Length") PROVE LengthPart(r, t, from)
  <2>1. contentLength(r) \in Nat
    BY <1>2, LengthIsNat
  <2> QED
    BY <1>1, <2>1 DEF LengthPart
<1>3. ChunkPart(r, t, from, from)
  <2>1. Reached(t, from, from) /\ Forced(t, from, from)
    BY FirstForced
  <2>2. BodyPart(r, t, from, from)
    BY <1>1 DEF BodyPart
  <2> QED
    BY <2>1, <2>2 DEF ChunkPart
<1> QED
  BY <1>2, <1>3 DEF ContentPart

\* The head is complete: what is known of it.
LEMMA HeaderFine ==
  ASSUME NEW t \in Seq(Given), NEW b \in Seq(Given), NEW u, NEW r, NEW w, NEW c,
         Begun(r, t), NEW a \in Nat, a <= MaxHeaderLen + 1, At(b, 3 * a + 1, CRLF),
         \A i \in 1 .. a : /\ b[3 * i - 2].k = "header" /\ b[3 * i - 2].name # "none"
                           /\ At(b, 3 * i - 1, CRLF),
         NEW e \in Nat \ {0}, e = Find(b, TwoCRLF), Reads(u, t, b), Len(u) = 3 + e + 3,
         NEW q, q.headers = [i \in 1 .. a |-> b[3 * i - 2]], q.headers \in Seq(Given),
         q.body = <<>>, q.chunkState = "NO_LEN",
         q.state = "CHECK_CONTENT", q.ret = "OK_REQUEST"
  PROVE  Fine(q, u, c, w)
<1>1. /\ u \in Seq(Given) /\ Len(u) \in Nat /\ Len(b) \in Nat /\ Len(t) = 3
      /\ <<>> \in Seq(Given) /\ Begins(u, t)
  BY EmptySeq DEF Reads, Begins, Begun
<1>2. \A i \in 1 .. e + 3 : u[3 + i] = b[i]
  <2>1. \A i \in 1 .. Len(u) - Len(t) : u[Len(t) + i] = b[i]
    BY DEF Reads
  <2>2. Len(u) - Len(t) = e + 3
    BY <1>1
  <2> QED
    BY <1>1, <2>1, <2>2
<1>3. CASE a = 0
  <2>1. 4 = Len(t) + 1 /\ 4 + 1 <= Len(u) /\ 4 \in Nat /\ 1 \in Nat \ {0} /\ 3 * a + 1 = 1
    BY <1>1, <1>3
  <2>2. At(b, 1, CRLF)
    BY <2>1
  <2>3. At(u, 4, CRLF)
    BY <2>1, <2>2, AtRead
  <2>4. Begins(u, u)
    BY <1>1, BeginsItself
  <2> QED
    BY <1>1, <2>3, <2>4, HeadlessFine
<1>4. CASE a # 0
  <2>1. a \in Nat \ {0}
    BY <1>4
  <2>2. e = 3 * a - 1
    BY <2>1, HeaderEnds
  <2>3. Len(u) = 3 * a + 5
    BY <2>2
  <2>4. ASSUME NEW i \in 1 .. a PROVE u[3 * i + 1] = b[3 * i - 2]
    <3>1. 3 * i - 2 \in 1 .. e + 3 /\ 3 + (3 * i - 2) = 3 * i + 1
      BY <2>2
    <3> QED
      BY <1>2, <3>1
  <2>5. ASSUME NEW i \in 1 .. a PROVE At(u, 3 * i + 2, CRLF)
    <3>1. PICK k \in Nat \ {0} : k = 3 * i - 1
      OBVIOUS
    <3>2. PICK l \in Nat : l = 3 * i + 2
      OBVIOUS
    <3>3. l = Len(t) + k /\ l + 1 <= Len(u)
      BY <1>1, <2>3, <3>1, <3>2
    <3>4. At(b, k, CRLF)
      BY <3>1
    <3>5. At(u, l, CRLF)
      BY <3>3, <3>4, AtRead
    <3> QED
      BY <3>2, <3>5
  <2>6. At(u, 3 * a + 4, CRLF)
    <3>1. PICK k \in Nat \ {0} : k = 3 * a + 1
      OBVIOUS
    <3>2. PICK l \in Nat : l = 3 * a + 4
      OBVIOUS
    <3>3. l = Len(t) + k /\ l + 1 <= Len(u)
      BY <1>1, <2>3, <3>1, <3>2
    <3>4. At(u, l, CRLF)
      BY <3>1, <3>3, AtRead
    <3> QED
      BY <3>2, <3>4
  <2>7. u[1] = t[1] /\ GoodLine(t[1])
    BY <1>1 DEF Begins, Begun
  <2>8. At(u, 2, CRLF)
    <3>1. 2 \in Nat \ {0} /\ 2 + 1 <= Len(t)
      BY <1>1
    <3> QED
      BY <1>1, <3>1, StaysAt DEF Begun
  <2>9. IsHead(u, a)
    <3>1. 3 * a + 5 <= Len(u)
      BY <2>3
    <3>2. GoodLine(u[1])
      BY <2>7
    <3>3. \A i \in 1 .. a : /\ u[3 * i + 1].k = "header" /\ u[3 * i + 1].name # "none"
                            /\ At(u, 3 * i + 2, CRLF)
      BY <2>4, <2>5
    <3>4. u \in Seq(Given) /\ a \in Nat
      BY <1>1
    <3> QED
      BY <2>6, <2>8, <3>1, <3>2, <3>3, <3>4, HeadFacts
  <2>10. HeadTaken(q, u, a)
    <3>1. a \in 1 .. MaxHeaderLen + 1
      BY <2>1, HttpRequestAssumption
    <3>2. [i \in 1 .. a |-> b[3 * i - 2]] = [i \in 1 .. a |-> u[3 * i + 1]]
      BY <2>4
    <3> QED
      BY <2>9, <3>1, <3>2 DEF HeadTaken
  <2>11. PICK from \in Nat \ {0} : from = 3 * a + 6
    OBVIOUS
  <2>12. ContentPart(q, u, from)
    <3>1. Len(u) = from - 1
      BY <2>3, <2>11
    <3> QED
      BY <1>1, <2>10, <3>1, ContentBegins
  <2> QED
    BY <1>1, <2>10, <2>11, <2>12 DEF Fine, PartOf, Waits
<1> QED
  BY <1>3, <1>4

\* parseRequestHeader
LEMMA ParseHeaderFine ==
  ASSUME ParserTypes, Fine(req, taken, buf, busy), ParseRequestHeader
  PROVE  Fine(req', taken', buf', busy')
<1>1. req.state = "CHECK_HEADER"
  BY DEF ParseRequestHeader, Parsing
<1>b. PICK b \in Seq(Given) : b = buf
  BY DEF ParserTypes
<1>t. PICK t \in Seq(Given) : t = taken
  BY DEF ParserTypes
<1>2. PICK end : end = Find(b, TwoCRLF)
  OBVIOUS
<1>3. PICK added : added = [i \in 1 .. Added |-> b[3 * i - 2]]
  OBVIOUS
<1>4. PICK r : r = [req EXCEPT !.headers = req.headers \o added]
  OBVIOUS
<1>h. req.headers \in Seq(Given) /\ req.body \in Seq(Given) /\ Len(req.headers) \in Nat
  BY DEF Fine
<1>5. added \in Seq(Given) /\ req.headers \o added \in Seq(Given)
  BY <1>3, <1>b, <1>h, AddedType
<1>6. /\ DOMAIN r = RequestFields /\ r.headers = req.headers \o added
      /\ r.body = req.body /\ r.state = "CHECK_HEADER" /\ r.refused = req.refused
      /\ r.chunkState = req.chunkState
  BY <1>1, <1>4 DEF ParserTypes, RequestFields
<1>7. \/ end = 0 /\ Again
      \/ /\ end > 0 /\ Retrieve(end + 3)
         /\ \/ /\ At(b, 3 * Added + 1, CRLF)
               /\ Return([r EXCEPT !.ret = "OK_REQUEST", !.state = "CHECK_CONTENT"])
            \/ Refuse(r)
  BY <1>2, <1>3, <1>4, <1>b DEF ParseRequestHeader
<1>8. CASE end = 0 /\ Again
  <2>1. CASE req.refused
    BY <1>8, <2>1, AgainFine
  <2>2. CASE ~req.refused
    <3>1. Len(t) = 3
      BY <1>1, <1>t, <2>2 DEF Fine, PartOf, Begun
    <3>2. Find(b, TwoCRLF) = 0
      BY <1>2, <1>8
    <3>3. \A s : Reads(s, t, b) => ~IsRequest(s)
      BY <3>1, <3>2, HeaderWaits
    <3> QED
      BY <1>8, <1>b, <1>t, <3>3, AgainFine
  <2> QED
    BY <2>1, <2>2
<1>9. CASE Refuse(r)
  <2>1. r.headers \in Seq(Given) /\ r.body \in Seq(Given) /\ r.state # "CHECK_REQUESTLINE"
    BY <1>5, <1>6, <1>h
  <2> QED
    BY <1>6, <1>9, <2>1, RefuseFine
<1>10. CASE /\ end > 0 /\ Retrieve(end + 3) /\ At(b, 3 * Added + 1, CRLF)
            /\ Return([r EXCEPT !.ret = "OK_REQUEST", !.state = "CHECK_CONTENT"])
  <2>1. PICK q : q = [r EXCEPT !.ret = "OK_REQUEST", !.state = "CHECK_CONTENT"]
    OBVIOUS
  <2>2. req' = q
    BY <1>10, <2>1 DEF Return
  <2>3. /\ q.headers = r.headers /\ q.body = r.body /\ q.refused = r.refused
        /\ q.chunkState = r.chunkState /\ q.state = "CHECK_CONTENT" /\ q.ret = "OK_REQUEST"
    BY <1>6, <2>1 DEF RequestFields
  <2>4. CASE req.refused
    BY <1>5, <1>6, <1>h, <2>2, <2>3, <2>4, RefusedFine
  <2>5. CASE ~req.refused
    <3>1. Begun(req, t)
      BY <1>1, <1>t, <2>5 DEF Fine, PartOf
    <3>2. PICK e \in Nat \ {0} : e = Find(b, TwoCRLF) /\ e = end /\ e + 3 <= Len(b)
      <4>1. end \in 1 .. Len(b) /\ end + 3 <= Len(b)
        <5>1. end # 0
          BY <1>10
        <5> QED
          BY <1>2, <5>1, FindFits
      <4> QED
        BY <1>2, <4>1
    <3>3. PICK u : u = taken'
      OBVIOUS
    <3>4. Reads(u, t, b) /\ Len(u) = 3 + e + 3
      <4>1. PICK n \in Nat : n = e + 3
        OBVIOUS
      <4>2. Retrieve(n) /\ n <= Len(buf)
        BY <1>10, <1>b, <3>2, <4>1
      <4>3. Reads(taken', taken, buf) /\ Len(taken') = Len(taken) + n
        BY <4>2, TakenFacts
      <4>4. Len(t) = 3
        BY <3>1 DEF Begun
      <4> QED
        BY <1>b, <1>t, <3>3, <4>1, <4>3, <4>4
    <3>5. PICK a \in Nat : a = Added
      BY <1>b, <1>h, AddedFacts
    <3>6. \A i \in 1 .. a : /\ b[3 * i - 2].k = "header" /\ b[3 * i - 2].name # "none"
                            /\ At(b, 3 * i - 1, CRLF)
                            /\ Len(req.headers) + i - 1 <= MaxHeaderLen
      BY <1>b, <1>h, <3>5, AddedFacts
    <3>7. Len(req.headers) = 0 /\ req.headers = <<>> /\ req.body = <<>>
          /\ req.chunkState = "NO_LEN"
      BY <3>1 DEF Begun
    <3>8. a <= MaxHeaderLen + 1
      <4>1. CASE a = 0
        BY <4>1, HttpRequestAssumption
      <4>2. CASE a # 0
        <5>1. a \in 1 .. a
          BY <4>2
        <5>2. 0 + a - 1 <= MaxHeaderLen
          BY <3>6, <3>7, <5>1
        <5> QED
          BY <5>2, HttpRequestAssumption
      <4> QED
        BY <4>1, <4>2
    <3>9. <<>> \o added = added
      BY <1>5, ConcatEmptySeq
    <3>10. q.headers = [i \in 1 .. a |-> b[3 * i - 2]] /\ q.headers \in Seq(Given)
      BY <1>3, <1>5, <1>6, <2>3, <3>5, <3>7, <3>9
    <3>11. At(b, 3 * a + 1, CRLF) /\ q.body = <<>> /\ q.chunkState = "NO_LEN"
      BY <1>10, <1>6, <2>3, <3>5, <3>7
    <3>12. \A i \in 1 .. a : /\ b[3 * i - 2].k = "header" /\ b[3 * i - 2].name # "none"
                             /\ At(b, 3 * i - 1, CRLF)
      BY <3>6
    <3>13. e = Find(b, TwoCRLF)
      BY <3>2
    <3>14. \A c, w : Fine(q, u, c, w)
      BY <2>3, <3>1, <3>4, <3>8, <3>10, <3>11, <3>12, <3>13, HeaderFine
    <3>15. Fine(q, u, buf', busy')
      BY <3>14
    <3> QED
      BY <2>2, <3>3, <3>15
  <2> QED
    BY <2>4, <2>5
<1> QED
  BY <1>7, <1>8, <1>9, <1>10

-----------------------------------------------------------------------------
(* The content.                                                            *)

\* The request once parseRequestContent was left, with the body that it has.
LEMMA ContentEnds ==
  ASSUME ParserTypes, NEW body, Content(body), req.state = "CHECK_CONTENT",
         NEW type, type = Get(req, "Content-Type")
  PROVE  /\ req'.body = body /\ req'.headers = req.headers
         /\ req'.chunkState = req.chunkState /\ req'.chunkSize = req.chunkSize
         /\ \/ req'.refused /\ req'.state = "CHECK_CONTENT"
            \/ /\ req'.ret = "AGAIN_REQUEST" /\ req'.state = "CHECK_CONTENT"
               /\ req'.refused = req.refused
               /\ type = "multipart" /\ Len(body) > 1 /\ Last(body).k # "eob"
            \/ /\ req'.ret = "OK_REQUEST" /\ req'.state = "CHECK_DONE"
               /\ req'.refused = req.refused
               /\ type # "multipart without boundary"
               /\ type = "multipart" /\ Len(body) > 1 => Last(body).k = "eob"
<1>1. PICK r : r = [req EXCEPT !.body = body]
  OBVIOUS
<1>2. /\ DOMAIN r = RequestFields /\ r.headers = req.headers /\ r.body = body
      /\ r.state = "CHECK_CONTENT" /\ r.refused = req.refused
      /\ r.chunkState = req.chunkState /\ r.chunkSize = req.chunkSize
  BY <1>1 DEF ParserTypes, RequestFields
<1>3. CASE type = "multipart without boundary"
  <2>1. PICK q : q = [r EXCEPT !.ret = "BAD_REQUEST", !.refused = TRUE]
    OBVIOUS
  <2>2. req' = q
    BY <1>1, <1>3, <2>1 DEF Content, Refuse, Return
  <2>3. /\ q.headers = r.headers /\ q.body = body /\ q.refused /\ q.state = "CHECK_CONTENT"
        /\ q.chunkState = r.chunkState /\ q.chunkSize = r.chunkSize
    BY <1>2, <2>1 DEF RequestFields
  <2> QED
    BY <1>2, <2>2, <2>3
<1>4. CASE type = "multipart" /\ Len(body) > 1 /\ Last(body).k # "eob"
  <2>1. PICK q : q = [r EXCEPT !.ret = "AGAIN_REQUEST"]
    OBVIOUS
  <2>2. req' = q
    BY <1>1, <1>4, <2>1 DEF Content, Return
  <2>3. /\ q.headers = r.headers /\ q.body = body /\ q.refused = r.refused
        /\ q.state = "CHECK_CONTENT" /\ q.ret = "AGAIN_REQUEST"
        /\ q.chunkState = r.chunkState /\ q.chunkSize = r.chunkSize
    BY <1>2, <2>1 DEF RequestFields
  <2> QED
    BY <1>2, <1>4, <2>2, <2>3
<1>5. CASE /\ type # "multipart without boundary"
           /\ ~(type = "multipart" /\ Len(body) > 1 /\ Last(body).k # "eob")
  <2>1. PICK q : q = [r EXCEPT !.ret = "OK_REQUEST", !.state = "CHECK_DONE"]
    OBVIOUS
  <2>2. req' = q
    BY <1>1, <1>5, <2>1 DEF Content, Return
  <2>3. /\ q.headers = r.headers /\ q.body = body /\ q.refused = r.refused
        /\ q.state = "CHECK_DONE" /\ q.ret = "OK_REQUEST"
        /\ q.chunkState = r.chunkState /\ q.chunkSize = r.chunkSize
    BY <1>2, <2>1 DEF RequestFields
  <2> QED
    BY <1>2, <1>5, <2>2, <2>3
<1> QED
  BY <1>3, <1>4, <1>5

\* The body y is x and what m tokens of b added to it.
Grown(y, x, b, m) ==
    /\ y \in Seq(Given) /\ Len(y) = Len(x) + m /\ Len(x) \in Nat /\ Len(y) \in Nat
    /\ m > 0 => y[Len(y)] = b[m]
    /\ m = 0 => y = x
    /\ Len(y) > 0 => Last(y) = y[Len(y)]

\* It is what the parser makes of it.
LEMMA BodyGrows ==
  ASSUME NEW x \in Seq(Given), NEW b \in Seq(Given), NEW m \in 0 .. Len(b)
  PROVE  Grown(x \o SubSeq(b, 1, m), x, b, m)
<1>1. Reads(x \o SubSeq(b, 1, m), x, b) /\ Len(x \o SubSeq(b, 1, m)) = Len(x) + m
  BY ReadsFacts
<1>y. PICK y : y = x \o SubSeq(b, 1, m)
  OBVIOUS
<1>2. Reads(y, x, b) /\ Len(y) = Len(x) + m
  BY <1>1, <1>y
<1>3. y \in Seq(Given) /\ Len(x) \in Nat /\ Len(y) \in Nat /\ m \in Nat
  BY <1>2 DEF Reads, Begins
<1>4. ASSUME m > 0 PROVE y[Len(y)] = b[m]
  <2>1. m \in 1 .. Len(y) - Len(x) /\ Len(x) + m = Len(y)
    BY <1>2, <1>3, <1>4
  <2> QED
    BY <1>2, <2>1 DEF Reads
<1>5. ASSUME m = 0 PROVE y = x
  <2>1. SubSeq(b, 1, 0) = <<>>
    BY SubSeqEmpty
  <2> QED
    BY <1>5, <1>y, <2>1, ConcatEmptySeq
<1>6. Last(y) = y[Len(y)]
  BY DEF Last
<1>7. Grown(y, x, b, m)
  BY <1>2, <1>3, <1>4, <1>5, <1>6 DEF Grown
<1> QED
  BY <1>7, <1>y

\* parseRequestContent with a Content-Length, once the head was taken: with
\* all of the content, the request is complete exactly if it is closed.
LEMMA LengthDecides ==
  ASSUME NEW s, NEW u, Begins(s, u), NEW r, NEW n, HeadTaken(r, u, n),
         ~Has(r, "Transfer-Encoding"), Has(r, "Content-Length"),
         NEW from, from = 3 * n + 6, LengthPart(r, u, from), Len(r.body) = contentLength(r),
         NEW type, type = Get(r, "Content-Type"), Len(r.body) \in Nat
  PROVE  IsRequest(s) <=>
            /\ Len(s) = Len(u) /\ type # "multipart without boundary"
            /\ type = "multipart" /\ Len(r.body) > 1 => r.body[Len(r.body)].k = "eob"
<1>1. Len(s) \in Nat /\ Len(u) \in Nat /\ n \in Nat /\ from \in Nat /\ from > 0
  BY HttpRequestAssumption DEF Begins, HeadTaken
<1>2. ~chunked(r)
  BY ChunkedIsSaid
<1>3. IsRequest(s) <=> IsContent(s, r, from)
  BY ContentDecides
<1>4. IsContent(s, r, from) <=>
        Len(s) = from - 1 + contentLength(r) /\ IsClosed(s, r, Len(s) > from, Len(s))
  BY <1>2 DEF IsContent
<1>5. Len(u) = from - 1 + contentLength(r) /\ Len(u) = from - 1 + Len(r.body)
  BY DEF LengthPart
<1>6. ASSUME Len(s) = Len(u)
      PROVE  IsClosed(s, r, Len(s) > from, Len(s)) <=>
                /\ type # "multipart without boundary"
                /\ type = "multipart" /\ Len(r.body) > 1 => r.body[Len(r.body)].k = "eob"
  <2>1. Len(s) > from <=> Len(r.body) > 1
    BY <1>1, <1>5, <1>6
  <2>2. ASSUME Len(r.body) > 1 PROVE s[Len(s)] = r.body[Len(r.body)]
    <3>1. Len(u) \in 1 .. Len(u) /\ Len(r.body) > 0
      BY <1>1, <1>5, <2>2
    <3> QED
      BY <1>6, <3>1 DEF Begins, LengthPart
  <2> QED
    BY <2>1, <2>2 DEF IsClosed
<1> QED
  BY <1>3, <1>4, <1>5, <1>6

\* The head stays taken.
LEMMA HeadKept ==
  ASSUME NEW u, NEW t, Begins(u, t), NEW r, NEW q, q.headers = r.headers,
         NEW n, HeadTaken(r, t, n)
  PROVE  HeadTaken(q, u, n)
<1>1. n \in Nat \ {0} /\ n \in 1 .. MaxHeaderLen + 1 /\ IsHead(t, n)
  BY HttpRequestAssumption DEF HeadTaken
<1>2. IsHead(u, n) /\ \A i \in 1 .. n : u[3 * i + 1] = t[3 * i + 1]
  BY <1>1, OneHead
<1>3. [i \in 1 .. n |-> t[3 * i + 1]] = [i \in 1 .. n |-> u[3 * i + 1]]
  BY <1>2
<1> QED
  BY <1>1, <1>2, <1>3 DEF HeadTaken

\* The part of the content that a step knows is all that a request without
\* refusal and with a header needs.
LEMMA HeadedFine ==
  ASSUME NEW r, NEW u, NEW b, NEW w, NEW n, HeadTaken(r, u, n),
         r.headers \in Seq(Given), r.body \in Seq(Given),
         \/ r.state = "CHECK_CONTENT" /\ ContentPart(r, u, 3 * n + 6)
         \/ r.state = "CHECK_DONE" /\ IsRequest(u),
         r.ret = "AGAIN_REQUEST" /\ w = "parsed" => \A s : Begins(s, u) => ~IsRequest(s)
  PROVE  Fine(r, u, b, w)
<1>1. PartOf(r, u)
  BY DEF PartOf
<1>2. Waits(r, u, b, w)
  BY DEF Waits, Reads
<1> QED
  BY <1>1, <1>2 DEF Fine

\* parseRequestContent with a Content-Length, with the head taken.
LEMMA LengthHeaded ==
  ASSUME ParserTypes, Fine(req, taken, buf, busy), ParseContentLength,
         NEW n, HeadTaken(req, taken, n), ContentPart(req, taken, 3 * n + 6), ~req.refused
  PROVE  Fine(req', taken', buf', busy')
<1>1. /\ req.state = "CHECK_CONTENT"
      /\ ~Has(req, "Transfer-Encoding") /\ Has(req, "Content-Length")
  BY DEF ParseContentLength, Parsing
<1>b. PICK b \in Seq(Given) : b = buf
  BY DEF ParserTypes
<1>t. PICK t \in Seq(Given) : t = taken
  BY DEF ParserTypes
<1>x. PICK x \in Seq(Given) : x = req.body
  BY DEF Fine
<1>h. req.headers \in Seq(Given)
  BY DEF Fine
<1>2. PICK from \in Nat : from = 3 * n + 6
  BY HttpRequestAssumption DEF HeadTaken
<1>f. from > 0
  BY <1>2, HttpRequestAssumption DEF HeadTaken
<1>3. PICK l \in Nat : l = contentLength(req)
  BY <1>1, <1>t, LengthIsNat
<1>4. /\ Len(t) = from - 1 + Len(x) /\ Len(x) <= l
      /\ Len(x) > 0 => x[Len(x)] = t[Len(t)]
  BY <1>1, <1>2, <1>3, <1>t, <1>x DEF ContentPart, LengthPart
<1>l. Len(t) \in Nat /\ Len(x) \in Nat /\ Len(b) \in Nat
  OBVIOUS
<1>k. PICK k \in Nat : k = Len(x)
  BY <1>l
<1>5. PICK missing \in Int : missing = l - k
  OBVIOUS
<1>6. \/ missing > Len(b) /\ Again
      \/ /\ missing \in 0 .. Len(b)
         /\ Retrieve(missing) /\ Content(x \o SubSeq(b, 1, missing))
  BY <1>3, <1>5, <1>b, <1>k, <1>x DEF ParseContentLength
<1>7. CASE missing > Len(b) /\ Again
  <2>1. ASSUME NEW s, Reads(s, t, b), IsRequest(s) PROVE FALSE
    <3>1. Begins(s, t) /\ Len(s) <= Len(t) + Len(b) /\ Len(s) \in Nat
      BY <2>1 DEF Reads, Begins
    <3>2. IsContent(s, req, 3 * n + 6)
      BY <1>t, <2>1, <3>1, ContentDecides
    <3>3. ~chunked(req)
      BY <1>1, ChunkedIsSaid
    <3>4. Len(s) = from - 1 + l
      BY <1>1, <1>2, <1>3, <3>2, <3>3 DEF IsContent
    <3> QED
      BY <1>4, <1>5, <1>7, <1>k, <1>l, <3>1, <3>4
  <2> QED
    BY <1>7, <1>b, <1>t, <2>1, AgainFine
<1>8. CASE missing \in 0 .. Len(b) /\ Retrieve(missing) /\ Content(x \o SubSeq(b, 1, missing))
  <2>1. PICK y : y = x \o SubSeq(b, 1, missing)
    OBVIOUS
  <2>2. /\ y \in Seq(Given) /\ Len(y) = l /\ Len(y) \in Nat
        /\ missing > 0 => y[Len(y)] = b[missing]
        /\ missing = 0 => y = x
        /\ Len(y) > 0 => Last(y) = y[Len(y)]
    <3>1. missing \in 0 .. Len(b)
      BY <1>8
    <3>2. Grown(x \o SubSeq(b, 1, missing), x, b, missing)
      BY <3>1, BodyGrows
    <3>3. Grown(y, x, b, missing)
      BY <2>1, <3>2
    <3>4. Len(y) = Len(x) + missing
      BY <3>3 DEF Grown
    <3>5. Len(y) = l
      BY <1>5, <1>k, <3>4
    <3> QED
      BY <3>3, <3>5 DEF Grown
  <2>3. PICK u : u = taken'
    OBVIOUS
  <2>4. /\ Begins(u, t) /\ Len(u) = Len(t) + missing /\ u \in Seq(Given)
        /\ \A i \in 1 .. missing : u[Len(t) + i] = b[i]
    <3>1. missing \in Nat /\ missing <= Len(buf) /\ Retrieve(missing)
      BY <1>8, <1>b
    <3> QED
      BY <1>b, <1>t, <2>3, <3>1, TakenFacts
  <2>5. PICK q : q = req'
    OBVIOUS
  <2>6. PICK type : type = Get(req, "Content-Type")
    OBVIOUS
  <2>7. /\ q.body = y /\ q.headers = req.headers
        /\ \/ q.refused /\ q.state = "CHECK_CONTENT"
           \/ /\ q.ret = "AGAIN_REQUEST" /\ q.state = "CHECK_CONTENT"
              /\ type = "multipart" /\ Len(y) > 1 /\ Last(y).k # "eob"
           \/ /\ q.ret = "OK_REQUEST" /\ q.state = "CHECK_DONE"
              /\ type # "multipart without boundary"
              /\ type = "multipart" /\ Len(y) > 1 => Last(y).k = "eob"
    <3>1. Content(y)
      BY <1>8, <2>1
    <3> QED
      BY <1>1, <2>5, <2>6, <3>1, ContentEnds
  <2>8. /\ ~Has(q, "Transfer-Encoding") /\ Has(q, "Content-Length") /\ ~chunked(q)
        /\ contentLength(q) = l /\ Get(q, "Content-Type") = type
    <3>1. /\ \A name : (Has(q, name) <=> Has(req, name)) /\ Get(q, name) = Get(req, name)
          /\ contentLength(q) = contentLength(req)
      BY <2>7, SameHeaders
    <3> QED
      BY <1>1, <1>3, <2>6, <3>1, ChunkedIsSaid
  <2>9. HeadTaken(q, u, n)
    BY <1>t, <2>4, <2>7, HeadKept
  <2>10. LengthPart(q, u, from)
    <3>1. Len(u) = from - 1 + Len(y) /\ Len(y) <= l
      <4>1. Len(t) = from - 1 + k /\ Len(u) = Len(t) + missing /\ Len(y) = l
        BY <1>4, <1>k, <2>2, <2>4
      <4>2. PICK lt \in Nat : lt = Len(t)
        BY <1>l
      <4>3. lt + missing = from - 1 + l
        BY <1>5, <4>1, <4>2
      <4> QED
        BY <4>1, <4>2, <4>3
    <3>2. ASSUME Len(y) > 0 PROVE y[Len(y)] = u[Len(u)]
      <4>1. CASE missing > 0
        <5>1. missing \in 1 .. missing
          BY <4>1
        <5> QED
          BY <2>2, <2>4, <4>1, <5>1
      <4>2. CASE missing = 0
        <5>1. Len(u) = Len(t) /\ y = x
          BY <1>l, <2>2, <2>4, <4>2
        <5>2. Len(t) \in 1 .. Len(t)
          BY <1>4, <1>f, <1>l, <3>2, <5>1
        <5>3. u[Len(t)] = t[Len(t)]
          BY <2>4, <5>2 DEF Begins
        <5> QED
          BY <1>4, <3>2, <5>1, <5>3
      <4> QED
        BY <1>8, <4>1, <4>2
    <3> QED
      BY <2>7, <2>8, <3>1, <3>2 DEF LengthPart
  <2>11. ContentPart(q, u, 3 * n + 6)
    BY <1>2, <2>8, <2>10 DEF ContentPart
  <2>12. ASSUME NEW s, Begins(s, u)
         PROVE  IsRequest(s) <=>
                    /\ Len(s) = Len(u) /\ type # "multipart without boundary"
                    /\ type = "multipart" /\ Len(y) > 1 => y[Len(y)].k = "eob"
    <3>1. Len(q.body) = contentLength(q) /\ Len(q.body) \in Nat /\ type = Get(q, "Content-Type")
      BY <2>2, <2>7, <2>8
    <3> QED
      BY <1>2, <2>7, <2>8, <2>9, <2>10, <2>12, <3>1, LengthDecides
  <2>13. q.headers \in Seq(Given) /\ q.body \in Seq(Given)
    BY <1>h, <2>2, <2>7
  <2>14. CASE q.refused /\ q.state = "CHECK_CONTENT"
    BY <2>3, <2>5, <2>13, <2>14, RefusedFine
  <2>15. CASE /\ q.ret = "AGAIN_REQUEST" /\ q.state = "CHECK_CONTENT"
              /\ type = "multipart" /\ Len(y) > 1 /\ Last(y).k # "eob"
    <3>1. y[Len(y)].k # "eob"
      BY <2>2, <2>15
    <3>2. \A s : Begins(s, u) => ~IsRequest(s)
      BY <2>12, <2>15, <3>1
    <3>3. \A c, w : Fine(q, u, c, w)
      BY <2>9, <2>11, <2>13, <2>15, <3>2, HeadedFine
    <3> QED
      BY <2>3, <2>5, <3>3
  <2>16. CASE /\ q.ret = "OK_REQUEST" /\ q.state = "CHECK_DONE"
              /\ type # "multipart without boundary"
              /\ type = "multipart" /\ Len(y) > 1 => Last(y).k = "eob"
    <3>1. Begins(u, u)
      BY <2>4, BeginsItself
    <3>2. Len(y) > 1 => Last(y) = y[Len(y)]
      BY <2>2
    <3>3. IsRequest(u)
      BY <2>12, <2>16, <3>1, <3>2
    <3>4. \A c, w : Fine(q, u, c, w)
      BY <2>9, <2>13, <2>16, <3>3, HeadedFine
    <3> QED
      BY <2>3, <2>5, <3>4
  <2> QED
    BY <2>7, <2>14, <2>15, <2>16
<1> QED
  BY <1>6, <1>7, <1>8

\* A step of parseRequestContent or parseChunked, whatever the headers are.
ContentStep ==
    /\ req'.headers \in Seq(Given) /\ req'.body \in Seq(Given)
    /\ req'.state \in {"CHECK_CONTENT", "CHECK_DONE"}
    /\ req.refused => req'.refused
    /\ Begins(taken', taken)

\* It is all there is to say of a request that was refused or has no header.
LEMMA OtherFine ==
  ASSUME ContentStep, req.refused \/ At(taken, 4, CRLF)
  PROVE  Fine(req', taken', buf', busy')
<1>1. CASE req.refused
  <2>1. PICK q : q = req'
    OBVIOUS
  <2>2. /\ q.headers \in Seq(Given) /\ q.body \in Seq(Given) /\ q.refused
        /\ q.state # "CHECK_REQUESTLINE"
    BY <1>1, <2>1 DEF ContentStep
  <2>3. \A t, b, w : Fine(q, t, b, w)
    BY <2>2, RefusedFine
  <2> QED
    BY <2>1, <2>3
<1>2. CASE At(taken, 4, CRLF)
  <2>1. PICK q : q = req'
    OBVIOUS
  <2>2. PICK u : u = taken'
    OBVIOUS
  <2>3. /\ q.headers \in Seq(Given) /\ q.body \in Seq(Given)
        /\ q.state \in {"CHECK_CONTENT", "CHECK_DONE"} /\ Begins(u, taken)
    BY <2>1, <2>2 DEF ContentStep
  <2>4. \A b, w : Fine(q, u, b, w)
    BY <1>2, <2>3, HeadlessFine
  <2> QED
    BY <2>1, <2>2, <2>4
<1> QED
  BY <1>1, <1>2

\* The ways in which such a step ends: more is asked for,
LEMMA AgainStep ==
  ASSUME ParserTypes, Fine(req, taken, buf, busy), req.state = "CHECK_CONTENT", Again
  PROVE  ContentStep
<1>1. PICK q : q = [req EXCEPT !.ret = "AGAIN_REQUEST"]
  OBVIOUS
<1>2. /\ q.state = req.state /\ q.headers = req.headers /\ q.body = req.body
      /\ q.refused = req.refused
  BY <1>1 DEF ParserTypes, RequestFields
<1>3. req' = q /\ taken' = taken
  BY <1>1 DEF Again, Return, RetrieveNothing
<1>4. req.headers \in Seq(Given) /\ req.body \in Seq(Given)
  BY DEF Fine
<1>5. Begins(taken, taken)
  BY BeginsItself DEF ParserTypes
<1> QED
  BY <1>2, <1>3, <1>4, <1>5 DEF ContentStep

\* or the content is bad,
LEMMA BadStep ==
  ASSUME ParserTypes, Fine(req, taken, buf, busy), req.state = "CHECK_CONTENT", Bad
  PROVE  Fine(req', taken', buf', busy')
<1>1. req.headers \in Seq(Given) /\ req.body \in Seq(Given)
  BY DEF Fine
<1>2. DOMAIN req = RequestFields /\ Refuse(req)
  BY DEF ParserTypes, Bad
<1> QED
  BY <1>1, <1>2, RefuseFine

\* or there is all of it.
LEMMA EndStep ==
  ASSUME ParserTypes, Fine(req, taken, buf, busy), req.state = "CHECK_CONTENT",
         NEW body \in Seq(Given), Content(body), NEW n \in Nat, n <= Len(buf), Retrieve(n)
  PROVE  ContentStep
<1>1. Begins(taken', taken)
  BY TakenFacts
<1>2. PICK type : type = Get(req, "Content-Type")
  OBVIOUS
<1>3. /\ req'.body = body /\ req'.headers = req.headers
      /\ \/ req'.refused /\ req'.state = "CHECK_CONTENT"
         \/ req'.state = "CHECK_CONTENT" /\ req'.refused = req.refused
         \/ req'.state = "CHECK_DONE" /\ req'.refused = req.refused
  BY <1>2, ContentEnds
<1>4. req.headers \in Seq(Given)
  BY DEF Fine
<1> QED
  BY <1>1, <1>3, <1>4 DEF ContentStep

\* What is known of the content that a step goes on with.
LEMMA ContentCases ==
  ASSUME Fine(req, taken, buf, busy), req.state = "CHECK_CONTENT"
  PROVE  \/ req.refused \/ At(taken, 4, CRLF)
         \/ ~req.refused /\ \E n : HeadTaken(req, taken, n) /\ ContentPart(req, taken, 3 * n + 6)
BY DEF Fine, PartOf

\* parseRequestContent with a Content-Length
LEMMA ParseLengthFine ==
  ASSUME ParserTypes, Fine(req, taken, buf, busy), ParseContentLength
  PROVE  Fine(req', taken', buf', busy')
<1>1. req.state = "CHECK_CONTENT"
  BY DEF ParseContentLength, Parsing
<1>2. CASE req.refused \/ At(taken, 4, CRLF)
  <2>1. PICK x \in Seq(Given) : x = req.body
    BY DEF Fine
  <2>b. PICK b \in Seq(Given) : b = buf
    BY DEF ParserTypes
  <2>2. PICK missing : missing = contentLength(req) - Len(x)
    OBVIOUS
  <2>3. \/ missing > Len(b) /\ Again
        \/ /\ missing \in 0 .. Len(b)
           /\ Retrieve(missing) /\ Content(x \o SubSeq(b, 1, missing))
    BY <2>1, <2>2, <2>b DEF ParseContentLength
  <2>4. CASE missing > Len(b) /\ Again
    BY <1>1, <1>2, <2>4, AgainStep, OtherFine
  <2>5. CASE missing \in 0 .. Len(b) /\ Retrieve(missing) /\ Content(x \o SubSeq(b, 1, missing))
    <3>1. PICK m \in 0 .. Len(b) : m = missing
      BY <2>5
    <3>2. Grown(x \o SubSeq(b, 1, m), x, b, m)
      BY BodyGrows
    <3>3. PICK y : y = x \o SubSeq(b, 1, m)
      OBVIOUS
    <3>4. y \in Seq(Given)
      BY <3>2, <3>3 DEF Grown
    <3>5. Content(y) /\ Retrieve(m) /\ m \in Nat /\ m <= Len(buf)
      BY <2>5, <2>b, <3>1, <3>3
    <3>6. ContentStep
      BY <1>1, <3>4, <3>5, EndStep
    <3> QED
      BY <1>2, <3>6, OtherFine
  <2> QED
    BY <2>3, <2>4, <2>5
<1>3. CASE ~req.refused /\ \E n : HeadTaken(req, taken, n) /\ ContentPart(req, taken, 3 * n + 6)
  BY <1>3, LengthHeaded
<1> QED
  BY <1>1, <1>2, <1>3, ContentCases

\* parseRequestContent without a Content-Length
LEMMA NoContentFine ==
  ASSUME ParserTypes, Fine(req, taken, buf, busy), LineIsFirst, ParseNoContent
  PROVE  Fine(req', taken', buf', busy')
<1>1. /\ req.state = "CHECK_CONTENT" /\ UNCHANGED <<buf, taken>>
      /\ ~Has(req, "Transfer-Encoding") /\ ~Has(req, "Content-Length")
  BY DEF ParseNoContent, Parsing, RetrieveNothing
<1>2. CASE Bad
  BY <1>1, <1>2, BadStep
<1>3. CASE /\ req.method \in {"GET", "HEAD"}
           /\ Return([req EXCEPT !.ret = "OK_REQUEST", !.state = "CHECK_DONE"])
  <2>1. PICK q : q = [req EXCEPT !.ret = "OK_REQUEST", !.state = "CHECK_DONE"]
    OBVIOUS
  <2>2. req' = q
    BY <1>3, <2>1 DEF Return
  <2>3. /\ q.headers = req.headers /\ q.body = req.body /\ q.refused = req.refused
        /\ q.state = "CHECK_DONE" /\ q.ret = "OK_REQUEST"
    BY <2>1 DEF ParserTypes, RequestFields
  <2>4. req.headers \in Seq(Given) /\ req.body \in Seq(Given)
    BY DEF Fine
  <2>5. PICK t \in Seq(Given) : t = taken
    BY DEF ParserTypes
  <2>6. Begins(t, t)
    BY BeginsItself
  <2>7. CASE req.refused \/ At(taken, 4, CRLF)
    <3>1. ContentStep
      BY <1>1, <2>2, <2>3, <2>4, <2>5, <2>6 DEF ContentStep
    <3> QED
      BY <2>7, <3>1, OtherFine
  <2>8. CASE ~req.refused /\ \E n : HeadTaken(req, taken, n) /\ ContentPart(req, taken, 3 * n + 6)
    <3>1. PICK n : HeadTaken(req, t, n) /\ ContentPart(req, t, 3 * n + 6)
      BY <2>5, <2>8
    <3>f. PICK from : from = 3 * n + 6
      OBVIOUS
    <3>2. Len(t) = from - 1
      BY <1>1, <3>1, <3>f DEF ContentPart
    <3>3. t[1].method \in {"GET", "HEAD"}
      BY <1>1, <1>3, <2>5 DEF LineIsFirst
    <3>4. IsContent(t, req, from)
      BY <1>1, <3>2, <3>3 DEF IsContent
    <3>5. IsRequest(t)
      BY <2>6, <3>1, <3>4, <3>f, ContentDecides
    <3>6. HeadTaken(q, t, n)
      BY <2>3, <2>6, <3>1, HeadKept
    <3>7. \A c, w : Fine(q, t, c, w)
      BY <2>3, <2>4, <3>5, <3>6, HeadedFine
    <3> QED
      BY <1>1, <2>2, <2>5, <3>7
  <2> QED
    BY <1>1, <2>7, <2>8, ContentCases
<1> QED
  BY <1>2, <1>3 DEF ParseNoContent

\* parseRequestContent with a Transfer-Encoding that is not known
LEMMA OtherEncodingFine ==
  ASSUME ParserTypes, Fine(req, taken, buf, busy), ParseOtherEncoding
  PROVE  Fine(req', taken', buf', busy')
BY BadStep DEF ParseOtherEncoding, Parsing

-----------------------------------------------------------------------------
(* Chunks.                                                                 *)

\* Chunked content is a matter of its chunks.
LEMMA ChunksDecide ==
  ASSUME NEW s, NEW t, Begins(s, t), NEW r, NEW n, HeadTaken(r, t, n), chunked(r),
         NEW from, from = 3 * n + 6
  PROVE  IsRequest(s) <=>
            IsChunked(s, from) /\ IsClosed(s, r, Len(s) > from + 10, Len(s) - 7)
<1>1. Has(r, "Transfer-Encoding")
  BY ChunkedIsSaid
<1>2. PICK f : f = 3 * n + 6
  OBVIOUS
<1>3. IsRequest(s) <=> IsContent(s, r, f)
  BY <1>2, ContentDecides
<1>4. IsContent(s, r, f) <=> IsChunked(s, f) /\ IsClosed(s, r, Len(s) > f + 10, Len(s) - 7)
  BY <1>1 DEF IsContent
<1> QED
  BY <1>2, <1>3, <1>4

\* The content that was taken so far goes on with a chunk at p.
LEMMA ChunkHead ==
  ASSUME Fine(req, taken, buf, busy), chunked(req), req.state = "CHECK_CONTENT"
  PROVE  \/ req.refused \/ At(taken, 4, CRLF)
         \/ /\ ~req.refused
            /\ \E n, p : /\ HeadTaken(req, taken, n) /\ n \in Nat
                         /\ ChunkPart(req, taken, 3 * n + 6, p)
<1>1. ASSUME NEW n, HeadTaken(req, taken, n), ContentPart(req, taken, 3 * n + 6)
      PROVE  n \in Nat /\ \E p : ChunkPart(req, taken, 3 * n + 6, p)
  <2>1. PICK f : f = 3 * n + 6
    OBVIOUS
  <2>2. \E p : ChunkPart(req, taken, f, p)
    BY <1>1, <2>1 DEF ContentPart
  <2>3. n \in Nat
    BY <1>1, HttpRequestAssumption DEF HeadTaken
  <2> QED
    BY <2>1, <2>2, <2>3
<1> QED
  BY <1>1, ContentCases

\* With more input, the body is still the one of the chunks up to p.
LEMMA BodyOn ==
  ASSUME NEW u, NEW t, Begins(u, t), NEW r, NEW q, q.body = r.body,
         NEW from \in Nat \ {0}, NEW p \in Nat, p - 1 <= Len(t), BodyPart(r, t, from, p)
  PROVE  BodyPart(q, u, from, p)
<1>1. ASSUME p >= from + 6 PROVE u[p - 3] = t[p - 3]
  <2>1. p - 3 \in 1 .. Len(t)
    BY <1>1 DEF Begins
  <2> QED
    BY <2>1 DEF Begins
<1> QED
  BY <1>1 DEF BodyPart

\* A step that ends in the content, after the head and chunks up to p.
LEMMA ChunkFine ==
  ASSUME NEW t, NEW u, Begins(u, t), NEW r, NEW q, q.headers = r.headers,
         q.headers \in Seq(Given), q.body \in Seq(Given),
         NEW n, HeadTaken(r, t, n), chunked(r), q.state = "CHECK_CONTENT",
         NEW p, NEW from, from = 3 * n + 6, ChunkPart(q, u, from, p), NEW c, NEW w,
         q.ret = "AGAIN_REQUEST" /\ w = "parsed" => \A s : Begins(s, u) => ~IsRequest(s)
  PROVE  Fine(q, u, c, w)
<1>1. HeadTaken(q, u, n)
  BY HeadKept
<1>2. chunked(q)
  BY SameHeaders
<1>3. Has(q, "Transfer-Encoding")
  BY <1>2, ChunkedIsSaid
<1>4. PICK f : f = 3 * n + 6
  OBVIOUS
<1>5. ChunkPart(q, u, f, p)
  BY <1>4
<1>6. ContentPart(q, u, f)
  BY <1>3, <1>5 DEF ContentPart
<1> QED
  BY <1>1, <1>4, <1>6, HeadedFine

\* A chunk size that is not all there, or too long, is not waited for in vain.
LEMMA SizeWaits ==
  ASSUME NEW s, NEW t, NEW b, Reads(s, t, b), NEW from \in Nat \ {0}, NEW p \in Nat,
         Forced(t, from, p), Len(t) = p - 1, IsChunked(s, from)
  PROVE  /\ b[1].k = "size" /\ b[1].digits <= chunk_size_str_limit
         /\ Find(b, CRLF) > 0
<1>1. /\ s \in Seq(Given) /\ b \in Seq(Given) /\ Begins(s, t)
      /\ Len(s) \in Nat /\ Len(b) \in Nat /\ Len(t) \in Nat /\ Len(s) <= Len(t) + Len(b)
  <2>1. Begins(s, t) /\ b \in Seq(Given) /\ Len(s) <= Len(t) + Len(b)
    BY DEF Reads
  <2>2. s \in Seq(Given) /\ t \in Seq(Given)
    BY <2>1 DEF Begins
  <2> QED
    BY <2>1, <2>2
<1>2. /\ p \in from .. Len(s)
      /\ s[p].k = "size" /\ s[p].digits <= chunk_size_str_limit
      /\ At(s, p + 1, CRLF)
  BY <1>1, ChunkAt
<1>3. PICK j \in Nat : j = p + 1
  OBVIOUS
<1>4. j + 1 <= Len(s)
  BY <1>1, <1>2, <1>3, AtLineEnd
<1>5. s[p] = b[1]
  <2>1. 1 \in 1 .. Len(s) - Len(t) /\ Len(t) + 1 = p
    BY <1>1, <1>3, <1>4
  <2> QED
    BY <2>1 DEF Reads
<1>6. At(b, 2, CRLF) /\ 2 \in 1 .. Len(b)
  <2>1. j = Len(t) + 2 /\ 2 \in Nat \ {0} /\ 2 \in 1 .. Len(b)
    BY <1>1, <1>3, <1>4
  <2> QED
    BY <1>2, <1>3, <1>4, <2>1, AtRead
<1>7. Find(b, CRLF) \in 1 .. 2
  BY <1>1, <1>6, FindFirst
<1> QED
  BY <1>2, <1>5, <1>7

\* The size of a chunk was taken.
LEMMA SizeTaken ==
  ASSUME NEW u, NEW t, NEW b, Reads(u, t, b), NEW from \in Nat \ {0}, NEW p \in Nat,
         NEW r, ChunkPart(r, t, from, p), r.chunkState = "NO_LEN", Len(u) = Len(t) + 3,
         b[1].k = "size", b[1].digits <= chunk_size_str_limit, At(b, 2, CRLF),
         NEW m \in Nat, m = b[1].n, NEW q, q.body = r.body, q.chunkSize = m,
         q.chunkState = IF m = 0 THEN "DONE" ELSE "NO_DATA"
  PROVE  ChunkPart(q, u, from, p)
<1>1. /\ u \in Seq(Given) /\ Begins(u, t) /\ Len(t) \in Nat /\ Len(u) \in Nat
  BY DEF Reads, Begins
<1>2. /\ p >= from /\ Reached(t, from, p) /\ Forced(t, from, p) /\ BodyPart(r, t, from, p)
      /\ Len(t) = p - 1
  BY DEF ChunkPart
<1>3. Len(u) = p + 2 /\ p - 1 <= Len(t)
  BY <1>1, <1>2
<1>4. Reached(u, from, p) /\ Forced(u, from, p) /\ BodyPart(q, u, from, p)
  BY <1>1, <1>2, <1>3, ReachedOn, ForcedOn, BodyOn
<1>5. SizeAt(u, p, m)
  <2>1. 1 \in 1 .. Len(u) - Len(t) /\ Len(t) + 1 = p
    BY <1>1, <1>2
  <2>2. u[p] = b[1]
    BY <2>1 DEF Reads
  <2>3. PICK j \in Nat : j = p + 1
    OBVIOUS
  <2>4. j = Len(t) + 2 /\ 2 \in Nat \ {0} /\ j + 1 <= Len(u)
    BY <1>1, <1>2, <1>3, <2>3
  <2>5. At(u, j, CRLF)
    BY <2>4, AtRead
  <2> QED
    BY <2>2, <2>3, <2>5 DEF SizeAt
<1>6. m = 0 => q.chunkState = "DONE"
  OBVIOUS
<1>7. m # 0 => q.chunkState = "NO_DATA" /\ m > 0
  OBVIOUS
<1>8. q.chunkState = "DONE" => m = 0
  OBVIOUS
<1>9. q.chunkState = "NO_DATA" => m > 0
  OBVIOUS
<1>10. q.chunkState # "NO_LEN"
  OBVIOUS
<1>11. Len(u) >= p + 2 /\ ~(Len(u) > p + 2)
  BY <1>3
<1> QED
  BY <1>2, <1>3, <1>4, <1>5, <1>8, <1>9, <1>10, <1>11 DEF ChunkPart

\* parseChunked, NO_LEN
LEMMA ChunkLengthFine ==
  ASSUME ParserTypes, Fine(req, taken, buf, busy), ChunkLength
  PROVE  Fine(req', taken', buf', busy')
<1>1. /\ req.state = "CHECK_CONTENT" /\ chunked(req) /\ req.chunkState = "NO_LEN"
      /\ busy = "parsing"
  BY DEF ChunkLength, ParsingChunk, Parsing
<1>b. PICK b \in Seq(Given) : b = buf
  BY DEF ParserTypes
<1>t. PICK t \in Seq(Given) : t = taken
  BY DEF ParserTypes
<1>h. req.headers \in Seq(Given) /\ req.body \in Seq(Given)
  BY DEF Fine
<1>2. PICK crlf : crlf = Find(b, CRLF)
  OBVIOUS
<1>3. CASE Bad
  BY <1>1, <1>3, BadStep
<1>4. CASE ~ShortSize(crlf) /\ Again
  <2>1. CASE req.refused \/ At(taken, 4, CRLF)
    BY <1>1, <1>4, <2>1, AgainStep, OtherFine
  <2>2. ASSUME NEW n, NEW p, HeadTaken(req, t, n), n \in Nat, ChunkPart(req, t, 3 * n + 6, p)
        PROVE  \A s : Reads(s, t, b) => ~IsRequest(s)
    <3>1. PICK from \in Nat \ {0} : from = 3 * n + 6
      BY <2>2
    <3>2. p \in Nat /\ Forced(t, from, p) /\ Len(t) = p - 1
      BY <1>1, <2>2, <3>1 DEF ChunkPart
    <3>3. ASSUME NEW s, Reads(s, t, b), IsRequest(s) PROVE FALSE
      <4>1. Begins(s, t)
        BY <3>3 DEF Reads
      <4>2. IsChunked(s, from)
        BY <1>1, <2>2, <3>1, <3>3, <4>1, ChunksDecide
      <4>3. b[1].k = "size" /\ b[1].digits <= chunk_size_str_limit /\ Find(b, CRLF) > 0
        BY <3>2, <3>3, <4>2, SizeWaits
      <4> QED
        BY <1>2, <1>4, <1>b, <4>3 DEF ShortSize
    <3> QED
      BY <3>3
  <2>3. CASE \E n, p : HeadTaken(req, taken, n) /\ n \in Nat /\ ChunkPart(req, taken, 3 * n + 6, p)
    <3>1. \A s : Reads(s, t, b) => ~IsRequest(s)
      BY <1>t, <2>2, <2>3
    <3> QED
      BY <1>4, <1>b, <1>t, <3>1, AgainFine
  <2> QED
    BY <1>1, <2>1, <2>3, ChunkHead
<1>5. CASE /\ ShortSize(crlf) /\ ~(crlf # 2 \/ buf[1].k # "size" \/ buf[1].n < 0)
           /\ Retrieve(3) /\ UNCHANGED busy
           /\ req' = [req EXCEPT !.chunkSize = buf[1].n,
                                 !.chunkState = IF buf[1].n = 0 THEN "DONE" ELSE "NO_DATA"]
  <2>1. crlf = 2 /\ b[1].k = "size" /\ b[1].digits <= chunk_size_str_limit
    BY <1>5, <1>b DEF ShortSize
  <2>2. At(b, 2, CRLF) /\ 3 <= Len(b) /\ 1 \in 1 .. Len(b)
    <3>1. crlf # 0
      BY <2>1
    <3>2. At(b, crlf, CRLF)
      BY <1>2, <3>1, FindFacts
    <3>3. At(b, 2, CRLF) /\ Len(b) \in Nat
      BY <2>1, <3>2
    <3>4. 2 + 1 <= Len(b)
      BY <3>3, AtLineEnd
    <3> QED
      BY <3>3, <3>4
  <2>3. PICK m \in Nat : m = b[1].n
    <3>1. b[1] \in Tokens
      BY <2>2, GivenFacts
    <3>2. b[1].n \in Int
      BY <2>1, <3>1, TokenFacts
    <3>3. ~(b[1].n < 0)
      BY <1>5, <1>b
    <3> QED
      BY <3>2, <3>3
  <2>4. PICK q : q = [req EXCEPT !.chunkSize = m,
                                 !.chunkState = IF m = 0 THEN "DONE" ELSE "NO_DATA"]
    OBVIOUS
  <2>5. req' = q
    BY <1>5, <1>b, <2>3, <2>4
  <2>6. /\ q.state = "CHECK_CONTENT" /\ q.headers = req.headers /\ q.body = req.body
        /\ q.refused = req.refused /\ q.chunkSize = m
        /\ q.chunkState = IF m = 0 THEN "DONE" ELSE "NO_DATA"
    BY <1>1, <2>4 DEF ParserTypes, RequestFields
  <2>7. PICK u : u = taken'
    OBVIOUS
  <2>8. Reads(u, t, b) /\ Len(u) = Len(t) + 3 /\ Begins(u, t)
    <3>1. 3 \in Nat /\ 3 <= Len(buf) /\ Retrieve(3)
      BY <1>5, <1>b, <2>2
    <3> QED
      BY <1>b, <1>t, <2>7, <3>1, TakenFacts
  <2>9. CASE req.refused \/ At(taken, 4, CRLF)
    <3>1. ContentStep
      BY <1>h, <1>t, <2>5, <2>6, <2>7, <2>8 DEF ContentStep
    <3> QED
      BY <2>9, <3>1, OtherFine
  <2>10. ASSUME NEW n, NEW p, HeadTaken(req, t, n), n \in Nat, ChunkPart(req, t, 3 * n + 6, p)
         PROVE  \A c : Fine(q, u, c, "parsing")
    <3>1. PICK from \in Nat \ {0} : from = 3 * n + 6
      BY <2>10
    <3>2. p \in Nat /\ ChunkPart(req, t, from, p)
      BY <2>10, <3>1 DEF ChunkPart
    <3>3. ChunkPart(q, u, from, p)
      BY <1>1, <2>1, <2>2, <2>3, <2>6, <2>8, <3>2, SizeTaken
    <3>4. q.headers \in Seq(Given) /\ q.body \in Seq(Given)
      BY <1>h, <2>6
    <3> QED
      BY <1>1, <2>6, <2>8, <2>10, <3>1, <3>3, <3>4, ChunkFine
  <2>11. CASE \E n, p : HeadTaken(req, taken, n) /\ n \in Nat /\ ChunkPart(req, taken, 3 * n + 6, p)
    <3>1. \A c : Fine(q, u, c, "parsing")
      BY <1>t, <2>10, <2>11
    <3>2. busy' = "parsing"
      BY <1>1, <1>5
    <3>3. Fine(q, u, buf', "parsing")
      BY <3>1
    <3> QED
      BY <2>5, <2>7, <3>2, <3>3
  <2> QED
    BY <1>1, <2>9, <2>11, ChunkHead
<1>6. \/ ~ShortSize(crlf) /\ Again
      \/ Bad
      \/ /\ ShortSize(crlf) /\ ~(crlf # 2 \/ buf[1].k # "size" \/ buf[1].n < 0)
         /\ Retrieve(3) /\ UNCHANGED busy
         /\ req' = [req EXCEPT !.chunkSize = buf[1].n,
                               !.chunkState = IF buf[1].n = 0 THEN "DONE" ELSE "NO_DATA"]
  BY <1>2, <1>b DEF ChunkLength
<1> QED
  BY <1>3, <1>4, <1>5, <1>6

\* The data of a chunk is waited for as long as it is not all there.
LEMMA DataWaits ==
  ASSUME NEW s, NEW t, NEW b, Reads(s, t, b), NEW from \in Nat \ {0}, NEW p \in Nat, p >= from,
         NEW m \in Nat \ {0}, Forced(t, from, p), Len(t) = p + 2, SizeAt(t, p, m),
         IsChunked(s, from)
  PROVE  Len(b) >= m + 2
<1>1. /\ Begins(s, t) /\ Len(s) \in Nat /\ Len(b) \in Nat /\ Len(t) \in Nat
      /\ Len(s) <= Len(t) + Len(b)
  BY DEF Reads, Begins
<1>2. p \in 1 .. Len(t)
  BY <1>1
<1>3. s[p].n = m
  BY <1>1, <1>2 DEF Begins, SizeAt
<1>4. s[p].n # 0 => At(s, p + 3 + s[p].n, CRLF)
  BY <1>1, ChunkAt
<1>5. PICK j \in Int : j = p + 3 + m
  OBVIOUS
<1>6. At(s, j, CRLF)
  BY <1>3, <1>4, <1>5
<1>7. j + 1 <= Len(s)
  BY <1>1, <1>6, AtLineEnd
<1> QED
  BY <1>1, <1>5, <1>7

\* The data of a chunk and its line end were taken.
LEMMA DataTaken ==
  ASSUME NEW u, NEW t, NEW b, Reads(u, t, b), NEW from \in Nat \ {0}, NEW p \in Nat,
         NEW r, ChunkPart(r, t, from, p), r.chunkState = "NO_DATA", NEW x \in Seq(Given), r.body = x,
         NEW m \in Nat \ {0}, r.chunkSize = m, Len(u) = Len(t) + m + 2, At(b, m + 1, CRLF),
         NEW y, Grown(y, x, b, m), NEW q, q.body = y, q.chunkState = "NO_LEN",
         NEW next, next = p + 5 + m
  PROVE  ChunkPart(q, u, from, next)
<1>0. Begins(u, t)
  BY DEF Reads
<1>s. u \in Seq(Given) /\ t \in Seq(Given)
  BY <1>0 DEF Begins
<1>1. /\ u \in Seq(Given) /\ Begins(u, t) /\ Len(t) \in Nat /\ Len(u) \in Nat
  BY <1>0, <1>s
<1>2. /\ p >= from /\ Reached(t, from, p) /\ Forced(t, from, p) /\ BodyPart(r, t, from, p)
      /\ Len(t) = p + 2 /\ SizeAt(t, p, m)
  BY DEF ChunkPart
<1>3. Len(u) = p + 4 + m /\ p - 1 <= Len(t) /\ next \in Nat /\ next >= from /\ Len(u) = next - 1
  BY <1>1, <1>2
<1>4. SizeAt(u, p, m)
  <2>1. p \in 1 .. Len(t) /\ p + 1 \in Nat \ {0} /\ p + 1 + 1 <= Len(t)
    BY <1>1, <1>2
  <2>2. u[p] = t[p]
    BY <1>1, <2>1 DEF Begins
  <2>3. At(u, p + 1, CRLF)
    BY <1>1, <1>2, <2>1, StaysAt DEF SizeAt
  <2> QED
    BY <1>2, <2>2, <2>3 DEF SizeAt
<1>5. At(u, p + 3 + m, CRLF)
  <2>1. PICK j \in Nat : j = p + 3 + m
    OBVIOUS
  <2>2. PICK i \in Nat \ {0} : i = m + 1
    OBVIOUS
  <2>3. j = Len(t) + i /\ j + 1 <= Len(u)
    BY <1>2, <1>3, <2>1, <2>2
  <2>4. At(u, j, CRLF)
    BY <2>2, <2>3, AtRead
  <2> QED
    BY <2>1, <2>4
<1>6. Reached(u, from, p) /\ Forced(u, from, p)
  BY <1>1, <1>2, <1>3, ReachedOn, ForcedOn
<1>7. Reached(u, from, p + 5 + m) /\ Forced(u, from, p + 5 + m)
  BY <1>1, <1>2, <1>4, <1>5, <1>6, NextReached
<1>8. BodyPart(q, u, from, next)
  <2>1. Len(y) = Len(x) + m /\ Len(x) \in Nat /\ Len(y) \in Nat /\ y[Len(y)] = b[m]
    BY DEF Grown
  <2>2. u[next - 3] = b[m]
    <3>1. m \in 1 .. Len(u) - Len(t) /\ Len(t) + m = next - 3
      BY <1>1, <1>2, <1>3
    <3> QED
      BY <3>1 DEF Reads
  <2>3. next > from /\ next # from /\ next >= from + 6 /\ Len(y) > 0
    <3>1. PICK k \in Nat : k = Len(x)
      BY <2>1
    <3>2. Len(y) = k + m /\ k + m > 0
      BY <2>1, <3>1
    <3>3. p + 5 + m > from /\ p + 5 + m # from /\ p + 5 + m >= from + 6
      BY <1>2
    <3> QED
      BY <3>2, <3>3
  <2>4. CASE p = from
    <3>1. Len(x) = 0
      BY <1>2, <2>4 DEF BodyPart
    <3>2. Len(y) > 1 <=> next > from + 6
      BY <2>1, <2>4, <3>1
    <3> QED
      BY <2>1, <2>2, <2>3, <3>2 DEF BodyPart
  <2>5. CASE p > from
    <3>1. Len(x) > 0 /\ p >= from + 6
      BY <1>2, <2>5 DEF BodyPart
    <3>2. Len(y) > 1 /\ next > from + 6
      BY <2>1, <3>1
    <3> QED
      BY <2>1, <2>2, <2>3, <3>2 DEF BodyPart
  <2> QED
    BY <1>2, <2>4, <2>5
<1> QED
  BY <1>3, <1>7, <1>8 DEF ChunkPart

\* parseChunked, NO_DATA
LEMMA ChunkDataFine ==
  ASSUME ParserTypes, Fine(req, taken, buf, busy), ChunkData
  PROVE  Fine(req', taken', buf', busy')
<1>1. /\ req.state = "CHECK_CONTENT" /\ chunked(req) /\ req.chunkState = "NO_DATA"
      /\ busy = "parsing"
  BY DEF ChunkData, ParsingChunk, Parsing
<1>b. PICK b \in Seq(Given) : b = buf
  BY DEF ParserTypes
<1>t. PICK t \in Seq(Given) : t = taken
  BY DEF ParserTypes
<1>x. PICK x \in Seq(Given) : x = req.body
  BY DEF Fine
<1>h. req.headers \in Seq(Given)
  BY DEF Fine
<1>m. PICK m \in Nat : m = req.chunkSize
  BY DEF ParserTypes
<1>2. CASE Bad
  BY <1>1, <1>2, BadStep
<1>3. ASSUME NEW n, NEW p, HeadTaken(req, t, n), n \in Nat, ChunkPart(req, t, 3 * n + 6, p)
      PROVE  \E from \in Nat \ {0} :
                /\ from = 3 * n + 6 /\ p \in Nat /\ p >= from /\ Forced(t, from, p)
                /\ ChunkPart(req, t, from, p) /\ Len(t) = p + 2 /\ SizeAt(t, p, m) /\ m > 0
  <2>1. PICK from \in Nat \ {0} : from = 3 * n + 6
    BY <1>3
  <2>2. /\ p \in Nat /\ p >= from /\ Forced(t, from, p)
        /\ ChunkPart(req, t, from, p) /\ Len(t) = p + 2 /\ SizeAt(t, p, m) /\ m > 0
    BY <1>1, <1>3, <1>m, <2>1 DEF ChunkPart
  <2> QED
    BY <2>1, <2>2
<1>4. CASE Len(b) < m + 2 /\ Again
  <2>1. CASE req.refused \/ At(taken, 4, CRLF)
    BY <1>1, <1>4, <2>1, AgainStep, OtherFine
  <2>2. ASSUME NEW n, NEW p, HeadTaken(req, t, n), n \in Nat, ChunkPart(req, t, 3 * n + 6, p)
        PROVE  \A s : Reads(s, t, b) => ~IsRequest(s)
    <3>1. PICK from \in Nat \ {0} :
                /\ from = 3 * n + 6 /\ p \in Nat /\ p >= from /\ Forced(t, from, p)
                /\ Len(t) = p + 2 /\ SizeAt(t, p, m) /\ m > 0
      BY <1>3, <2>2
    <3>2. ASSUME NEW s, Reads(s, t, b), IsRequest(s) PROVE FALSE
      <4>1. Begins(s, t)
        BY <3>2 DEF Reads
      <4>2. IsChunked(s, from)
        BY <1>1, <2>2, <3>1, <3>2, <4>1, ChunksDecide
      <4>3. m \in Nat \ {0} /\ Len(b) \in Nat
        BY <3>1
      <4>4. Len(b) >= m + 2
        BY <3>1, <3>2, <4>2, <4>3, DataWaits
      <4> QED
        BY <1>4, <4>3, <4>4
    <3> QED
      BY <3>2
  <2>3. CASE \E n, p : HeadTaken(req, taken, n) /\ n \in Nat /\ ChunkPart(req, taken, 3 * n + 6, p)
    <3>1. \A s : Reads(s, t, b) => ~IsRequest(s)
      BY <1>t, <2>2, <2>3
    <3> QED
      BY <1>4, <1>b, <1>t, <3>1, AgainFine
  <2> QED
    BY <1>1, <2>1, <2>3, ChunkHead
<1>5. CASE /\ Len(b) >= m + 2 /\ At(b, m + 1, CRLF)
           /\ Retrieve(m + 2) /\ UNCHANGED busy
           /\ req' = [req EXCEPT !.body = req.body \o SubSeq(b, 1, m), !.chunkState = "NO_LEN"]
  <2>1. PICK y : y = x \o SubSeq(b, 1, m)
    OBVIOUS
  <2>2. Grown(y, x, b, m) /\ y \in Seq(Given)
    <3>1. m \in 0 .. Len(b)
      BY <1>5
    <3>2. Grown(x \o SubSeq(b, 1, m), x, b, m)
      BY <3>1, BodyGrows
    <3> QED
      BY <2>1, <3>2 DEF Grown
  <2>3. PICK q : q = [req EXCEPT !.body = y, !.chunkState = "NO_LEN"]
    OBVIOUS
  <2>4. req' = q
    BY <1>5, <1>x, <2>1, <2>3
  <2>5. /\ q.state = "CHECK_CONTENT" /\ q.headers = req.headers /\ q.body = y
        /\ q.refused = req.refused /\ q.chunkState = "NO_LEN"
    BY <1>1, <2>3 DEF ParserTypes, RequestFields
  <2>6. PICK u : u = taken'
    OBVIOUS
  <2>7. Reads(u, t, b) /\ Len(u) = Len(t) + m + 2 /\ Begins(u, t)
    <3>1. PICK k \in Nat : k = m + 2
      OBVIOUS
    <3>2. k <= Len(buf) /\ Retrieve(k)
      BY <1>5, <1>b, <3>1
    <3>3. Reads(u, t, b) /\ Len(u) = Len(t) + k /\ Begins(u, t) /\ Len(t) \in Nat
      BY <1>b, <1>t, <2>6, <3>2, TakenFacts
    <3> QED
      BY <3>1, <3>3
  <2>8. CASE req.refused \/ At(taken, 4, CRLF)
    <3>1. ContentStep
      BY <1>h, <1>t, <2>2, <2>4, <2>5, <2>6, <2>7 DEF ContentStep
    <3> QED
      BY <2>8, <3>1, OtherFine
  <2>9. ASSUME NEW n, NEW p, HeadTaken(req, t, n), n \in Nat, ChunkPart(req, t, 3 * n + 6, p)
        PROVE  \A c : Fine(q, u, c, "parsing")
    <3>1. PICK from \in Nat \ {0} :
                /\ from = 3 * n + 6 /\ p \in Nat /\ ChunkPart(req, t, from, p) /\ m > 0
      BY <1>3, <2>9
    <3>2. PICK next : next = p + 5 + m
      OBVIOUS
    <3>3. m \in Nat \ {0}
      BY <3>1
    <3>4. At(b, m + 1, CRLF)
      BY <1>5
    <3>5. ChunkPart(q, u, from, next)
      BY <1>1, <1>m, <1>x, <2>2, <2>5, <2>7, <3>1, <3>2, <3>3, <3>4, DataTaken
    <3>6. q.headers \in Seq(Given) /\ q.body \in Seq(Given)
      BY <1>h, <2>2, <2>5
    <3> QED
      BY <1>1, <2>5, <2>7, <2>9, <3>1, <3>5, <3>6, ChunkFine
  <2>10. CASE \E n, p : HeadTaken(req, taken, n) /\ n \in Nat /\ ChunkPart(req, taken, 3 * n + 6, p)
    <3>1. \A c : Fine(q, u, c, "parsing")
      BY <1>t, <2>9, <2>10
    <3>2. busy' = "parsing"
      BY <1>1, <1>5
    <3>3. Fine(q, u, buf', "parsing")
      BY <3>1
    <3> QED
      BY <2>4, <2>6, <3>2, <3>3
  <2> QED
    BY <1>1, <2>8, <2>10, ChunkHead
<1>6. \/ Len(b) < m + 2 /\ Again
      \/ Bad
      \/ /\ Len(b) >= m + 2 /\ At(b, m + 1, CRLF)
         /\ Retrieve(m + 2) /\ UNCHANGED busy
         /\ req' = [req EXCEPT !.body = req.body \o SubSeq(b, 1, m), !.chunkState = "NO_LEN"]
  BY <1>b, <1>m DEF ChunkData
<1> QED
  BY <1>2, <1>4, <1>5, <1>6

\* After the empty chunk, a request ends with one line end and is closed.
LEMMA DoneDecides ==
  ASSUME NEW s, NEW t, Begins(s, t), NEW r, NEW n \in Nat, HeadTaken(r, t, n), chunked(r),
         NEW from \in Nat \ {0}, from = 3 * n + 6, NEW p \in Nat, p >= from,
         Forced(t, from, p), SizeAt(t, p, 0), Len(t) >= p + 2, IsRequest(s)
  PROVE  /\ Len(s) = p + 4
         /\ Get(r, "Content-Type") = "multipart" /\ p > from + 6 => s[p - 3].k = "eob"
<1>1. Len(s) \in Nat /\ Len(t) \in Nat
  BY DEF Begins
<1>2. IsChunked(s, from) /\ IsClosed(s, r, Len(s) > from + 10, Len(s) - 7)
  BY ChunksDecide
<1>3. p \in 1 .. Len(t)
  BY <1>1
<1>4. s[p].n = 0
  BY <1>3 DEF Begins, SizeAt
<1>5. s[p].n = 0 => Len(s) = p + 4
  BY <1>2, ChunkAt
<1>6. Len(s) = p + 4
  BY <1>4, <1>5
<1>7. Len(s) - 7 = p - 3 /\ (Len(s) > from + 10 <=> p > from + 6)
  BY <1>6
<1> QED
  BY <1>2, <1>6, <1>7 DEF IsClosed

\* So what is complete and not closed is no request, whatever follows.
LEMMA NotClosedNever ==
  ASSUME NEW s, NEW t, Begins(s, t), NEW r, NEW n \in Nat, HeadTaken(r, t, n), chunked(r),
         NEW from \in Nat \ {0}, from = 3 * n + 6, NEW p \in Nat, p >= from,
         Forced(t, from, p), SizeAt(t, p, 0), Len(t) >= p + 2, NotClosed(r, t, from, p)
  PROVE  ~IsRequest(s)
<1>1. Get(r, "Content-Type") = "multipart" /\ p > from + 6 /\ t[p - 3].k # "eob"
  BY DEF NotClosed
<1>2. p - 3 \in 1 .. Len(t)
  BY DEF Begins
<1>3. s[p - 3] = t[p - 3]
  BY <1>2 DEF Begins
<1>4. IsRequest(s) => s[p - 3].k = "eob"
  BY <1>1, DoneDecides
<1> QED
  BY <1>1, <1>3, <1>4

\* The last line end was taken: what is known then is still so.
LEMMA DoneTaken ==
  ASSUME NEW u, NEW t, Begins(u, t), NEW from \in Nat \ {0}, NEW p \in Nat, NEW r,
         ChunkPart(r, t, from, p), r.chunkState = "DONE"
  PROVE  /\ p >= from /\ Reached(u, from, p) /\ Forced(u, from, p) /\ BodyPart(r, u, from, p)
         /\ SizeAt(u, p, 0) /\ Len(u) >= p + 2 /\ Len(u) \in Nat
<1>1. /\ Begins(u, t) /\ Len(t) \in Nat /\ Len(u) \in Nat /\ Len(t) <= Len(u)
  BY DEF Begins
<1>2. /\ p >= from /\ Reached(t, from, p) /\ Forced(t, from, p) /\ BodyPart(r, t, from, p)
      /\ Len(t) >= p + 2 /\ SizeAt(t, p, 0)
  BY DEF ChunkPart
<1>3. p - 1 <= Len(t) /\ Len(u) >= p + 2
  BY <1>1, <1>2
<1>4. Reached(u, from, p) /\ Forced(u, from, p) /\ BodyPart(r, u, from, p)
  BY <1>1, <1>2, <1>3, ReachedOn, ForcedOn, BodyOn
<1>5. SizeAt(u, p, 0)
  <2>1. p \in 1 .. Len(t) /\ p + 1 \in Nat \ {0} /\ p + 1 + 1 <= Len(t)
    BY <1>1, <1>2
  <2>2. u[p] = t[p]
    BY <1>1, <2>1 DEF Begins
  <2>3. At(u, p + 1, CRLF)
    BY <1>1, <1>2, <2>1, StaysAt DEF SizeAt
  <2> QED
    BY <1>2, <2>2, <2>3 DEF SizeAt
<1> QED
  BY <1>1, <1>2, <1>3, <1>4, <1>5

\* The last byte of the body, if it has more than one.
LEMMA LastOfBody ==
  ASSUME NEW t, NEW from \in Nat \ {0}, NEW p \in Nat, p >= from, NEW r, r.body \in Seq(Given),
         BodyPart(r, t, from, p)
  PROVE  /\ Len(r.body) > 1 <=> p > from + 6
         /\ Len(r.body) > 1 => Last(r.body) = t[p - 3]
<1>1. Len(r.body) \in Nat
  OBVIOUS
<1>2. CASE p = from
  <2>1. Len(r.body) = 0
    BY <1>2 DEF BodyPart
  <2> QED
    BY <1>2, <2>1
<1>3. CASE p > from
  <2>1. (Len(r.body) > 1 <=> p > from + 6) /\ r.body[Len(r.body)] = t[p - 3]
    BY <1>3 DEF BodyPart
  <2> QED
    BY <2>1 DEF Last
<1> QED
  BY <1>2, <1>3

\* parseChunked, DONE, once the last line end is there and the head was taken.
LEMMA DoneHeaded ==
  ASSUME ParserTypes, Fine(req, taken, buf, busy), req.state = "CHECK_CONTENT", chunked(req),
         req.chunkState = "DONE", ~req.refused,
         NEW n \in Nat, HeadTaken(req, taken, n), NEW from \in Nat \ {0}, from = 3 * n + 6,
         NEW p \in Nat, ChunkPart(req, taken, from, p),
         2 <= Len(buf), At(buf, 1, CRLF), Retrieve(2), Content(req.body)
  PROVE  Fine(req', taken', buf', busy')
<1>b. PICK b \in Seq(Given) : b = buf
  BY DEF ParserTypes
<1>t. PICK t \in Seq(Given) : t = taken
  BY DEF ParserTypes
<1>x. PICK x \in Seq(Given) : x = req.body
  BY DEF Fine
<1>h. req.headers \in Seq(Given)
  BY DEF Fine
<1>1. PICK u : u = taken'
  OBVIOUS
<1>2. Reads(u, t, b) /\ Len(u) = Len(t) + 2 /\ Begins(u, t) /\ u \in Seq(Given) /\ Len(t) \in Nat
  <2>1. 2 \in Nat
    OBVIOUS
  <2> QED
    BY <1>b, <1>t, <1>1, <2>1, TakenFacts
<1>3. PICK q : q = req'
  OBVIOUS
<1>4. PICK type : type = Get(req, "Content-Type")
  OBVIOUS
<1>5. /\ q.body = x /\ q.headers = req.headers
      /\ q.chunkState = "DONE"
      /\ \/ q.refused /\ q.state = "CHECK_CONTENT"
         \/ /\ q.ret = "AGAIN_REQUEST" /\ q.state = "CHECK_CONTENT"
            /\ type = "multipart" /\ Len(x) > 1 /\ Last(x).k # "eob"
         \/ /\ q.ret = "OK_REQUEST" /\ q.state = "CHECK_DONE"
            /\ type # "multipart without boundary"
            /\ type = "multipart" /\ Len(x) > 1 => Last(x).k = "eob"
  BY <1>x, <1>3, <1>4, ContentEnds
<1>6. q.headers \in Seq(Given) /\ q.body \in Seq(Given)
  BY <1>h, <1>5
<1>c. ChunkPart(req, t, from, p)
  BY <1>t
<1>7. /\ p >= from /\ Reached(u, from, p) /\ Forced(u, from, p) /\ BodyPart(req, u, from, p)
      /\ SizeAt(u, p, 0) /\ Len(u) >= p + 2 /\ Len(u) \in Nat
  BY <1>2, <1>c, DoneTaken
<1>8. (Len(x) > 1 <=> p > from + 6) /\ (Len(x) > 1 => Last(x) = u[p - 3])
  BY <1>7, <1>x, LastOfBody
<1>9. HeadTaken(req, u, n) /\ HeadTaken(q, u, n) /\ HeadTaken(req, t, n)
  BY <1>2, <1>5, <1>t, HeadKept
<1>10. CASE q.refused /\ q.state = "CHECK_CONTENT"
  <2>1. q.state # "CHECK_REQUESTLINE"
    BY <1>10
  <2>2. \A c, w : Fine(q, u, c, w)
    BY <1>6, <1>10, <2>1, RefusedFine
  <2> QED
    BY <1>1, <1>3, <2>2
<1>11. CASE /\ q.ret = "AGAIN_REQUEST" /\ q.state = "CHECK_CONTENT"
            /\ type = "multipart" /\ Len(x) > 1 /\ Last(x).k # "eob"
  <2>1. NotClosed(req, u, from, p)
    BY <1>4, <1>8, <1>11 DEF NotClosed
  <2>2. \A s : Begins(s, u) => ~IsRequest(s)
    BY <1>7, <1>9, <2>1, NotClosedNever
  <2>3. NotClosed(q, u, from, p)
    <3>1. Get(q, "Content-Type") = Get(req, "Content-Type")
      BY <1>5, SameHeaders
    <3> QED
      BY <2>1, <3>1 DEF NotClosed
  <2>4. BodyPart(q, u, from, p)
    BY <1>5, <1>7, <1>x DEF BodyPart
  <2>5. ChunkPart(q, u, from, p)
    BY <1>5, <1>7, <2>3, <2>4 DEF ChunkPart
  <2>6. \A c, w : Fine(q, u, c, w)
    BY <1>2, <1>5, <1>6, <1>9, <1>11, <2>2, <2>5, ChunkFine
  <2> QED
    BY <1>1, <1>3, <2>6
<1>12. CASE /\ q.ret = "OK_REQUEST" /\ q.state = "CHECK_DONE"
            /\ type # "multipart without boundary"
            /\ type = "multipart" /\ Len(x) > 1 => Last(x).k = "eob"
  <2>1. Len(t) = p + 2
    <3>1. ASSUME Len(t) > p + 2 PROVE FALSE
      <4>1. NotClosed(req, t, from, p) /\ p >= from
        BY <1>c, <3>1 DEF ChunkPart
      <4>2. type = "multipart" /\ p > from + 6 /\ t[p - 3].k # "eob"
        BY <1>4, <4>1 DEF NotClosed
      <4>3. p - 3 \in 1 .. Len(t)
        BY <1>2, <3>1, <4>2
      <4>4. u[p - 3] = t[p - 3]
        BY <1>2, <4>3 DEF Begins
      <4> QED
        BY <1>8, <1>12, <4>2, <4>4
    <3>2. Len(t) >= p + 2
      BY <1>c DEF ChunkPart
    <3> QED
      BY <1>2, <3>1, <3>2
  <2>2. Len(u) = p + 4
    BY <1>2, <2>1
  <2>3. At(u, p + 3, CRLF)
    <3>1. PICK j \in Nat : j = p + 3
      OBVIOUS
    <3>2. j = Len(t) + 1 /\ 1 \in Nat \ {0} /\ j + 1 <= Len(u) /\ At(b, 1, CRLF)
      BY <1>b, <2>1, <2>2, <3>1
    <3>3. At(u, j, CRLF)
      BY <1>2, <3>2, AtRead
    <3> QED
      BY <3>1, <3>3
  <2>4. IsChunked(u, from)
    BY <1>2, <1>7, <2>2, <2>3, LastChunk
  <2>5. IsClosed(u, req, Len(u) > from + 10, Len(u) - 7)
    <3>1. Len(u) - 7 = p - 3 /\ (Len(u) > from + 10 <=> p > from + 6)
      BY <2>2
    <3> QED
      BY <1>4, <1>8, <1>12, <3>1 DEF IsClosed
  <2>6. Begins(u, u)
    BY <1>2, BeginsItself
  <2>7. IsRequest(u)
    BY <1>9, <2>4, <2>5, <2>6, ChunksDecide
  <2>8. \A c, w : Fine(q, u, c, w)
    BY <1>6, <1>9, <1>12, <2>7, HeadedFine
  <2> QED
    BY <1>1, <1>3, <2>8
<1> QED
  BY <1>5, <1>10, <1>11, <1>12

\* parseChunked, DONE
LEMMA ChunkDoneFine ==
  ASSUME ParserTypes, Fine(req, taken, buf, busy), ChunkDone
  PROVE  Fine(req', taken', buf', busy')
<1>1. /\ req.state = "CHECK_CONTENT" /\ chunked(req) /\ req.chunkState = "DONE"
  BY DEF ChunkDone, ParsingChunk, Parsing
<1>b. PICK b \in Seq(Given) : b = buf
  BY DEF ParserTypes
<1>t. PICK t \in Seq(Given) : t = taken
  BY DEF ParserTypes
<1>2. CASE Bad
  BY <1>1, <1>2, BadStep
<1>3. CASE Len(b) < 2 /\ Again
  <2>1. CASE req.refused \/ At(taken, 4, CRLF)
    BY <1>1, <1>3, <2>1, AgainStep, OtherFine
  <2>2. ASSUME NEW n, NEW p, HeadTaken(req, t, n), n \in Nat, ChunkPart(req, t, 3 * n + 6, p)
        PROVE  \A s : Reads(s, t, b) => ~IsRequest(s)
    <3>1. PICK from \in Nat \ {0} : from = 3 * n + 6
      BY <2>2
    <3>2. /\ p \in Nat /\ p >= from /\ Forced(t, from, p)
          /\ Len(t) >= p + 2 /\ SizeAt(t, p, 0)
          /\ Len(t) > p + 2 => NotClosed(req, t, from, p)
      BY <1>1, <2>2, <3>1 DEF ChunkPart
    <3>3. ASSUME NEW s, Reads(s, t, b), IsRequest(s) PROVE FALSE
      <4>1. Begins(s, t) /\ Len(s) <= Len(t) + Len(b) /\ Len(s) \in Nat
            /\ Len(t) \in Nat /\ Len(b) \in Nat
        BY <3>3 DEF Reads, Begins
      <4>2. Len(s) = p + 4
        BY <1>1, <2>2, <3>1, <3>2, <3>3, <4>1, DoneDecides
      <4>3. Len(t) > p + 2
        BY <1>3, <3>2, <4>1, <4>2
      <4>4. NotClosed(req, t, from, p)
        BY <3>2, <4>3
      <4>5. ~IsRequest(s)
        BY <1>1, <2>2, <3>1, <3>2, <4>1, <4>4, NotClosedNever
      <4> QED
        BY <3>3, <4>5
    <3> QED
      BY <3>3
  <2>3. CASE \E n, p : HeadTaken(req, taken, n) /\ n \in Nat /\ ChunkPart(req, taken, 3 * n + 6, p)
    <3>1. \A s : Reads(s, t, b) => ~IsRequest(s)
      BY <1>t, <2>2, <2>3
    <3> QED
      BY <1>3, <1>b, <1>t, <3>1, AgainFine
  <2> QED
    BY <1>1, <2>1, <2>3, ChunkHead
<1>4. CASE Len(b) >= 2 /\ At(b, 1, CRLF) /\ Retrieve(2) /\ Content(req.body)
  <2>1. 2 \in Nat /\ 2 <= Len(buf) /\ At(buf, 1, CRLF) /\ req.body \in Seq(Given)
    BY <1>4, <1>b DEF Fine
  <2>2. CASE req.refused \/ At(taken, 4, CRLF)
    <3>1. ContentStep
      BY <1>1, <1>4, <2>1, EndStep
    <3> QED
      BY <2>2, <3>1, OtherFine
  <2>3. CASE /\ ~req.refused
             /\ \E n, p : HeadTaken(req, taken, n) /\ n \in Nat /\ ChunkPart(req, taken, 3 * n + 6, p)
    <3>1. PICK n, p : HeadTaken(req, taken, n) /\ n \in Nat /\ ChunkPart(req, taken, 3 * n + 6, p)
      BY <2>3
    <3>2. PICK from \in Nat \ {0} : from = 3 * n + 6
      BY <3>1
    <3>3. p \in Nat /\ ChunkPart(req, taken, from, p)
      BY <3>1, <3>2 DEF ChunkPart
    <3> QED
      BY <1>1, <1>4, <2>1, <2>3, <3>1, <3>2, <3>3, DoneHeaded
  <2> QED
    BY <1>1, <2>2, <2>3, ChunkHead
<1>5. \/ Len(b) < 2 /\ Again
      \/ Bad
      \/ Len(b) >= 2 /\ At(b, 1, CRLF) /\ Retrieve(2) /\ Content(req.body)
  BY <1>b DEF ChunkDone
<1> QED
  BY <1>2, <1>3, <1>4, <1>5

-----------------------------------------------------------------------------
(* The parser's invariant, and what follows from it.                       *)

\* Nothing is left of a line that was refused.
LineClear ==
    busy \in {"idle", "parsing"} /\ req.state = "CHECK_REQUESTLINE" => taken = <<>>

ParserInv ==
    ParserTypes /\ LineIsFirst /\ LineClear /\ Fine(req, taken, buf, busy)

\* A request that has not begun.
LEMMA NewFine ==
  ASSUME NEW t, NEW b, NEW w, w # "parsed"
  PROVE  Fine(NewRequest, t, b, w)
<1>1. /\ NewRequest.state = "CHECK_REQUESTLINE" /\ NewRequest.headers = <<>>
      /\ NewRequest.body = <<>> /\ NewRequest.chunkState = "NO_LEN"
  BY DEF NewRequest
<1>2. <<>> \in Seq(Given)
  BY EmptySeq
<1> QED
  BY <1>1, <1>2 DEF Fine, PartOf, Waits

\* A new connection.
LEMMA InitParserInv == Init => ParserInv
<1> SUFFICES ASSUME Init PROVE ParserInv
  OBVIOUS
<1>1. /\ buf = <<>> /\ taken = <<>> /\ req = NewRequest /\ busy = "idle" /\ stream \in Streams
  BY DEF Init
<1>2. stream \in Seq(Given) /\ <<>> \in Seq(Given)
  BY <1>1, GivenFacts, EmptySeq
<1>3. DOMAIN NewRequest = RequestFields /\ NewRequest.chunkSize = 0
      /\ NewRequest.state = "CHECK_REQUESTLINE"
  BY DEF NewRequest, RequestFields
<1>4. ParserTypes /\ LineIsFirst /\ LineClear
  BY <1>1, <1>2, <1>3 DEF ParserTypes, LineIsFirst, LineClear
<1>5. Fine(NewRequest, taken, buf, "idle")
  BY NewFine
<1> QED
  BY <1>1, <1>4, <1>5 DEF ParserInv

\* A step of the parser.
LEMMA ParseKeepsFine ==
  ASSUME ParserInv, Parse
  PROVE  ParserInv'
<1>1. /\ ParserTypes /\ LineIsFirst /\ LineClear /\ Fine(req, taken, buf, busy)
      /\ ParseStep /\ UNCHANGED stream
  BY DEF ParserInv, Parse, serverVars
<1>2. NoLineYet
  BY <1>1 DEF LineClear, NoLineYet
<1>3. ParserTypes' /\ LineIsFirst' /\ NotBegun'
  BY <1>1, <1>2, ParseFacts
<1>4. LineClear'
  BY <1>3 DEF NotBegun, NoLineYet, LineClear
<1>5. Fine(req', taken', buf', busy')
  BY <1>1, <1>2, LineFine, ParseHeaderFine, ParseLengthFine, NoContentFine, OtherEncodingFine,
     ChunkLengthFine, ChunkDataFine, ChunkDoneFine DEF ParseStep
<1> QED
  BY <1>3, <1>4, <1>5 DEF ParserInv

\* A message arrives.
LEMMA ReceiveKeepsFine ==
  ASSUME ParserInv, NEW n \in 1 .. Len(stream), Receive(n)
  PROVE  ParserInv'
<1>1. /\ ParserTypes /\ LineIsFirst /\ LineClear /\ Fine(req, taken, buf, busy)
  BY DEF ParserInv
<1>2. PICK b \in Seq(Given) : b = buf
  BY <1>1 DEF ParserTypes
<1>3. PICK s \in Seq(Given) : s = stream
  BY <1>1 DEF ParserTypes
<1>4. n \in 0 .. Len(s)
  BY <1>3
<1>5. buf' = b \o SubSeq(s, 1, n) /\ stream' = SubSeq(s, n + 1, Len(s))
  BY <1>2, <1>3 DEF Receive
<1>6. buf' \in Seq(Given) /\ stream' \in Seq(Given)
  BY <1>4, <1>5, MovedInPlace
<1>7. busy = "idle" /\ busy' = "parsing" /\ req' = req /\ taken' = taken
  BY DEF Receive
<1>8. ParserTypes' /\ LineIsFirst' /\ LineClear'
  BY <1>1, <1>6, <1>7 DEF ParserTypes, LineIsFirst, LineClear
<1>9. \A c : Fine(req, taken, c, "parsing")
  BY <1>1 DEF Fine, Waits
<1>10. Fine(req', taken', buf', busy')
  BY <1>7, <1>9
<1> QED
  BY <1>8, <1>10 DEF ParserInv

\* Every step keeps the invariant.
LEMMA NextParserInv == ParserInv /\ [Next]_vars => ParserInv'
<1> SUFFICES ASSUME ParserInv, [Next]_vars PROVE ParserInv'
  OBVIOUS
<1>1. /\ ParserTypes /\ LineIsFirst /\ LineClear /\ Fine(req, taken, buf, busy)
  BY DEF ParserInv
<1>e. <<>> \in Seq(Given)
  BY EmptySeq
<1>2. CASE BadRequest
  <2>1. /\ busy' = "idle" /\ req' = req /\ buf' = buf /\ stream' = stream
        /\ taken' = IF req.state = "CHECK_REQUESTLINE" THEN <<>> ELSE taken
    BY <1>2 DEF BadRequest
  <2>2. ParserTypes' /\ LineIsFirst' /\ LineClear'
    BY <1>1, <1>e, <2>1 DEF ParserTypes, LineIsFirst, LineClear
  <2>3. CASE req.state = "CHECK_REQUESTLINE"
    <3>1. \A t : Fine(req, t, buf, "idle")
      BY <1>1, <2>3 DEF Fine, PartOf, Waits
    <3>2. Fine(req, taken', buf, "idle")
      BY <3>1
    <3> QED
      BY <2>1, <2>2, <3>2 DEF ParserInv
  <2>4. CASE req.state # "CHECK_REQUESTLINE"
    <3>1. Fine(req, taken, buf, "idle")
      BY <1>1 DEF Fine, Waits
    <3> QED
      BY <2>1, <2>2, <2>4, <3>1 DEF ParserInv
  <2> QED
    BY <2>3, <2>4
<1>3. CASE OnRequest
  <2>1. /\ busy' = "idle" /\ req' = NewRequest /\ buf' = buf /\ stream' = stream /\ taken' = <<>>
    BY <1>3 DEF OnRequest
  <2>2. DOMAIN NewRequest = RequestFields /\ NewRequest.chunkSize = 0
        /\ NewRequest.state = "CHECK_REQUESTLINE"
    BY DEF NewRequest, RequestFields
  <2>3. ParserTypes' /\ LineIsFirst' /\ LineClear'
    BY <1>1, <1>e, <2>1, <2>2 DEF ParserTypes, LineIsFirst, LineClear
  <2>4. \A t : Fine(NewRequest, t, buf, "idle")
    BY NewFine
  <2>5. Fine(NewRequest, taken', buf, "idle")
    BY <2>4
  <2> QED
    BY <2>1, <2>3, <2>5 DEF ParserInv
<1>4. CASE OnIdle \/ Closed \/ UNCHANGED vars
  <2>1. req' = req /\ taken' = taken /\ buf' = buf /\ busy' = busy /\ stream' = stream
    BY <1>4 DEF OnIdle, Closed, vars, requestVars, serverVars
  <2>2. ParserTypes' /\ LineIsFirst' /\ LineClear'
    BY <1>1, <2>1 DEF ParserTypes, LineIsFirst, LineClear
  <2> QED
    BY <1>1, <2>1, <2>2 DEF ParserInv
<1> QED
  BY <1>2, <1>3, <1>4, ParseKeepsFine, ReceiveKeepsFine DEF Next

\* However the input is cut into messages, what the parser takes for a
\* request is one and ends where it ends, and a request that is there is not
\* waited for (HttpRequest::parseRequest, parseRequestContent, parseChunked):
\* for every set of inputs, of any length, and every limit on the headers.
THEOREM RequestsAlwaysTaken == Spec => []TakesARequest
<1>1. Spec => []ParserInv
  BY InitParserInv, NextParserInv, PTL DEF Spec
<1>2. ASSUME ParserInv PROVE TakesARequest
  <2>1. PICK t \in Seq(Given) : t = taken
    BY <1>2 DEF ParserInv, ParserTypes
  <2>2. PICK b \in Seq(Given) : b = buf
    BY <1>2 DEF ParserInv, ParserTypes
  <2>3. Fine(req, t, b, busy)
    BY <1>2, <2>1, <2>2 DEF ParserInv
  <2>4. ASSUME ~req.refused, busy = "parsed", req.ret = "AGAIN_REQUEST", NEW n \in 0 .. Len(b)
        PROVE  ~IsRequest(t \o SubSeq(b, 1, n))
    <3>1. Reads(t \o SubSeq(b, 1, n), t, b)
      BY ReadsFacts
    <3>2. \A s : Reads(s, t, b) => ~IsRequest(s)
      BY <2>3, <2>4 DEF Fine, Waits
    <3> QED
      BY <3>1, <3>2
  <2>5. ~req.refused /\ req.state = "CHECK_DONE" /\ ~At(t, 4, CRLF) => IsRequest(t)
    BY <2>3 DEF Fine, PartOf
  <2>6. ~req.refused => WaitsForARequest
    BY <2>1, <2>2, <2>4 DEF WaitsForARequest
  <2> QED
    BY <2>1, <2>5, <2>6 DEF TakesARequest
<1> QED
  BY <1>1, <1>2, PTL

-----------------------------------------------------------------------------
(* The connection.                                                         *)

\* What was answered.
Answered == [i \in DOMAIN answers |-> answers[i].request]

\* The answer ends the exchange.
Ends(a) == a.kind = "400" \/ a.resp.close

\* What is known while the connection may still send: no answer has ended the
\* exchange, every request that was answered, the one being parsed and what
\* waits are the input, and the cache holds rows of the table.
LiveInv ==
    connected = "kConnected" =>
        /\ ParserTypes /\ LineIsFirst /\ NotBegun
        /\ StoreOK(store)
        /\ \A i \in DOMAIN answers :
              answers[i].kind = "response" /\ ~Ends(answers[i])
              /\ answers[i].request \in Seq(Given)
        /\ FlattenSeq(Answered) \o taken \o buf \o stream \in Streams

AnswersInv == \E S : answers \in Seq(S)

LoginRight(a) ==
    a.kind = "response" /\ a.request[1].url = "/login" /\ a.request[1].method = "POST" =>
        (a.resp.body = "/welcome.html" <=> a.request[1].form \in a.store.users)

\* Ranges lie in the file.
RangesInFile ==
    \A s \in Streams : \A i \in DOMAIN s : s[i].k = "line" => RangeInFile(s[i].range)

LengthRight(a) == a.kind = "response" /\ RangesInFile => Declares(a.resp, a.request[1])

ServerInv ==
    /\ AnswersInv /\ LiveInv /\ LastAnswerIsLast
    /\ \A i \in DOMAIN answers : LoginRight(answers[i]) /\ LengthRight(answers[i])

\* Once the connection may not send any more, no answer is added.
LEMMA SilentOnceShut ==
  ASSUME Next, connected # "kConnected"
  PROVE  answers' = answers /\ connected' # "kConnected"
<1>1. CASE \E n \in 1 .. Len(stream) : Receive(n)
  BY <1>1 DEF Receive
<1>2. CASE Parse
  BY <1>2 DEF Parse, serverVars
<1>3. CASE BadRequest
  BY <1>3 DEF BadRequest, Sent, Shut
<1>4. CASE OnRequest
  BY <1>4 DEF OnRequest, Sent, Shut
<1>5. CASE OnIdle
  BY <1>5 DEF OnIdle, Shut
<1>6. CASE Closed
  BY <1>6 DEF Closed
<1> QED
  BY <1>1, <1>2, <1>3, <1>4, <1>5, <1>6 DEF Next

\* Nothing of the invariant but LiveInv depends on more than the answers.
LEMMA SameAnswers ==
  ASSUME ServerInv, answers' = answers
  PROVE  /\ AnswersInv' /\ LastAnswerIsLast'
         /\ \A i \in DOMAIN answers' : LoginRight(answers'[i]) /\ LengthRight(answers'[i])
BY DEF ServerInv, AnswersInv, LastAnswerIsLast

\* Moving what is received or parsed leaves the whole as it is.
LEMMA WholeKept ==
  ASSUME NEW S, NEW a \in Seq(S), NEW b \in Seq(S), NEW c \in Seq(S), NEW n \in 0 .. Len(c)
  PROVE  Joined(a, WithFront(b, c, n), Rest(c, n)) = Joined(a, b, c)
<1>1. PICK d : d = WithFront(b, c, n)
  OBVIOUS
<1>2. PICK e : e = Rest(c, n)
  OBVIOUS
<1>3. /\ WithFront(b, c, n) \in Seq(S) /\ Rest(c, n) \in Seq(S)
      /\ WithFront(b, c, n) \o Rest(c, n) = b \o c
  BY FrontMoved
<1>4. d \in Seq(S)
  BY <1>1, <1>3
<1>5. e \in Seq(S)
  BY <1>2, <1>3
<1>6. d \o e = b \o c
  BY <1>1, <1>2, <1>3
<1>7. (a \o d) \o e = a \o (d \o e)
  <2>1. Assoc(a, d, e)
    BY <1>4, <1>5, Associates
  <2> QED
    BY <2>1 DEF Assoc
<1>8. (a \o b) \o c = a \o (b \o c)
  <2>1. Assoc(a, b, c)
    BY Associates
  <2> QED
    BY <2>1 DEF Assoc
<1>9. (a \o d) \o e = (a \o b) \o c
  BY <1>6, <1>7, <1>8
<1> QED
  BY <1>1, <1>2, <1>9 DEF Joined

\* The requests that were answered, in one sequence.
LEMMA AnsweredType ==
  ASSUME ServerInv, connected = "kConnected"
  PROVE  Answered \in Seq(Seq(Given)) /\ FlattenSeq(Answered) \in Seq(Given)
<1>1. PICK S : answers \in Seq(S)
  BY DEF ServerInv, AnswersInv
<1>2. Len(answers) \in Nat /\ DOMAIN answers = 1 .. Len(answers)
  BY <1>1
<1>3. \A i \in DOMAIN answers : answers[i].request \in Seq(Given)
  BY DEF ServerInv, LiveInv
<1>4. Answered \in [1 .. Len(answers) -> Seq(Given)]
  BY <1>2, <1>3 DEF Answered
<1>5. Answered \in Seq(Seq(Given))
  BY <1>2, <1>4, SeqDef
<1> QED
  BY <1>5, FlattenType

\* A message arrives.
LEMMA ReceiveKeeps ==
  ASSUME ServerInv, NEW n \in 1 .. Len(stream), Receive(n)
  PROVE  LiveInv'
<1>1. CASE connected # "kConnected"
  BY <1>1 DEF Receive, LiveInv
<1>2. CASE connected = "kConnected"
  <2>1. /\ ParserTypes /\ LineIsFirst /\ NotBegun /\ StoreOK(store)
        /\ \A i \in DOMAIN answers :
              answers[i].kind = "response" /\ ~Ends(answers[i])
              /\ answers[i].request \in Seq(Given)
        /\ FlattenSeq(Answered) \o taken \o buf \o stream \in Streams
    BY <1>2 DEF ServerInv, LiveInv
  <2>2. PICK b \in Seq(Given) : b = buf
    BY <2>1 DEF ParserTypes
  <2>3. PICK s \in Seq(Given) : s = stream
    BY <2>1 DEF ParserTypes
  <2>4. n \in 0 .. Len(s)
    BY <2>3
  <2>5. buf' = b \o SubSeq(s, 1, n) /\ stream' = SubSeq(s, n + 1, Len(s))
    BY <2>2, <2>3 DEF Receive
  <2>6. buf' \in Seq(Given) /\ stream' \in Seq(Given)
    BY <2>4, <2>5, MovedInPlace
  <2>7. busy = "idle" /\ busy' = "parsing" /\ req' = req /\ taken' = taken /\ store' = store
        /\ answers' = answers /\ connected' = connected
    BY DEF Receive
  <2>8. ParserTypes'
    BY <2>1, <2>6, <2>7 DEF ParserTypes
  <2>9. LineIsFirst' /\ NotBegun' /\ StoreOK(store')
    BY <2>1, <2>7 DEF LineIsFirst, NotBegun, NoLineYet
  <2>10. FlattenSeq(Answered) \o taken \in Seq(Given)
    <3>1. taken \in Seq(Given)
      BY <2>1 DEF ParserTypes
    <3> QED
      BY <1>2, <3>1, AnsweredType, ConcatProperties
  <2>11. Answered' = Answered
    BY <2>7 DEF Answered
  <2>12. (FlattenSeq(Answered) \o taken) \o buf' \o stream'
            = (FlattenSeq(Answered) \o taken) \o buf \o stream
    <3>1. PICK a \in Seq(Given) : a = FlattenSeq(Answered) \o taken
      BY <2>10
    <3>2. buf' = WithFront(b, s, n) /\ stream' = Rest(s, n)
      BY <2>5 DEF WithFront, Rest
    <3>3. Joined(a, WithFront(b, s, n), Rest(s, n)) = Joined(a, b, s)
      BY <2>4, WholeKept
    <3>4. Joined(a, buf', stream') = Joined(a, buf, stream)
      BY <2>2, <2>3, <3>2, <3>3
    <3> QED
      BY <3>1, <3>4 DEF Joined
  <2>13. (FlattenSeq(Answered) \o taken \o buf \o stream)' \in Streams
    BY <2>1, <2>7, <2>11, <2>12
  <2> QED
    BY <2>1, <2>7, <2>8, <2>9, <2>13 DEF LiveInv
<1> QED
  BY <1>1, <1>2

\* A step of the parser.
LEMMA ParseKeeps ==
  ASSUME ServerInv, Parse
  PROVE  LiveInv'
<1>1. CASE connected # "kConnected"
  BY <1>1 DEF Parse, serverVars, LiveInv
<1>2. CASE connected = "kConnected"
  <2>1. /\ ParserTypes /\ LineIsFirst /\ NotBegun /\ StoreOK(store)
        /\ \A i \in DOMAIN answers :
              answers[i].kind = "response" /\ ~Ends(answers[i])
              /\ answers[i].request \in Seq(Given)
        /\ FlattenSeq(Answered) \o taken \o buf \o stream \in Streams
    BY <1>2 DEF ServerInv, LiveInv
  <2>2. ParseStep /\ stream' = stream /\ store' = store /\ answers' = answers
        /\ connected' = connected
    BY DEF Parse, serverVars
  <2>3. /\ \E n \in 0 .. Len(buf) : Taken(n)
        /\ ParserTypes' /\ LineIsFirst' /\ NotBegun'
    BY <2>1, <2>2, ParseFacts DEF NotBegun
  <2>4. PICK n \in 0 .. Len(buf) : Taken(n)
    BY <2>3
  <2>5. PICK b \in Seq(Given) : b = buf
    BY <2>1 DEF ParserTypes
  <2>6. PICK t \in Seq(Given) : t = taken
    BY <2>1 DEF ParserTypes
  <2>7. PICK f \in Seq(Given) : f = FlattenSeq(Answered)
    BY <1>2, AnsweredType
  <2>8. n \in 0 .. Len(b)
    BY <2>5
  <2>9. taken' = t \o SubSeq(b, 1, n) /\ buf' = SubSeq(b, n + 1, Len(b))
    BY <2>4, <2>5, <2>6 DEF Taken
  <2>10. (f \o taken') \o buf' = (f \o t) \o b
    <3>1. taken' = WithFront(t, b, n) /\ buf' = Rest(b, n)
      BY <2>9 DEF WithFront, Rest
    <3>2. Joined(f, WithFront(t, b, n), Rest(b, n)) = Joined(f, t, b)
      BY <2>8, WholeKept
    <3>3. Joined(f, taken', buf') = Joined(f, t, b)
      BY <3>1, <3>2
    <3> QED
      BY <3>3 DEF Joined
  <2>11. Answered' = Answered
    BY <2>2 DEF Answered
  <2>12. (FlattenSeq(Answered) \o taken \o buf \o stream)' \in Streams
    BY <2>1, <2>2, <2>5, <2>6, <2>7, <2>10, <2>11
  <2> QED
    BY <2>1, <2>2, <2>3, <2>12 DEF LiveInv
<1> QED
  BY <1>1, <1>2

\* An answer is added while none has ended the exchange.
LEMMA AnswerAdded ==
  ASSUME ServerInv, connected = "kConnected", NEW a, answers' = Append(answers, a),
         LoginRight(a), LengthRight(a)
  PROVE  /\ AnswersInv' /\ LastAnswerIsLast'
         /\ \A i \in DOMAIN answers' : LoginRight(answers'[i]) /\ LengthRight(answers'[i])
         /\ DOMAIN answers' = 1 .. Len(answers) + 1 /\ DOMAIN answers = 1 .. Len(answers)
         /\ answers'[Len(answers) + 1] = a
         /\ \A i \in 1 .. Len(answers) : answers'[i] = answers[i]
         /\ Len(answers) \in Nat
<1>1. PICK S : answers \in Seq(S)
  BY DEF ServerInv, AnswersInv
<1>2. PICK T : T = S \cup {a}
  OBVIOUS
<1>3. PICK s \in Seq(T) : s = answers
  BY <1>1, <1>2, SeqMonotonic
<1>4. a \in T
  BY <1>2
<1>5. PICK u : u = Append(s, a)
  OBVIOUS
<1>6. /\ u \in Seq(T) /\ Len(u) = Len(s) + 1 /\ u[Len(s) + 1] = a
      /\ \A i \in 1 .. Len(s) : u[i] = s[i]
  BY <1>4, <1>5, AppendProperties
<1>7. Len(s) \in Nat /\ DOMAIN s = 1 .. Len(s) /\ DOMAIN u = 1 .. Len(s) + 1
  BY <1>6
<1>8. answers' = u
  BY <1>3, <1>5
<1>9. AnswersInv'
  BY <1>6, <1>8 DEF AnswersInv
<1>10. \A i \in DOMAIN s : LoginRight(s[i]) /\ LengthRight(s[i]) /\ ~Ends(s[i])
  BY <1>3 DEF ServerInv, LiveInv
<1>11. ASSUME NEW i \in DOMAIN u PROVE LoginRight(u[i]) /\ LengthRight(u[i])
  <2>1. CASE i = Len(s) + 1
    BY <1>6, <2>1
  <2>2. CASE i # Len(s) + 1
    <3>1. i \in 1 .. Len(s)
      BY <1>7, <2>2
    <3> QED
      BY <1>6, <1>7, <1>10, <3>1
  <2> QED
    BY <2>1, <2>2
<1>12. ASSUME NEW i \in DOMAIN u, Ends(u[i]) PROVE i = Len(u)
  <2>1. CASE i # Len(s) + 1
    <3>1. i \in 1 .. Len(s)
      BY <1>7, <2>1
    <3> QED
      BY <1>6, <1>7, <1>10, <1>12, <3>1
  <2> QED
    BY <1>6, <2>1
<1>13. LastAnswerIsLast'
  BY <1>8, <1>12 DEF LastAnswerIsLast, Ends
<1> QED
  BY <1>3, <1>6, <1>7, <1>8, <1>9, <1>11, <1>13

\* onMessage refuses a request.
LEMMA BadRequestKeeps ==
  ASSUME ServerInv, BadRequest
  PROVE  ServerInv'
<1>1. CASE connected # "kConnected"
  <2>1. answers' = answers /\ connected' # "kConnected"
    BY <1>1 DEF BadRequest, Sent, Shut
  <2> QED
    BY <2>1, SameAnswers DEF ServerInv, LiveInv
<1>2. CASE connected = "kConnected"
  <2>1. PICK a : a = [kind |-> "400", ret |-> req.ret]
    OBVIOUS
  <2>2. answers' = Append(answers, a) /\ connected' = "kDisconnecting"
    BY <1>2, <2>1 DEF BadRequest, Sent, Shut
  <2>3. a.kind = "400"
    BY <2>1
  <2>4. LoginRight(a) /\ LengthRight(a)
    BY <2>3 DEF LoginRight, LengthRight
  <2>5. LiveInv'
    BY <2>2 DEF LiveInv
  <2> QED
    BY <1>2, <2>2, <2>4, <2>5, AnswerAdded DEF ServerInv
<1> QED
  BY <1>1, <1>2

\* onRequest() answers a complete request, while the connection can send.
LEMMA AnswerFacts ==
  ASSUME ParserTypes, LineIsFirst, StoreOK(store), req.state = "CHECK_DONE",
         NEW close \in BOOLEAN, NEW file \in BOOLEAN,
         NEW made, made = Dispatch(NewResponse(close), Parsed, store, file),
         NEW a, a = [kind |-> "response", request |-> taken, store |-> store,
                     resp |-> appendToBuffer(made.resp)]
  PROVE  /\ LoginRight(a) /\ LengthRight(a) /\ StoreOK(made.store)
         /\ a.kind = "response" /\ a.request = taken /\ (Ends(a) <=> close)
<1>1. PICK line : line = taken[1]
  OBVIOUS
<1>2. line.k = "line" /\ req.method = line.method /\ req.url = line.url /\ 1 \in DOMAIN taken
  BY <1>1 DEF LineIsFirst, ParserTypes
<1>3. line \in Given
  BY <1>1, <1>2 DEF ParserTypes
<1>4. line \in Tokens
  BY <1>3, GivenFacts
<1>5. line.range \in [beg : Int, end : Int]
  BY <1>2, <1>4, TokenFacts
<1>6. PICK r : r = Parsed
  OBVIOUS
<1>7. r.url = line.url /\ r.method = line.method
  BY <1>2, <1>6 DEF Parsed
<1>8. r.form = line.form /\ r.range = line.range
  BY <1>1, <1>6 DEF Parsed
<1>9. PICK resp : resp = appendToBuffer(made.resp)
  OBVIOUS
<1>10. /\ resp.close = close
       /\ RangeInFile(line.range) => Declares(resp, line)
       /\ StoreOK(made.store)
       /\ line.url = "/login" /\ line.method = "POST" =>
              (resp.body = "/welcome.html" <=> line.form \in store.users)
  BY <1>5, <1>6, <1>7, <1>8, <1>9, ResponseFacts
<1>11. a.kind = "response" /\ a.request = taken /\ a.store = store /\ a.resp = resp
  BY <1>9
<1>12. LoginRight(a)
  BY <1>1, <1>10, <1>11 DEF LoginRight
<1>13. RangesInFile => RangeInFile(line.range)
  <2>1. PICK s \in Streams : \E i \in DOMAIN s : line = s[i]
    BY <1>3 DEF Given
  <2> QED
    BY <1>2, <2>1 DEF RangesInFile
<1>14. LengthRight(a)
  BY <1>1, <1>10, <1>11, <1>13 DEF LengthRight
<1>15. Ends(a) <=> close
  BY <1>10, <1>11 DEF Ends
<1> QED
  BY <1>10, <1>11, <1>12, <1>14, <1>15

\* After an answer that does not end the exchange the whole input is still
\* what was answered, what is parsed and what waits.
LEMMA AnsweredWhole ==
  ASSUME ServerInv, connected = "kConnected",
         NEW a, answers' = Append(answers, a), a.request = taken,
         LoginRight(a), LengthRight(a),
         taken' = <<>>, buf' = buf, stream' = stream
  PROVE  (FlattenSeq(Answered) \o taken \o buf \o stream)' \in Streams
<1>1. /\ DOMAIN answers' = 1 .. Len(answers) + 1 /\ DOMAIN answers = 1 .. Len(answers)
      /\ answers'[Len(answers) + 1] = a
      /\ \A i \in 1 .. Len(answers) : answers'[i] = answers[i]
      /\ Len(answers) \in Nat
  BY AnswerAdded
<1>2. PICK n \in Nat : n = Len(answers)
  BY <1>1
<1>3. PICK ss \in Seq(Seq(Given)) : ss = Answered
  BY AnsweredType
<1>4. PICK t \in Seq(Given) : t = taken
  BY DEF ServerInv, LiveInv, ParserTypes
<1>5. ss = [i \in 1 .. n |-> answers[i].request]
  BY <1>1, <1>2, <1>3 DEF Answered
<1>6. Len(ss) = n
  BY <1>5
<1>7. Answered' = [i \in 1 .. n + 1 |-> answers'[i].request]
  BY <1>1, <1>2 DEF Answered
<1>8. Append(ss, t) = [i \in 1 .. n + 1 |-> IF i = n + 1 THEN t ELSE ss[i]]
  <2>1. PICK uu : uu = Append(ss, t)
    OBVIOUS
  <2>2. /\ uu \in Seq(Seq(Given)) /\ Len(uu) = n + 1 /\ uu[n + 1] = t
        /\ \A i \in 1 .. n : uu[i] = ss[i]
    BY <1>6, <2>1, AppendProperties
  <2>3. uu = [i \in 1 .. n + 1 |-> uu[i]]
    BY <2>2
  <2>4. ASSUME NEW i \in 1 .. n + 1 PROVE uu[i] = IF i = n + 1 THEN t ELSE ss[i]
    <3>1. CASE i = n + 1
      BY <2>2, <3>1
    <3>2. CASE i # n + 1
      <4>1. i \in 1 .. n
        BY <3>2
      <4> QED
        BY <2>2, <3>2, <4>1
    <3> QED
      BY <3>1, <3>2
  <2>5. uu = [i \in 1 .. n + 1 |-> IF i = n + 1 THEN t ELSE ss[i]]
    BY <2>3, <2>4
  <2> QED
    BY <2>1, <2>5
<1>9. ASSUME NEW i \in 1 .. n + 1
      PROVE  answers'[i].request = IF i = n + 1 THEN t ELSE ss[i]
  <2>1. CASE i = n + 1
    BY <1>1, <1>2, <1>4, <2>1
  <2>2. CASE i # n + 1
    <3>1. i \in 1 .. n
      BY <2>2
    <3>2. ss[i] = answers[i].request
      BY <1>5, <3>1
    <3> QED
      BY <1>1, <1>2, <2>2, <3>1, <3>2
  <2> QED
    BY <2>1, <2>2
<1>10. Answered' = Append(ss, t)
  BY <1>7, <1>8, <1>9
<1>11. FlattenSeq(Answered') = FlattenSeq(ss) \o t
  BY <1>10, FlattenAppend
<1>12. PICK w \in Seq(Given) : w = FlattenSeq(ss) \o t
  BY FlattenType, ConcatProperties
<1>13. w \o <<>> = w
  BY ConcatEmptySeq
<1>14. FlattenSeq(Answered) \o taken \o buf \o stream \in Streams
  BY DEF ServerInv, LiveInv
<1>15. w \o buf \o stream \in Streams
  BY <1>3, <1>4, <1>12, <1>14
<1> QED
  BY <1>11, <1>12, <1>13, <1>15

\* onRequest()
LEMMA OnRequestKeeps ==
  ASSUME ServerInv, OnRequest
  PROVE  ServerInv'
<1>1. CASE connected # "kConnected"
  <2>1. answers' = answers /\ connected' # "kConnected"
    BY <1>1 DEF OnRequest, Sent, Shut
  <2> QED
    BY <2>1, SameAnswers DEF ServerInv, LiveInv
<1>2. CASE connected = "kConnected"
  <2>1. PICK close \in BOOLEAN :
            close = (\/ Get(req, "Connection") = "close"
                     \/ req.version = "1.0" /\ Get(req, "Connection") # "Keep-Alive")
    OBVIOUS
  <2>2. PICK file \in BOOLEAN :
            LET made == Dispatch(NewResponse(close), Parsed, store, file)
            IN  /\ answers' = Sent([kind |-> "response", request |-> taken, store |-> store,
                                    resp |-> appendToBuffer(made.resp)])
                /\ store' = made.store
                /\ connected' = IF close THEN Shut ELSE connected
    BY <2>1 DEF OnRequest
  <2>3. PICK made : made = Dispatch(NewResponse(close), Parsed, store, file)
    OBVIOUS
  <2>4. PICK a : a = [kind |-> "response", request |-> taken, store |-> store,
                      resp |-> appendToBuffer(made.resp)]
    OBVIOUS
  <2>5. answers' = Append(answers, a) /\ store' = made.store
    BY <1>2, <2>2, <2>3, <2>4 DEF Sent
  <2>6. connected' = IF close THEN "kDisconnecting" ELSE "kConnected"
    BY <1>2, <2>2 DEF Shut
  <2>7. req.state = "CHECK_DONE" /\ req' = NewRequest /\ taken' = <<>> /\ busy' = "idle"
        /\ buf' = buf /\ stream' = stream
    BY DEF OnRequest
  <2>8. ParserTypes /\ LineIsFirst /\ StoreOK(store)
        /\ \A i \in DOMAIN answers :
              answers[i].kind = "response" /\ ~Ends(answers[i])
              /\ answers[i].request \in Seq(Given)
    BY <1>2 DEF ServerInv, LiveInv
  <2>9. /\ LoginRight(a) /\ LengthRight(a) /\ StoreOK(made.store)
        /\ a.kind = "response" /\ a.request = taken /\ (Ends(a) <=> close)
    BY <2>3, <2>4, <2>7, <2>8, AnswerFacts
  <2>10. /\ AnswersInv' /\ LastAnswerIsLast'
         /\ \A i \in DOMAIN answers' : LoginRight(answers'[i]) /\ LengthRight(answers'[i])
         /\ DOMAIN answers' = 1 .. Len(answers) + 1 /\ DOMAIN answers = 1 .. Len(answers)
         /\ answers'[Len(answers) + 1] = a
         /\ \A i \in 1 .. Len(answers) : answers'[i] = answers[i]
         /\ Len(answers) \in Nat
    BY <1>2, <2>5, <2>9, AnswerAdded
  <2>11. CASE close
    <3>1. LiveInv'
      BY <2>6, <2>11 DEF LiveInv
    <3> QED
      BY <2>10, <3>1 DEF ServerInv
  <2>12. CASE ~close
    <3>1. ParserTypes'
      <4>1. <<>> \in Seq(Given)
        BY EmptySeq
      <4>2. DOMAIN NewRequest = RequestFields /\ NewRequest.chunkSize = 0
        BY DEF NewRequest, RequestFields
      <4> QED
        BY <2>7, <2>8, <4>1, <4>2 DEF ParserTypes
    <3>2. LineIsFirst' /\ NotBegun'
      BY <2>7 DEF LineIsFirst, NotBegun, NoLineYet, NewRequest
    <3>3. StoreOK(store')
      BY <2>5, <2>9
    <3>4. ASSUME NEW i \in DOMAIN answers'
          PROVE  answers'[i].kind = "response" /\ ~Ends(answers'[i])
                 /\ answers'[i].request \in Seq(Given)
      <4>1. CASE i = Len(answers) + 1
        <5>1. taken \in Seq(Given)
          BY <2>8 DEF ParserTypes
        <5> QED
          BY <2>9, <2>10, <2>12, <4>1, <5>1
      <4>2. CASE i # Len(answers) + 1
        <5>1. i \in 1 .. Len(answers)
          BY <2>10, <4>2
        <5> QED
          BY <2>8, <2>10, <5>1
      <4> QED
        BY <4>1, <4>2
    <3>5. (FlattenSeq(Answered) \o taken \o buf \o stream)' \in Streams
      BY <1>2, <2>5, <2>7, <2>9, AnsweredWhole
    <3>6. LiveInv'
      BY <3>1, <3>2, <3>3, <3>4, <3>5 DEF LiveInv
    <3> QED
      BY <2>10, <3>6 DEF ServerInv
  <2> QED
    BY <2>11, <2>12
<1> QED
  BY <1>1, <1>2

-----------------------------------------------------------------------------
(* The invariant, and what follows from it.                                *)

\* A new connection.
LEMMA InitServerInv == Init => ServerInv
<1> SUFFICES ASSUME Init PROVE ServerInv
  OBVIOUS
<1>1. answers = <<>> /\ DOMAIN answers = {} /\ answers \in Seq({}) /\ Len(answers) = 0
  BY DEF Init
<1>2. PICK s \in Streams : s = stream
  BY DEF Init
<1>3. s \in Seq(Given) /\ <<>> \in Seq(Given)
  BY GivenFacts, EmptySeq
<1>4. DOMAIN NewRequest = RequestFields /\ NewRequest.chunkSize = 0
      /\ NewRequest.state = "CHECK_REQUESTLINE"
  BY DEF NewRequest, RequestFields
<1>5. ParserTypes /\ LineIsFirst /\ NotBegun
  BY <1>2, <1>3, <1>4 DEF Init, ParserTypes, LineIsFirst, NotBegun, NoLineYet
<1>6. StoreOK(store)
  BY DEF Init, StoreOK
<1>7. Answered = <<>>
  BY <1>1 DEF Answered
<1>8. FlattenSeq(<<>>) = <<>>
  BY DEF FlattenSeq
<1>9. <<>> \o <<>> = <<>> /\ <<>> \o s = s
  BY <1>3, ConcatEmptySeq
<1>10. taken = <<>> /\ buf = <<>>
  BY DEF Init
<1>11. FlattenSeq(Answered) \o taken \o buf \o stream \in Streams
  BY <1>2, <1>7, <1>8, <1>9, <1>10
<1>12. LiveInv
  BY <1>1, <1>5, <1>6, <1>11 DEF LiveInv
<1>13. LastAnswerIsLast /\ AnswersInv
  BY <1>1 DEF LastAnswerIsLast, AnswersInv
<1> QED
  BY <1>1, <1>12, <1>13 DEF ServerInv

\* Every step keeps the invariant.
LEMMA NextServerInv == ServerInv /\ [Next]_vars => ServerInv'
<1> SUFFICES ASSUME ServerInv, [Next]_vars PROVE ServerInv'
  OBVIOUS
<1>1. ASSUME NEW n \in 1 .. Len(stream), Receive(n) PROVE ServerInv'
  <2>1. answers' = answers
    BY <1>1 DEF Receive
  <2> QED
    BY <1>1, <2>1, ReceiveKeeps, SameAnswers DEF ServerInv
<1>2. CASE Parse
  <2>1. answers' = answers
    BY <1>2 DEF Parse, serverVars
  <2> QED
    BY <1>2, <2>1, ParseKeeps, SameAnswers DEF ServerInv
<1>3. CASE BadRequest
  BY <1>3, BadRequestKeeps
<1>4. CASE OnRequest
  BY <1>4, OnRequestKeeps
<1>5. CASE OnIdle
  <2>1. answers' = answers /\ connected' # "kConnected"
    BY <1>5 DEF OnIdle, Shut
  <2> QED
    BY <2>1, SameAnswers DEF ServerInv, LiveInv
<1>6. CASE Closed
  <2>1. answers' = answers /\ connected' # "kConnected"
    BY <1>6 DEF Closed
  <2> QED
    BY <2>1, SameAnswers DEF ServerInv, LiveInv
<1>7. CASE UNCHANGED vars
  <2>1. /\ answers' = answers /\ connected' = connected /\ store' = store /\ stream' = stream
        /\ buf' = buf /\ req' = req /\ busy' = busy /\ taken' = taken
    BY <1>7 DEF vars, requestVars, serverVars
  <2>2. LiveInv'
    BY <2>1 DEF ServerInv, LiveInv, ParserTypes, LineIsFirst, NotBegun, NoLineYet, Answered
  <2> QED
    BY <2>1, <2>2, SameAnswers DEF ServerInv
<1> QED
  BY <1>1, <1>2, <1>3, <1>4, <1>5, <1>6, <1>7 DEF Next

\* It holds at all times.
LEMMA ServerInvariance == Spec => []ServerInv
BY InitServerInv, NextServerInv, PTL DEF Spec

\* However the input is cut into messages, every complete request gets one
\* answer, made for exactly that request, in order, and nothing follows an
\* answer that ends the exchange (HttpServer::onMessage).
THEOREM AnswersAlwaysFollow == Spec => []AnswersFollowInput
<1>1. ServerInv => AnswersFollowInput
  BY DEF ServerInv, LiveInv, AnswersFollowInput, Answered
<1> QED
  BY <1>1, ServerInvariance, PTL

\* A login is granted exactly to the rows of table user, whatever was
\* registered, cached and asked before (HttpService Login).
THEOREM LoginAlwaysAgrees == Spec => []LoginAgrees
<1>1. ServerInv => LoginAgrees
  BY DEF ServerInv, LoginRight, LoginAgrees, Responses
<1> QED
  BY <1>1, ServerInvariance, PTL

\* When ranges lie in the file, a response declares the length of what
\* follows it and sends the bytes that were asked for (HttpService
\* FileDownload, HttpResponse::appendToBuffer).
THEOREM LengthAlwaysDeclared == ASSUME RangesInFile PROVE Spec => []LengthIsDeclared
<1>1. ServerInv => LengthIsDeclared
  BY DEF ServerInv, LengthRight, Declares, AskedBytes, LengthIsDeclared, Responses
<1> QED
  BY <1>1, ServerInvariance, PTL

================================================================================
