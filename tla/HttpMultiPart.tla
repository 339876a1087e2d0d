---------------------------- MODULE HttpMultiPart ----------------------------
(***************************************************************************)
(* HttpMultiPart::parse (web/http/base/HttpMultiPart.cpp) on the body of an *)
(* upload.  The body is a sequence of tokens: "--", "CR" and "LF", the     *)
(* boundary "B", a "disp" (Content-Disposition, with the name and the file *)
(* name it gives), a "type" (Content-Type) and data bytes "x".             *)
(*                                                                         *)
(* Every iteration of the outer loop and of the loop over the content is a *)
(* step.  Where the code finds a bad body it goes round without moving.    *)
(***************************************************************************)
EXTENDS Naturals, Sequences, SequencesExt

CONSTANTS
    buf_size,       \* size of the array content is gathered in
    Uploads         \* the uploads to look at: sequences of fields

ASSUME MultiPartAssumption == buf_size \in Nat \ {0}

\* A field has a name, a file name, which is NoFile for a plain value, and
\* content.
NoFile == "none"

VARIABLES
    upload,         \* what the sender put into the body
    state,          \* the State of parse
    place,          \* i, from 1
    field,          \* name, filename, type (file_mark) and form_file_data so far
    gathered,       \* the k bytes in buffer
    begin,          \* pi
    form, formFiles \* _form, _files

multiPartVars == <<upload, state, place, field, gathered, begin, form, formFiles>>

Token(k) == [k |-> k]
CRLFs == <<Token("CR"), Token("LF")>>

\* How a field is written (RFC 7578; the comment before parse shows one).
Written1(f) ==
    <<Token("--"), Token("B")>> \o CRLFs
    \o <<[k |-> "disp", name |-> f.name, file |-> f.file]>> \o CRLFs
    \o (IF f.file = NoFile THEN <<>> ELSE <<Token("type")>> \o CRLFs)
    \o CRLFs \o f.data \o CRLFs

Body == FlattenSeq([n \in DOMAIN upload |-> Written1(upload[n])])
        \o <<Token("--"), Token("B"), Token("--")>> \o CRLFs

NoField == [name |-> "", file |-> NoFile, mark |-> FALSE, data |-> <<>>]

MultiPartInit ==
    /\ upload \in Uploads
    /\ state = "start_body" /\ place = 1
    /\ field = NoField /\ gathered = <<>> /\ begin = 1
    /\ form = {} /\ formFiles = {}

\* The tokens at place are these.
Reads(ks) ==
    \A j \in DOMAIN ks : place + j - 1 <= Len(Body) /\ Body[place + j - 1].k = ks[j]

In(s) == state = s /\ place <= Len(Body)
Pass(n, s) == place' = place + n /\ state' = s
Stay == UNCHANGED <<place, state>>

-----------------------------------------------------------------------------
StartBody ==
    /\ In("start_body")
    /\ IF Reads(<<"--">>) THEN Pass(1, "start_boundary") ELSE Stay
    /\ UNCHANGED <<upload, field, gathered, begin, form, formFiles>>

StartBoundary ==
    /\ In("start_boundary")
    /\ CASE Reads(<<"B", "CR", "LF">>) -> Pass(3, "end_boundary")
         [] Reads(<<"B", "--">>) -> Pass(2, "end_body")
         [] OTHER -> UNCHANGED state /\ place' = place + (IF Reads(<<"B">>) THEN 1 ELSE 0)
    /\ UNCHANGED <<upload, field, gathered, begin, form, formFiles>>

\* end_boundary and start_content_disposition, up to the end of the line
Disposition ==
    /\ In("end_boundary")
    /\ IF Reads(<<"disp", "CR", "LF">>)
       THEN /\ Pass(3, "end_content_disposition")
            /\ field' = [field EXCEPT !.name = Body[place].name, !.file = Body[place].file]
       ELSE Stay /\ UNCHANGED field
    /\ UNCHANGED <<upload, gathered, begin, form, formFiles>>

\* end_content_disposition, and start_content_type up to the end of the line
EndDisposition ==
    /\ In("end_content_disposition")
    /\ CASE Reads(<<"CR", "LF">>) ->
              /\ Pass(2, "start_content_data")
              /\ field' = [field EXCEPT !.mark = FALSE]
         [] Reads(<<"type", "CR", "LF">>) ->
              /\ Pass(3, "end_content_type")
              /\ field' = [field EXCEPT !.mark = TRUE]
         [] OTHER -> Stay /\ UNCHANGED field
    /\ UNCHANGED <<upload, gathered, begin, form, formFiles>>

EndType ==
    /\ In("end_content_type")
    /\ IF Reads(<<"CR", "LF">>) THEN Pass(2, "start_content_data") ELSE Stay
    /\ UNCHANGED <<upload, field, gathered, begin, form, formFiles>>

StartData ==
    /\ In("start_content_data")
    /\ gathered' = <<>> /\ begin' = place
    /\ Pass(0, "content")
    /\ UNCHANGED <<upload, field, form, formFiles>>

\* std::string::resize
Resized(s, n) == [j \in 1 .. n |-> IF j <= Len(s) THEN s[j] ELSE Token("NUL")]

\* Mutant of Content: what is left in the array is forgotten.
MultiPartContentDrops ==
    /\ In("content")
    /\ IF Reads(<<"CR", "LF", "--", "B">>)
       THEN /\ field' = [field EXCEPT !.data = Resized(@, place - begin)]
            /\ Pass(2, "end_content_data")
            /\ UNCHANGED gathered
       ELSE LET more == Append(gathered, Body[place])
                full == Len(more) >= buf_size
            IN  /\ gathered' = IF full THEN <<>> ELSE more
                /\ field' = IF full THEN [field EXCEPT !.data = @ \o more] ELSE field
                /\ Pass(1, "content")
    /\ UNCHANGED <<upload, begin, form, formFiles>>

\* The content, gathered in the array until that is full or the boundary comes
MultiPartContent ==
    /\ In("content")
    /\ IF Reads(<<"CR", "LF", "--", "B">>)
       THEN /\ field' = [field EXCEPT !.data = Resized(@ \o gathered, place - begin)]
            /\ Pass(2, "end_content_data")
            /\ UNCHANGED gathered
       ELSE LET more == Append(gathered, Body[place])
                full == Len(more) >= buf_size
            IN  /\ gathered' = IF full THEN <<>> ELSE more
                /\ field' = IF full THEN [field EXCEPT !.data = @ \o more] ELSE field
                /\ Pass(1, "content")
    /\ UNCHANGED <<upload, begin, form, formFiles>>

\* end_content_data: a value replaces one of the same name; a second file of
\* a name is added to a copy of the list, which is thrown away.
EndData ==
    /\ In("end_content_data")
    /\ LET entry == [name |-> field.name, file |-> field.file, data |-> field.data]
           Without == {e \in form : e.name # field.name}
           known == \E e \in formFiles : e.name = field.name
       IN  IF field.mark
           THEN /\ formFiles' = IF known THEN formFiles ELSE formFiles \cup {entry}
                /\ UNCHANGED form
           ELSE form' = Without \cup {entry} /\ UNCHANGED formFiles
    /\ field' = NoField
    /\ Pass(0, "start_body")
    /\ UNCHANGED <<upload, gathered, begin>>

EndBody ==
    /\ In("end_body")
    /\ Pass(2, "end_body")
    /\ UNCHANGED <<upload, field, gathered, begin, form, formFiles>>

MultiPartNext ==
    \/ StartBody \/ StartBoundary \/ Disposition \/ EndDisposition \/ EndType
    \/ StartData \/ MultiPartContent \/ EndData \/ EndBody

-----------------------------------------------------------------------------
(* What parse is for.                                                      *)

Values == {upload[n] : n \in {m \in DOMAIN upload : upload[m].file = NoFile}}
Files == {upload[n] : n \in {m \in DOMAIN upload : upload[m].file # NoFile}}

\* parse is over, with every value and every file of the upload under its
\* name and with its content byte for byte.
Received == place > Len(Body) /\ form = Values /\ formFiles = Files

=============================================================================
