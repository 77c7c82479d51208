--------------------------- MODULE StreamResponse ---------------------------
(***************************************************************************)
(* How a GetFeature response is streamed (output/base.py, and the          *)
(* render_stream() and render_exception() of gml32.py, geojson.py and      *)
(* csv.py).  The renderer is a generator that collects text in a buffer    *)
(* and yields it when it is longer than chunk_size.  The view pulls the    *)
(* first chunk, so that an error up to there becomes an HTTP error; the    *)
(* WSGI server pulls the others, where an error can only be written into   *)
(* the text that was already begun.                                        *)
(*                                                                         *)
(* The text is a sequence of tokens: what a program that reads the         *)
(* response tells apart.  Every query and every rendering may fail.        *)
(***************************************************************************)
EXTENDS Integers, SequencesExt

CONSTANTS
    Formats,     \* the renderers in use, of "gml", "geojson" and "csv"
    Pages,       \* the numbers of features of the collections, by response
    ChunkSizes   \* the values chunk_size may have

Text(t) == [kind |-> t, of |-> <<>>]
Feature(c, i) == [kind |-> "feature", of |-> <<c, i>>]

ASSUME FormatsAssumption == Formats \subseteq {"gml", "geojson", "csv"}
ASSUME PagesAssumption == \A p \in Pages : p \in Seq(Nat) /\ p # <<>>
ASSUME ChunkSizesAssumption == ChunkSizes \subseteq Nat

VARIABLES
    format, page, chunkSize,
    legacy,     \* the output CRS has a legacy notation: GML prints a note
    pc,         \* where render_stream() is
    at,         \* the collection it is at
    read,       \* how many features of it were read
    output,     \* the buffer
    chunk,      \* what was yielded last and is not sent yet
    turn,       \* who runs: "renderer", "view" or "server"
    status,     \* the HTTP status
    sent,       \* what the client has
    failure,    \* the exception that was raised
    document    \* all that render_stream() and render_exception() wrote

request == <<format, page, chunkSize, legacy>>
vars == <<request, pc, at, read, output, chunk, turn, status, sent, failure, document>>

-----------------------------------------------------------------------------
(* What the renderers write.                                               *)

Multiple == Len(page) > 1
HasFeatures == \E c \in DOMAIN page : page[c] # 0
OnlyIf(condition, text) == IF condition THEN text ELSE <<>>

Header ==
    CASE format = "gml"     -> <<Text("<collection>")>>
      [] format = "geojson" -> <<Text("[")>>
      [] format = "csv"     -> <<>>
Note == OnlyIf(format = "gml" /\ legacy, <<Text("note")>>)
SubOpening == <<Text("<member>"), Text("<sub>")>>
SubClosing == <<Text("</sub>"), Text("</member>")>>
Opening ==
    CASE format = "gml"     -> Note \o OnlyIf(Multiple, SubOpening)
      [] format = "geojson" -> OnlyIf(at > 1, <<Text("comma")>>)
      [] format = "csv"     -> OnlyIf(at > 1, <<Text("blank")>>) \o <<Text("columns")>>
(* Mutation: is_first is not set again for the next collection.            *)
BeforeFeature_FirstOfAll ==
    CASE format = "gml"     -> <<Text("<member>")>>
      [] format = "geojson" -> OnlyIf(read > 1 \/ at > 1, <<Text("comma")>>)
      [] format = "csv"     -> <<>>

BeforeFeature ==
    CASE format = "gml"     -> <<Text("<member>")>>
      [] format = "geojson" -> OnlyIf(read > 1, <<Text("comma")>>)
      [] format = "csv"     -> <<>>
AfterFeature == OnlyIf(format = "gml", <<Text("</member>")>>)
Closing == OnlyIf(format = "gml" /\ Multiple, SubClosing)
BeforeFooter == OnlyIf(format = "geojson", <<Text("]")>>)
Footer ==
    CASE format = "gml"     -> <<Text("</collection>")>>
      [] format = "geojson" -> <<Text("footer")>>
      [] format = "csv"     -> <<>>

(* render_exception(), which begins with what is still in the buffer.      *)
(* Mutation: the open tags are left open.                                  *)
Truncation_NotClosed(buffer) ==
    CASE format = "gml"     -> <<Text("truncated"), Text("</collection>")>>
      [] format = "geojson" -> <<Text("comment")>>
      [] format = "csv"     -> <<Text("message")>>

Truncation(buffer) ==
    CASE format = "gml" ->
            OnlyIf(Multiple /\ ~IsSuffix(SubClosing, buffer), SubClosing)
            \o <<Text("truncated"), Text("</collection>")>>
      [] format = "geojson" -> <<Text("comment")>>
      [] format = "csv"     -> <<Text("message")>>

-----------------------------------------------------------------------------
Init ==
    /\ format \in Formats
    /\ page \in Pages
    /\ chunkSize \in ChunkSizes
    /\ legacy \in BOOLEAN
    /\ pc = "header"
    /\ at = 1 /\ read = 0
    /\ output = <<>>
    /\ chunk = <<>>
    /\ turn = "renderer"
    /\ status = "none"
    /\ sent = <<>>
    /\ failure = "none"
    /\ document = <<>>

Writes(text) ==
    /\ output' = output \o text
    /\ document' = document \o text

(* OWSView.handle_exception(): an OWSException has a status of its own,    *)
(* Django answers other exceptions with 500.                               *)
HttpStatus(kind) == IF kind = "filter" THEN "client error" ELSE "server error"

(* An exception in render_stream(), after it wrote some text.  Before the  *)
(* first chunk the view gets it.  After that _trap_exceptions() yields what*)
(* render_exception() returns.                                             *)
Fail(kind, text) ==
    /\ failure' = kind
    /\ pc' = "raised"
    /\ IF status = "none"
       THEN /\ status' = HttpStatus(kind)
            /\ turn' = "nobody"
            /\ output' = <<>>
            /\ UNCHANGED <<chunk, document>>
       ELSE /\ chunk' = output \o text \o Truncation(output \o text)
            /\ document' = document \o text \o Truncation(output \o text)
            /\ turn' = "server"
            /\ output' = output \o text
            /\ UNCHANGED status
    /\ UNCHANGED <<request, at, read, sent>>

(* wrap_filter_errors() turns what a query raises into an OWSException, if *)
(* it knows the exception; other exceptions pass.                          *)
QueryErrors == {"filter", "other"}
RenderErrors == {"other"}

-----------------------------------------------------------------------------
(* render_stream().                                                        *)

Running(label) == turn = "renderer" /\ pc = label

(* Mutation: only the first collection tells whether there are features.   *)
WriteHeader_FirstCollection ==
    /\ Running("header")
    /\ Writes(Header)
    /\ pc' = IF format = "gml" /\ page[1] = 0 THEN "footer" ELSE "collection"
    /\ UNCHANGED <<request, at, read, chunk, turn, status, sent, failure>>

WriteHeader ==
    /\ Running("header")
    /\ Writes(Header)
    /\ pc' = IF format = "gml" /\ ~HasFeatures THEN "footer" ELSE "collection"
    /\ UNCHANGED <<request, at, read, chunk, turn, status, sent, failure>>

FailHeader ==
    /\ Running("header")
    /\ format = "gml"
    /\ \E kind \in QueryErrors : Fail(kind, <<>>)

OpenCollection ==
    /\ Running("collection")
    /\ at <= Len(page)
    /\ Writes(Opening)
    /\ read' = 0
    /\ pc' = "read"
    /\ UNCHANGED <<request, at, chunk, turn, status, sent, failure>>

(* The number_matched and number_returned of a collection, or a hook.      *)
FailCollection ==
    /\ Running("collection")
    /\ at <= Len(page)
    /\ format = "gml"
    /\ \E kind \in QueryErrors : Fail(kind, Note)

(* Mutation: one feature too many.                                         *)
ReadFeature_OneTooMany ==
    /\ Running("read")
    /\ read <= page[at]
    /\ read' = read + 1
    /\ pc' = "write"
    /\ UNCHANGED <<request, at, output, chunk, turn, status, sent, failure, document>>

ReadFeature ==
    /\ Running("read")
    /\ read < page[at]
    /\ read' = read + 1
    /\ pc' = "write"
    /\ UNCHANGED <<request, at, output, chunk, turn, status, sent, failure, document>>

FailRead ==
    /\ Running("read")
    /\ \E kind \in QueryErrors : Fail(kind, <<>>)

(* Mutation: the length of the buffer is not looked at before the end.     *)
WriteFeature_NoFlush ==
    /\ Running("write")
    /\ Writes(BeforeFeature \o <<Feature(at, read)>> \o AfterFeature)
    /\ pc' = IF Len(output') > chunkSize /\ read = page[at] THEN "flush" ELSE "read"
    /\ UNCHANGED <<request, at, read, chunk, turn, status, sent, failure>>

WriteFeature ==
    /\ Running("write")
    /\ Writes(BeforeFeature \o <<Feature(at, read)>> \o AfterFeature)
    /\ pc' = IF Len(output') > chunkSize THEN "flush" ELSE "read"
    /\ UNCHANGED <<request, at, read, chunk, turn, status, sent, failure>>

(* GML writes a feature tag by tag, the others write it when it is made.   *)
FailFeature ==
    /\ Running("write")
    /\ \E kind \in RenderErrors :
          Fail(kind, BeforeFeature \o OnlyIf(format = "gml", <<Text("<feature>")>>))

(* The generator yields: to get_response() the first time, then to the     *)
(* WSGI server.                                                            *)
Yields ==
    /\ chunk' = output
    /\ turn' = IF status = "none" THEN "view" ELSE "server"

(* Mutation: the buffer is not emptied.                                    *)
Flush_NotTruncated ==
    /\ Running("flush")
    /\ Yields
    /\ pc' = "read"
    /\ UNCHANGED <<request, at, read, output, status, sent, failure, document>>

Flush ==
    /\ Running("flush")
    /\ Yields
    /\ output' = <<>>
    /\ pc' = "read"
    /\ UNCHANGED <<request, at, read, status, sent, failure, document>>

CloseCollection ==
    /\ Running("read")
    /\ read = page[at]
    /\ Writes(Closing)
    /\ at' = at + 1
    /\ read' = 0
    /\ pc' = "collection"
    /\ UNCHANGED <<request, chunk, turn, status, sent, failure>>

EndCollections ==
    /\ Running("collection")
    /\ at > Len(page)
    /\ pc' = "footer"
    /\ UNCHANGED <<request, at, read, output, chunk, turn, status, sent, failure, document>>

WriteFooter ==
    /\ Running("footer")
    /\ Writes(BeforeFooter \o Footer)
    /\ pc' = "last"
    /\ UNCHANGED <<request, at, read, chunk, turn, status, sent, failure>>

FailFooter ==
    /\ Running("footer")
    /\ format = "geojson"
    /\ \E kind \in QueryErrors : Fail(kind, BeforeFooter)

YieldLast ==
    /\ Running("last")
    /\ Yields
    /\ pc' = "exhausted"
    /\ UNCHANGED <<request, at, read, output, status, sent, failure, document>>

Render ==
    \/ WriteHeader \/ OpenCollection \/ ReadFeature \/ WriteFeature \/ Flush
    \/ CloseCollection \/ EndCollections \/ WriteFooter \/ YieldLast
Failing ==
    FailHeader \/ FailCollection \/ FailRead \/ FailFeature \/ FailFooter

-----------------------------------------------------------------------------
(* get_response(): the first chunk is there, the response is handed over.  *)
HandOver ==
    /\ turn = "view"
    /\ status' = "ok"
    /\ turn' = "server"
    /\ UNCHANGED <<request, pc, at, read, output, chunk, sent, failure, document>>

(* The WSGI server sends a chunk and asks for the next one.                *)
(* Mutation: it is not told of the exception after the last chunk.         *)
Send_NotRaised ==
    /\ turn = "server"
    /\ sent' = sent \o chunk
    /\ chunk' = <<>>
    /\ turn' = IF pc = "exhausted" THEN "nobody" ELSE "renderer"
    /\ UNCHANGED <<request, pc, at, read, output, status, failure, document>>

Send ==
    /\ turn = "server"
    /\ sent' = sent \o chunk
    /\ chunk' = <<>>
    /\ turn' = IF pc \in {"exhausted", "raised"} THEN "nobody" ELSE "renderer"
    /\ UNCHANGED <<request, pc, at, read, output, status, failure, document>>

(* The client is gone, and the generator with it: no exception is trapped. *)
Leave ==
    /\ turn = "server"
    /\ turn' = "nobody"
    /\ failure' = "left"
    /\ UNCHANGED <<request, pc, at, read, output, chunk, status, sent, document>>

Next == Render \/ Failing \/ HandOver \/ Send \/ Leave

(* The server goes on with a response as long as the client is there.      *)
Spec == Init /\ [][Next]_vars /\ WF_vars(Render \/ HandOver \/ Send)
-----------------------------------------------------------------------------
Token ==
    [kind : {"<collection>", "</collection>", "<sub>", "</sub>", "<member>", "</member>",
             "<feature>", "note", "truncated", "[", "]", "comma", "footer", "comment", "blank",
             "columns", "message"},
     of : {<<>>}]
    \union [kind : {"feature"}, of : Nat \X Nat]

TypeOK ==
    /\ format \in Formats /\ page \in Pages /\ chunkSize \in ChunkSizes /\ legacy \in BOOLEAN
    /\ pc \in {"header", "collection", "read", "write", "flush", "footer", "last",
               "exhausted", "raised"}
    /\ at \in 1..Len(page) + 1
    /\ read \in Nat
    /\ at <= Len(page) => read <= page[at]
    /\ output \in Seq(Token) /\ chunk \in Seq(Token)
    /\ sent \in Seq(Token) /\ document \in Seq(Token)
    /\ turn \in {"renderer", "view", "server", "nobody"}
    /\ status \in {"none", "ok", "client error", "server error"}
    /\ failure \in {"none", "filter", "other", "left"}

(* The text the renderer wrote reaches the client in order, each part once,*)
(* cut into chunks as it is, and with what was in the buffer when an       *)
(* exception came.                                                         *)
Buffered == IF pc \in {"exhausted", "raised"} THEN <<>> ELSE output
NothingIsLostOrRepeated ==
    status \in {"none", "ok"} => sent \o chunk \o Buffered = document

(* A client can tell what it got: an error status and nothing else, a      *)
(* response that holds all features, or one that says that it is truncated.*)
(* What it has is always the beginning of what it asked for: no feature is *)
(* skipped, repeated or moved.                                             *)
Ended == turn = "nobody"
FeaturesAt(text) == {i \in DOMAIN text : text[i].kind = "feature"}
FeaturesOf(text) == {text[i].of : i \in FeaturesAt(text)}
AllFeatures == UNION {{c} \X (1..page[c]) : c \in DOMAIN page}
Precedes(f, g) == f[1] < g[1] \/ (f[1] = g[1] /\ f[2] < g[2])
InOrder(text) ==
    \A i, j \in FeaturesAt(text) : i < j => Precedes(text[i].of, text[j].of)
NoneIsSkipped(text) ==
    \A g \in FeaturesOf(text) : \A f \in AllFeatures : Precedes(f, g) => f \in FeaturesOf(text)
IsBeginning(text) ==
    FeaturesOf(text) \subseteq AllFeatures /\ InOrder(text) /\ NoneIsSkipped(text)
SaysTruncated(text) == \E i \in DOMAIN text : text[i].kind \in {"truncated", "comment", "message"}
TruncationIsTold ==
    /\ IsBeginning(sent)
    /\ Ended /\ failure # "left" =>
          \/ status = "ok" /\ failure = "none"
             /\ FeaturesOf(sent) = AllFeatures /\ ~SaysTruncated(sent)
          \/ status = "ok" /\ failure # "none" /\ SaysTruncated(sent)
          \/ status \in {"client error", "server error"} /\ failure # "none" /\ sent = <<>>

(* "Only at the top-level, an exception report can be rendered, close any  *)
(* remaining tags" (GML32Renderer.render_exception): the XML is well-formed*)
(* whether it is complete or truncated, features are in members and the    *)
(* truncation is told at the top.  The tags of a feature that was being    *)
(* written are not closed, and a note before a later collection hides that *)
(* the one before it was closed already.                                   *)
Closes == [t \in {"</collection>", "</sub>", "</member>"} |->
              CASE t = "</collection>" -> "<collection>"
                [] t = "</sub>" -> "<sub>"
                [] t = "</member>" -> "<member>"]
Parent == [t \in {"<sub>", "feature", "truncated"} |->
              IF t = "truncated" THEN "<collection>" ELSE "<member>"]
Parse(stack, t) ==   \* the open tags, the innermost first
    CASE t \in {"<collection>", "<member>"} -> <<t>> \o stack
      [] t \in DOMAIN Closes ->
            IF stack # <<>> /\ Head(stack) = Closes[t] THEN Tail(stack) ELSE <<"error">> \o stack
      [] t \in DOMAIN Parent ->
            IF stack # <<>> /\ Head(stack) = Parent[t]
            THEN OnlyIf(t = "<sub>", <<t>>) \o stack ELSE <<"error">> \o stack
      [] t = "<feature>" -> <<t>> \o stack
      [] t = "note" -> stack
OpenTags(text) ==
    LET open[n \in 0..Len(text)] ==
            IF n = 0 THEN <<>> ELSE Parse(open[n - 1], text[n].kind)
    IN  open[Len(text)]
WellFormed(text) == OpenTags(text) = <<>>
FailedInFeature == \E i \in DOMAIN sent : sent[i].kind = "<feature>"
FailedAfterNote ==
    Multiple /\ \E i \in 2..Len(sent) : sent[i - 1].kind = "note" /\ sent[i].kind = "</sub>"
XmlIsWellFormed ==
    format = "gml" /\ Ended /\ status = "ok" /\ failure # "left"
    /\ ~FailedInFeature /\ ~FailedAfterNote
    => WellFormed(sent)

(* A complete GeoJSON response is JSON (read_json() in the tests): its     *)
(* features are separated by single commas, unless one of several          *)
(* collections is empty.                                                   *)
SeparatedByCommas(text) ==
    /\ text # <<>> => Len(text) % 2 = 1
    /\ \A i \in DOMAIN text : text[i].kind = IF i % 2 = 1 THEN "feature" ELSE "comma"
JsonIsValid ==
    format = "geojson" /\ Ended /\ status = "ok" /\ failure = "none"
    /\ (~Multiple \/ \A c \in DOMAIN page : page[c] > 0)
    => /\ Head(sent).kind = "["
       /\ SeparatedByCommas(SubSeq(sent, 2, Len(sent) - 2))
       /\ sent[Len(sent) - 1].kind = "]" /\ Last(sent).kind = "footer"

(* What the client gets is a document of the format it asked for.          *)
DocumentIsWellFormed == XmlIsWellFormed /\ JsonIsValid

(* "The streaming rendering will help keep memory usage small": what waits *)
(* in the buffer does not grow with the number of features.                *)
LongestFeature == 3
LongestCollection == 5
BufferIsBounded ==
    Len(output) <= chunkSize + LongestFeature + LongestCollection * Len(page)

(* A response ends: complete, truncated, or because the client left.       *)
ResponseEnds == <>Ended
=============================================================================
